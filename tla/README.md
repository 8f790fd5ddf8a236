# connect-career-be in TLA+

TLA+ modules that model the core of the recruitment backend in
`src/services/connect-career-be` (NestJS, TypeORM on PostgreSQL, BullMQ on Redis), the
configurations that check them with TLC, and theorems about them that TLAPS proves.
Paths below are relative to `src/services/connect-career-be/src/`, those of `docs/` to
`src/services/connect-career-be/`, unless they start with `src/`.

## The system

Candidates apply for jobs, recruiters move the applications through a hiring pipeline, and both pay
for some actions from a prepaid wallet. One fact about the code shapes every model: **services use
no transactions and no row locks**. A handler awaits one repository call after another, several
requests interleave at every `await`, two replicas of the backend run at once
(`src/infra/k8s/connect-career-be-deployment.yaml:9`), and `save(entity)` writes back the columns as
the handler read them. So a query is the atomic step of every model, and what a handler has read is
part of its local state. The exceptions are the two comprehensive operations on pipelines and the
profile of a candidate, which open READ COMMITTED transactions: the first commit in one step after
their checks, the profile holds the lock of its row until it commits.

The repository has no migrations and runs with `synchronize: false`, so tables are modelled as the
entities declare them: unique columns and foreign keys reject what they would reject. TypeORM's `save`
of an entity writes the columns that differ from the row it finds, inserts the row if it is gone, and
takes related rows that were not loaded away from it. A row with both a relation and its column set may
be saved with either value (updateReport).

### Inventory

| component | state | operations | what is hard | what makes it correct |
|---|---|---|---|---|
| Wallet (`modules/subscription`, WalletService) | `user_wallets.creditBalance`, `wallet_transactions`, `usage_ledger` | getOrCreateWallet, creditWallet, debitWallet, deductForAction | read, compute, save of one row by concurrent calls; three writes without a transaction; a `decimal(10,2)` column | no overdraft, no money from nothing, rows that explain the balance |
| Pay-as-you-go actions (WalletBalanceGuard, WalletDeductionInterceptor, BillableActionService) | `billable_actions` | guard, the controller's work, deduction after the answer; administrators edit, delete and create actions | the check and the deduction are far apart and nobody waits for the deduction | only done work is charged, done work is charged |
| Top-ups (PaymentService, MoMo, ZaloPay and Stripe providers and controllers) | `payment_transactions` | initiateTopUp, webhook, return URL, status query | four writers of one row; the gateway repeats and delays notifications; catch clauses that swallow | what was paid is credited once, and nothing else but what MoMo's webhook was told was paid |
| Refunds (RefundBackofficeService, MoMoProvider.refundPayment) | `refunds`, `payment_transactions.status`, the wallet | createRefund, processRefund | eight writes around a call to the gateway; a wallet read before that call; retries | what is recorded as refunded is what the gateway paid back, once |
| Applications (`modules/applications`, part of `modules/jobs`) | `applications`, `jobs` | apply, status, update, stage, matching score, delete; the status of the job | whole rows saved from old reads, after calls of up to 30 s; a job row shared by all applicants | status and history agree; stages follow the pipeline; a full job closes |
| Notifications (`modules/notifications`, `shared/infrastructure/queue`) | `notifications`, the BullMQ queue | send, schedule, cron job, processor with retries, mark as read, clean-up | crash between insert and queueing; the same row queued twice; delivery and its record are two steps | the row tells what happened; what was scheduled is settled |
| Offers (`offer.service.ts`) | `offers`, the application's status, history, `currentOfferId` | create, counter, accept, reject, record an answer, update, delete, cancel | look at the latest offer, then update by id; three queries per operation | a chain of offers; the application names the latest one; accepted with an accepted offer |
| Interviews (`interview.service.ts`) | `interviews`, counters in the application | schedule, feedback, reschedule, cancel, delete | counters next to the rows they count; whole rows saved from old reads | rows and counters agree; a status that fits |
| Hiring pipelines (`modules/hiring-pipeline`) | `hiring_pipelines`, stages, transitions, the job's pipeline | edit pipelines, stages and transitions, assign jobs, replace all in one transaction | transitions name stages by key, without a foreign key; four queries without a transaction | transitions join stages; names differ |
| Jobs and saved jobs (`modules/jobs`, job back office) | `jobs`, `saved_jobs`, `favorite_jobs`, `job_interactions` | create, update, publish, close, remove, view, save, favour | several operations save the whole job row | an active job has a date; savers agree; announced once |
| Organisations (`organization-rbac.service.ts`, migration) | roles, memberships, invitations | found, migrate, add, invite, accept, decline, change, remove | check, then insert; a creation that is undone half way | a member for each accepted invitation; an owner |
| Reports (`report.service.ts`) | `reports`, a list and an index in Redis | create and assign in turn, update, refresh | read and write of an index in a cache that swallows its errors | work is spread |
| Candidate profiles (`candidate.profile.service.ts`) | `candidate_profiles`, its lists, organisations made by name, the queue of embeddings | create, update | a list is deleted and inserted anew; the row is locked only if it changes | one list; a percentage that fits; the last embedding is the last list |
| Files and CVs (file system, CVService) | `files`, `cvs`, objects in Cloudinary | upload, signed upload, complete, delete; upload and delete a CV | table and cloud change in separate steps | what is shown is stored; what is deleted goes |
| Conversations (`chat.service.ts`, AiAgentController) | `chat_sessions`, `messages`, `attachments`, `conversations` | stream with retries; share, update, delete a session | eight queries around agents that take minutes; the client tries again | a question before its answer; limited retries |
| Mock interviews (`modules/mock-ai-interview`) | sessions, questions, responses, feedback | create, register a call, analyse (client and webhook), insights | analysed twice; a session saved with related rows that were loaded before | one analysis per call; results of the last |
| Agent workflow (`workflow-engine.service.ts`) | local | topologicalSort, executeWorkflow | any graph of dependencies, with cycles | dependencies come first |
| Preferences, job alerts and push tokens (notification.service.ts, orchestrator, job-alert.scheduler.ts, push.provider.ts) | `user_notification_preferences`, `push_notification_tokens` | choose channels, create defaults, alert, register a device, deactivate a rejected token | three creators of one row, with different defaults; a token saved as it was read | the choice stands; alerts are wanted; one token per device |
| Hiring reports and recruiter dashboard (organization-hiring-analytics.service.ts, recruiter-dashboard.service.ts) | none: they read `applications` | report with comparison, dashboard | queries of one report run at once and see different tables | figures agree with each other, numbers with lists |
| Identity | users, sessions | login, refresh, reset | — | — |
| Search, recommendations, back office, industries, users, AI service | rows, indexes, models | queries, single rows | external | — |
| Unit of work, Redis lock | — | — | no service uses them | — |

How they interact: an HTTP request for a billable action runs the guard (a wallet read), the
controller, and then the interceptor's deduction. A webhook saves the payment row and calls
creditWallet. A refund saves payment and wallet directly, bypassing WalletService. A HIRED application
makes JobStatusService recount and save the job. Domain events (`@nestjs/cqrs`) trigger the matching
score and the notifications, which go through the queue to the workers of both replicas. Offers and
interviews save the application that Application's operations save, so Offer and Interview share it;
Application takes the stages and transitions of a pipeline as a constant, and Pipeline edits them.

## Components

### Account and Wallet

`Wallet` models WalletService. A call is a record of local state (`op`, `user`, `amount`, the balance
it read, its stage, whether it has saved); the stages are the queries in program order:
`FindWallet`/`FindNoWallet`, `InsertWallet`/`InsertDuplicate` (the unique join column),
`SaveWallet`/`SaveOverflows`, `SaveUsage`, `SaveTransaction`. `Fault` is any query being rejected.
`given`, `taken` and `lost` are history: what calls have saved in and out, and what stale saves lost.
`Serial = TRUE` makes a caller wait until nobody else is in a call. Money is counted in cents, up to
`MaxMoney`, which stands for what the column holds.

`Account` is the abstract specification: indivisible deposits and withdrawals.
Under `Serial`, Wallet implements it (`ImplementsAccount`).

### BillableUse

Extends `Wallet`. A request makes two wallet calls, `<<r, "check">>` in the guard and
`<<r, "charge">>` in the interceptor; between them the controller works or throws. `AdminReads`,
`AdminSaves`, `AdminDeletes`, `AdminCreates` are BillableActionService; an administrator's save
writes the row as it was read.

### TopUp and Payment

`Payment` extends `Wallet`. A handler is one HTTP request: `initiateTopUp` (`TopUp…`), a webhook
(`Deliver`, `Mark`, `Find`, `SaveEvent`, `Credit`, `Credited`), or a return or status request
(`Confirm…`, `Poll…`). Creators and hooks each own the wallet call of their name. The gateways are
external: `ChargeEnds` (the user pays or not), `Deliver` (a notification), `Answers` (a status query,
where every error reads FAILED, as in the providers). `Redeliver = FALSE`: a gateway notifies again
only until it is answered with success. `TRUE`: the answer may be lost, so it may notify again later.

The check of MoMo's signature is a placeholder (momo.provider.ts:411), so its webhook handles any call
for a row that exists as if MoMo had made it. `Strangers` are the webhook calls that no gateway made, and
`DeliverUnverified` is one of them, reporting anything. Hence no property says that every credit was
paid for, since it is false of the code: `CreditedOnlyPaid` and `CompletedOnlyPaid` say it of what gateways
notify and queries answer, and that all else was told to MoMo's webhook. The refinement of `TopUp` and the
liveness count the gateways' own notifications.

`TopUp` is the abstract specification: a payment that was paid is credited, once.

### Refund

createRefund and processRefund down to the gateway, one action per query. The wallet is one balance
and its spending is one atomic step, since SaveWallet here competes with any completed change.
MoMoProvider inserts a refunds row of its own (`gatewayRow`). The gateway is external: `givenBack` is what
it has paid back of each payment, and it pays back no more than is left.

### Application

The applications of one job and the job's row. A request is a record with its operation and the rows
it has read. Every save writes a whole row; only the update in JobStatusService writes two columns.
Ids matter: TypeORM inserts a row again that was deleted
meanwhile, unless the candidate has applied anew, when the save is rejected.

### Notifications

Rows, the jobs of the queue with the local state of their worker, the cron job and the readers. BullMQ
is external: it delays, hands out, retries `Attempts` times, and gives a stalled job to another worker
once. The row saved by a worker keeps the `readAt` it had when it was read.

A row has a channel, and the channel a provider of src/. SmtpProvider raises the errors of its transporter
(`Raises`), or only logs when there is none (`SmtpConfigured`). The others are `Silent`: PushProvider returns
with no active token, takes in every rejection (push.provider.ts:128, 149) and raises only when the query for
the tokens is rejected (`ProcessFails`); WebSocketProvider emits to a room that may be empty; SmsProvider
logs. So `Sends` either delivers, or fails with an error, or `Drops`: it returns, and the processor saves SENT
of what nobody got. `delivered` and `dropped` are history. An e-mail is delivered when the mail server took it.

### Offer and Interview

One application with its offers and interviews. `Offer` models OfferService and the requests of others
that save the application as a whole; `Interview` extends it with InterviewService, so that both compete
for one row. Every offer keeps who made it and which offer it answers; `job` is what
checkAndCloseJob counts.

### Server and the services

`Server` is what the remaining modules share: requests, each with what it was asked (`arg`) and what
it has read (`mem`), the step it waits for, and rejected queries (`Fault`). One action is one write, or
a run of queries that follow each other and only read: for these services, splitting such a run
adds nothing a single request at a single moment could not have read, except where a module says so.

| module | state | actions |
|---|---|---|
| `Pipeline` | `pipelines`, `stages`, `transitions`, `jobPipeline` | create, update, delete (four queries), assign and remove a job, stages and transitions, reordering stage by stage, the two transactions |
| `Posting` | `job`, `saved`, `favored`, `interactions`, `announced`; `cleared` is history | JobService, the back office, JobStatusService, SavedJobService: rows are read into `mem` and saved whole. updateJob takes any `Changes` of status and date of posting, null included: nothing checks its body |
| `Membership` | `founded`, `roles`, `members`, `invitations` | creation with its roles and its undoing, migration, members, invitations |
| `Report` | `adminList`, `turnIndex`, `reports`, `onDuty` | createReport with the cache, updateReport, refreshAdminCache; the Redis client's errors are swallowed (`RedisFails`) |
| `Profile` | `profile`, `locked`, `experiences`, `employers`, `embedded` | the two transactions with the lock of the row, then the embedding. Rows of a list remember whether their update waited for the lock |
| `Alerts` | `preferences`, `tokens`, `queued`; `chosen`, `updates` and `registered` are history | updatePreferences, the three creators of defaults, the job alert of a replica with its choice of channels, registerPushToken, a push that is rejected |
| `Analytics` | `applications`, and the last `report` with the table it ended with | the reads of getHiringEffectiveness and of getRecruiterDashboard, each at its own moment, their figures and lists; applications, statuses, assignments, contacts and reminders that come between |
| `Documents` | `files`, `cloud`, `cvs`; `written` is history | FileManagementService and CVService; Cloudinary is external and may fail. updateFile takes any file and any body: an answer of Cloudinary, true or not (`Answers`), or columns as the client names them (`Columns`). `written` are the files with a row that is not what Cloudinary answered |
| `Chat` | `session`, `messages`, `attached`, `remembered`, `told` | processMessageStream query by query, agents that answer or fail, the client's retry, and the operations on the session |
| `MockInterview` | `interview`, `responses`, `feedback`, `asked` | creation, calls, the analysis by analyzeCall or retell, insights. `latest` is history |
| `Workflow` | the recursion of topologicalSort as a `stack`, then the tasks' `status` | VisitNext, VisitDependency, EndVisit; skip, complete, fail |

### Files

| module | role |
|---|---|
| Account, TopUp | abstract specifications |
| Wallet ← BillableUse, Payment | components; the arrow is EXTENDS |
| Refund, Application, Notifications, Workflow | components |
| Offer ← Interview | components that share an application |
| Server ← Pipeline, Posting, Membership, Report, Profile, Alerts, Analytics, Documents, Chat, MockInterview | the services |
| MCWallet, MCBillableUse, MCPayment, MCRefund, MCApplication, MCHiring, MCNotifications | instances for TLC |
| MCServices | one instance of Workflow and of all that extend Server: a behaviour is of one of them, the `focus` |
| WalletProofs, RefundProofs, ApplicationProofs | theorems about the component |
| WalletUseProofs | theorems about BillableUse and Payment, on top of those of WalletProofs |
| HiringProofs | theorems about Offer and Interview |
| TaskProofs | theorems about Notifications and Workflow |
| ServicesProofs | lemmas about the requests of Server, and theorems about Pipeline, Posting, Membership, Report and Analytics |
| PeopleProofs | with the same lemmas, theorems about MockInterview, Documents, Alerts, Profile and Chat |

Definitions named `X_Something` next to a definition `X` are what `X` would be with a plausible
mistake. They are in no specification; putting one in the place of `X` must break a property.

## Runs

| run | what it asks | instance |
|---|---|---|
| `wallet_concurrent` | Does any interleaving overdraw a wallet, mint money, or leave a balance that rows, stale saves and unfinished calls do not explain? No. | 1 user, 4 calls, 1 fault, amounts -1, 1 and 2, symmetric calls |
| `wallet_serial` | When calls wait for each other, is the wallet an atomic account with a complete audit trail? Yes. | 2 users, 3 calls |
| `billable_use` | Who is charged for what, with overlapping requests and edits of the price? | 2 requests, 1 top-up, 2 administrators |
| `payment` | Is only what was paid, or told to MoMo's webhook, completed and credited, and what was paid once, in the end? Yes while answers arrive; the liveness as long as nothing fails. | a MoMo, a ZaloPay or a Stripe payment, 1 creator, 2 notifications, 1 webhook call by a stranger, 1 poller, 2 faults |
| `payment_stripe` | Is a paid Stripe top-up credited? **No**, its webhook knows refund events only. | 1 payment, no stranger |
| `payment_twice` | Is a payment credited once even if an answer is lost? **No**. | 1 payment, 2 notifications, no stranger |
| `refund` | Is only what the gateway paid back recorded? Yes. And one refund per payment, and a complete trail, while nothing overlaps. | 1 payment of 10, refunds of 1 or 10, 2 creators, 1 retry, 1 spender, 1 fault |
| `application` | Do status and history agree, does the job close only when full? Yes. And the list of applicants, the full job and stages, while nothing overlaps. | 2 candidates, 3 requests, 3 stages, 1 or 2 places, 1 fault |
| `hiring` | Do offers form a chain and counters fit the interviews in any order? Yes. Do status, history and current offer agree with the offers, and does an accepted offer stay accepted? While nothing overlaps. | 1 candidate, 1 recruiter, 4 requests, no limit or one place, 1 fault |
| `interview_early` | Is INTERVIEW_COMPLETED set when all interviews are completed? **Not**: one is still to come. | 2 interviews, no fault |
| `services` | One question per service, below. | one service per behaviour, 4 requests, 1 fault; every workflow of 3 tasks |
| `notifications` | Does the row tell what the provider answered, is what is sent at once delivered at most once, does what is scheduled get to its provider despite crashes? Yes; only of e-mail does SENT mean delivered. | 1 notification by e-mail or push, 2 jobs, 2 workers, 1 cron job, 1 reader, 2 failures or crashes, 2 attempts |

The properties of `services`:

| property | what it says | holds |
|---|---|---|
| `PipelineInTurn` | pipelines have different names and transitions join stages of their pipeline, unless a stage got a new key or all stages were replaced | in turn |
| `ActiveIsPosted` | an active job has a date of posting, unless an updateJob took the date | whatever overlaps |
| `PostingInTurn` | savers in the row are those of `saved_jobs`; a job is announced once, and once more for every update that took its date | in turn |
| `AcceptedIsMember` | an accepted invitation has made a member | always |
| `MembershipSound` | an organisation has its founder or is gone; nobody is a member twice or by a declined invitation | first part with any failure, second in turn |
| `RoundRobinInTurn` | reports go to the reviewers in turn | in turn |
| `WorkflowSound` | tasks are sorted after what they depend on; a task is left out if and only if what it needs includes a task that failed, is missing or is in a cycle | always |
| `ProfileSound` | updates that waited for the row leave one list, and the percentage is that of the fields; the last list is embedded last | first parts always, last in turn |
| `AlertsSound` | what was chosen stands, whoever creates defaults; alerts are wanted; one active token per device, and the last one registered | first part always of a single update, everything in turn |
| `ReportsSound` | hires by source and by month add up to those of the overview, and the median is one; every hire counts for a source, two periods miss no application, numbers on a dashboard are those of its lists | first part always, the others without overlap |
| `DocumentsSound` | of files no client wrote as it liked: one that is shown has its object; deletion of files, CVs and objects agree | first part whatever overlaps or fails, the others in turn |
| `ChatSound` | transcript and memory agree, retries are limited; a question is answered once; answers follow their question; a session stays shared | first part always, second with no failing query, the others in turn |
| `InterviewSound` | an analysed call has a completed session; one analysis per call | first part always, second in turn |

**In turn.** Properties whose name ends in `InTurn`, and the parts marked so above, hold of this code
only under a stated condition, because the unconditional property does not. The MC modules keep a
history variable (`overlapped`, in their `MCSpec`) that records whether two requests have ever been in
progress at once. `Undisturbed` says that they never were and that no query failed; `StagesInTurn` of
applications needs only the first. `SomebodyPays`, `PaidIsCreditedUndisturbed` and `DeliveredOnce` name
their own condition. Such a property says what callers who wait for each other may rely on over long
sequences of operations; the section on disagreements says what overlapping adds. Type invariants are
not checked by runs where TLAPS proves them.

### Bounds

Requests and calls are one-shot, so an instance ends: `CHECK_DEADLOCK FALSE`. The hazards here are
races of two or three parties over one row. Two parties show a lost update; the third shows what
a later, sequential call makes of the result. Wallet has four calls since a lost update, an overdraft
and a credit in between need three. One fault shows every partial failure; notifications have two, so
that a crash may hit the recovery from another. Balances go to 3 cents (a limit for overflow, two
amounts that fit, one that does not). In `payment` one top-up is made, by any of the three providers: two
top-ups of one wallet meet in the wallet runs, where calls are anybody's. The stranger calls once, at any
moment after the row exists and with either outcome, since a second call adds a second stranger to those
that the properties excuse. `Attempts` is 2 where the code has 3, and `MaxRetries` of a
conversation 1 where it has 3: first, last. One notification is enough for properties of single rows,
but leaves the "rest of the batch" of the cron job empty; the queue holds two jobs, the delayed one and
one that cron adds. The run has the channels e-mail, with SMTP configured, and push: what the other
providers do, and SMTP without a configuration, push does too.

The instances with four requests bound a sum. In MCHiring the requests made, plus one for a failed
query, one for an overlap and one for a job with a limit, are at most four. In MCServices the requests
made, plus one for a failed query and `Price` for an overlap, are at most `Most`:

| focus | Most | Price | so there are |
|---|---|---|---|
| memberships, alerts | 4 | 2 | sequences of four; overlaps of two, without a failure |
| documents | 3 | 0 | sequences of three; overlaps of three, or of two with a failure; a body of updateFile that is no answer of Cloudinary names one column, but several requests may write several |
| pipelines, postings, reports, profile, conversations, mock interviews | 3 | 1 | sequences of three; overlaps of two |
| analytics | 2 | 0 | a report and one other request, or two reports, that overlap |
| figures | 1 | – | one report, of a larger table |

Reports of `figures` have tables of two applications, with every order of their days in 0..2 and one or
two sources, of three hires (the median of an even and an odd number), or of one in any status, contacted
on any day or never. Those of `analytics` have none or one application, which others may change or add to.
`Silence` is 1 day, so that contacts are before it, at it and after it.

Requests, names and administrators are symmetric: no property and no action names one. In MCServices
one request of the four, `r4`, is made only after the other three; which one is the last makes no
difference, so the symmetry is of those three. Two
stages are enough for a transition that dangles; two administrators for a turn. A profile has none or
all of the fields that its percentage counts, in `Counts`. Three tasks with up to two dependencies each,
one of which may not exist, give every cycle, diamond and chain of three.

### Fairness

Safety needs none. `FairPSpec`: weak fairness on every step of a handler and of a wallet call (the event
loop resumes what was awaited), and on delivery of a notification until it is answered with success (what
gateways do, and what the comments in PaymentService count on). Users never have to pay, poll or return, and
strangers never have to call. `FairNSpec`: request handlers, workers and cron run on, and time passes.
Nobody has to create or read a notification, a provider may always fail or drop, and crashes and failures
may occur but are finite in number (`MaxFaults`). The other services have no liveness of their own: a
request that waits for no one ends when its queries do.

## Proofs

All for any number of users, calls, payments, requests and candidates, and any amounts, under the
ASSUMEs of the modules (TLC evaluates these in the runs).

**WalletProofs.** `IInv` = types, `BalanceInRange`, `NothingMinted`, and `CallOK`: a call about to save has
passed its checks *on the balance it read*, and that balance lies in the range of the column and is at most
`given`. The last part is the point: a stale balance was once a real one, so writing it back minus an amount
is in range, and `given` only grows. Hence `NoOverdraft` and `NoMinting` although updates get lost.
`NoStaleSave` proves `SerialInv` (one call in flight, its reading current), from which
`SerialImplementsAccount` maps every step to a step of Account or a stutter. `LedgerInv` adds what a call
has written by the stage it has reached, that rows belong to calls that are over, and that finitely many
calls have saved (there may be infinitely many callers). Then each step changes one term of the ledger's
equation and the balance, `lost` or another term by as much: `LedgerExplained`, for any number of rows, and
`UsageDebited`. With no failure nothing stays unposted, and in turn nothing is lost: `AuditTrailExact`.

**WalletUseProofs** is about the two components that call the wallet. Each part cites the assumptions
of its own component only, and an instance of one extends to an instance of both: a BillableUse to a
Payment all of whose calls are of `Creators`, a Payment to a BillableUse all of whose calls are of `TopUps`.

*Pay-as-you-go.* `WorkInv` strengthens "only work is charged" with: past the handler, the request
has worked. `BillableUsesWallet` shows that every step is a step of Wallet or leaves it alone, so the
theorems on the wallet carry over (`BillableNoOverdraft`). `CallsFit` says how far the two wallet calls of
a request are by its stage. `BurstInv`: until a deduction is saved no balance goes down, so whoever passed
the guard can still pay (`WillPay`) and the top-up has read the balance it will replace; if nobody paid,
everybody who got work would be charged, hence `BurstPays`. `TurnInv`: one request, administrator or
top-up is at work at a time, which gives `PaidInTurn` and `FieldsKeptInTurn` about the instance with its
history variable, for any constants. The three assume that no query is rejected (`MaxFaults = 0`),
because a rejected deduction is work for free, and `BurstPays` that there is one top-up at most.

*Top-ups.* `PayInv` = types; `OneCreator` (a payment has one creator, which opens its charge
once, so a charge never goes back to open); `KnowsPaid` (what a notification or a poller has learnt of a paid
charge stays true, and a stranger speaks of MoMo's payments only); `CallsKnow` (only webhooks credit). Gives
`OnlyPaidIsCredited` and `OnlyPaidIsCompleted`, for any providers, Stripe included, and any number of
strangers. `OnceInv`: without needless repetition the notification of a payment is alone, and once it has
saved the credit the payment is answered for good. This gives
`NoDoubleCredit` and the refinement `TopUpsKeepPromise`. `PaymentUsesWallet` as above.

**RefundProofs.** `RefundInv`: who is past the call to the gateway was paid back its amount (`PassedOK`),
which is part of what the gateway paid back of the payment, never more than was paid (`GatewayOK`); a row
is inserted once, and its payment and amount stay whoever saves it (`InsertedOK`). So a payment marked
REFUNDED, whose refund was of all of it, was paid back completely: `OnlyPaidBackIsRefunded`, whatever the
comparison of amounts as strings lets through.
`TurnInv` is of requests in turn, without failing queries: what createRefund found (nobody else was paid
back of the payment) stays true until the gateway is called (`Claims`); whom the gateway paid back has the
row by which the next createRefund finds it (`PaidHasRow`); the balance that was read is the balance until
it is saved, and the rows explain it but for an amount saved and not yet posted (`Trail`). This gives
`RefundsFollowInTurn`. What only the rows need, `RowsOK` (each row has another author), holds whatever
overlaps and fails.

**ApplicationProofs.** `RowsInv`: rows, and the copies held by handlers, have agreeing status and
history. The copies are why `HistoryEndsInStatus` alone is not inductive: any of them may be saved.
`ClosingInv`: every hired candidate, in the table or in a copy, was chosen by a request that is over or
about to look at the job, and a job or copy of it is closed only if it may be. Candidates are chosen by
different requests, so there are no more hired than such requests (`HiredFew`): `ClosesWhenFull`, however
requests overlap. `TurnInv`: of requests in turn, one works, and on what the tables hold; with it,
`ListInv` (who is not listed yet will be next) and `FullInv` (a full job is closed or about to be) give
`JobsAreSound`, and `StagesFollowInTurn` whatever queries fail.

**HiringProofs.** `ChainInv`: a chain in the table is not inductive, since requests write back offers they
read before. So it is stated of all `Copies`, the rows of the table and those in the memory of requests:
copies of one offer agree on what is never changed, and every copy follows the copies of the offer it
names. A new offer names the latest one, which exists because only finitely many were made
(`GreatestMember`). This gives `ChainsAreSound`. `CountersInv`: interviews are at most `total` and the
requests that have yet to count theirs, and likewise those completed; `CountersAreComplete` is that
invariant when nobody has. `TurnInv` is about requests in turn: offers, status, history and the name of the
current offer follow each other one query at a time, so it says what the request at work has yet to write
(`SettledBut`), and that what it has read is so (`UpToDate`). Every offer but the last is named by one that
followed it (`Followed`), and the last by the application, so deleteOffer, meant for accepted offers, is
refused by a foreign key. Hence `AcceptedStay`, and `OffersFollowInTurn` as long as nobody asks
updateApplicationStatus for OFFER_ACCEPTED, which needs no offer. Both are about the instance with its
history variable (`HiringTurns`), which keeps none of its bounds.

**ServicesProofs** and **PeopleProofs.** The first says once what `Ask`, `Goto`, `End` and the other steps
of a request do to the requests, so that the proofs about a service look only at the request that moves
(`Moves`). For properties in turn it adds that the request that moves is then the only one at work
(`MovesAlone`). The specifications of these proofs, `PostingTurns` and the like in MCServices, keep the
history variable of the instance but none of its bounds. Mock interviews, documents, alerts, profiles and
conversations are in the second.

- *Posting.* `RowsInv`: the job's row, and every row a request has read, is dated if it is active
  (`Dated`), until an update takes the date. Most operations save rows that may be stale, so what a request
  holds belongs to the invariant.
  This gives `JobsStayDated`. In turn, `JobTurnInv` says what the tables and the request at work make of
  the job together: `saved_jobs` and the row agree but for the savers it is about to save, and what was
  announced has a date, so nothing announces it again until an update takes it (`PostingTurnsSound`).
- *Membership.* `MemberInv`: a membership, in the table or about to be saved, never changes its
  user; an invitation is inserted by the last step of its request; the invitation that an accepting
  request has read belongs to the user it makes a member, and to a member once the row is saved. Changes of
  role and status save memberships read earlier, hence the first part. This gives `OnlyMembersAccepted`.
  `FounderInv` follows a creation step by step: it is undone only after a failure, and until it ends
  nobody else is a member. `SingleInv`: a membership and the invitation it comes from are one
  step of one request apart. Both give `MembershipsAreSound`, for at most one failing query: when
  the undoing of a failed creation fails too, an organisation without a member is left.
- *Report.* `ReportTurnInv`: each turn was that of the admin after the one before in its own list, and
  the index in Redis is that of the last turn or of the turn the request at work is taking. A
  refreshed list starts at an index that may be too large for it, which is why turns are compared by
  index (`AdminsTakeTurns`).
- *Mock interviews.* `InterviewInv`: an analysed call has a completed session because the session
  is saved before the call, and no later save takes the status back; `AnalysesComplete` says so of any
  overlap. `InterviewTurnInv` adds that whoever gave feedback marks the call before another
  begins, hence `InterviewsAreSound`.
- *Documents.* `DocInv`: a row that names an object has one unless it is deleted or `written` (`Safe`), and
  so has what a request is about to write; an object is destroyed only after its row is marked.
  `DocTurnInv` adds what a deletion has yet to do (`DocumentsAreSound`).
- *Alerts.* `UpdatesCounted`: an update that is the only one stands as soon as it is saved, since those
  who insert defaults cannot replace a row. `AlertWaits`: in turn, what a request has read is so, and the
  device it registers is free (`AlertsAreSound`).
- *Pipeline.* `PipeInv`: what the request at work has found out is still so, of names (`NameAt`) and of
  stages and transitions (`LinkAt`): while it deletes a pipeline, only the transitions of that one have lost
  their stages (`PipelinesInTurn`).
- *Profile.* `ProfileInv`: an update that waited for the row holds its lock until it commits, so the
  rows of every other that waited are among those it deletes (`DeletesWaited`), and every profile that is
  written was completed from its own fields (`RowAgrees`). `ProfileTurnInv` adds that what the request at
  work has read is so and that its embedding is the last (`ProfilesAreSound`).
- *Conversations.* `ChatInv`: each stream asks one question for one time (`QuestionOf`, `AttemptOf`; when
  it is over, its client has been told both), no two ask one for the same time, and who asked before was
  told to retry and did (`AttemptsOK`). A stream stores one message of each kind, so a question is stored
  at most `MaxRetries + 1` times; and while no query failed, whoever stored an answer is never told to
  retry (`AnsweredIsOver`), so it has one. In turn, the last message is that of the stream at work
  (`LastIsMine`), and what is about to be merged into the metadata keeps the session shared
  (`MergeKeeps`, `SharedStays`). This gives `ChatsAreSound`.
- *Reports on hiring.* The rows of a finite table are as many as those of all classes it is divided into
  (`ClassesAddUp`), and its days have an order, by which the median has as many below as above
  (`SortedExists`, `MedianIsMiddle`). So whatever tables the queries of a report read, each at its own
  moment, its figures add up (`MetricsAddUp`). `FigInv` adds that in turn all that was read is of the
  table as it stands (`FigWaits`, `ReportOfTable`); then every hire counts for a source (`HiresOfTable`),
  two periods miss no application (`PeriodsOfTable`) and a dashboard's numbers are those of its lists
  (`DashboardAgrees`). This gives `ReportsAreSound`, for tables of any number of applications.

**TaskProofs.** *Notifications.* `NInv` = types; `SaversReached` and `SentReached` (of what is SENT, or about to
be, the provider has returned); `Unset` (a channel is chosen once) and `DroppedSilent` (only providers that
raise no errors drop); `CronScheduled` (a cron job holds only rows that were scheduled); `Created` (a request
past its first step has inserted its row); and, while nothing failed, `OneJob`: a row that is sent at once has
one job, whose stage tells how far the row is. The last part is why it is sent once although workers try
again and cron jobs look for rows: no cron job ever finds it, and it is tried again only if its provider
raised. This gives `SentIsTrue`, `ImmediateOnce` and `OutcomeIsRecorded`, for any number of notifications,
channels, workers, attempts and failures, with SMTP configured or not.

*Workflow.* `WorkflowInv`, for any list of tasks and any dependencies: the stack holds what is being
visited, each needed by those below it (`StackOK`); a sorted task comes after its dependencies unless it is
in a cycle with them (`SortOK`); what the loop has passed ran after all it names, or had no chance
(`RunOK`). What a task needs is the least set closed under dependencies, so reachability needs no
recursion. A task that ran and yet needs something hopeless would contradict that set's being the least.
This gives `LeftOutHopeless`, which is `WorkflowSound`.

**Induction** over data is out of the provers' reach as a rule, but its use here is not: sums and chains
are reasoned about by a minimal counterexample (`WFMin` with the library's orderings). So WalletProofs and
RefundProofs have what the sum of a finite set of rows becomes when a row is added, ServicesProofs that
numbers by class add up, and HiringProofs that a finite set has a member of greatest rank.

**Assumptions.** A missing row is not a row (`NoRefund`, `NoOffer`, `NoJob`, `NoInterview`, `NoPreferences`,
`NoSession`), a top-up is not a call of a request, a list of tasks names each once (the engine makes their
ids), there are finitely many administrators, a table of applications is finite at the start and none of
them changed before it was made, amounts are in the sets the modules say. None restricts how users,
gateways, callers of webhooks or failures behave in the operations that are modelled; what bodies of
requests may hold beyond the models is under "Not modelled". Where a theorem needs fewer failures or top-ups
than any number, or that nobody enters a status by hand, its statement says so.

**Only model-checked:** liveness, `PaidIsCreditedUndisturbed` and `ScheduledIsSettled`, since the prover
knows neither ENABLED nor fairness. Every other property of a run that passes is a theorem for all
constants, or for all that its statement admits.

## Disagreements between code and documentation

With a run:

- `payment_stripe`: a paid Stripe top-up is not credited (docs/subscription.md:3128, "Payment creates
  one wallet transaction").
- `payment_twice`: a repeated notification credits again (payment.service.ts:536, "Credit wallet (only
  if not already credited)").
- `interview_early`: interview.service.ts:233 adds 1 to a counter that :206 has already incremented
  (docs/recruiters/application.status.md:33, "Complete All Interviews").

Met while modelling; the models contain these steps, no run is about them alone.

**Wallet and payments**

- docs/subscription.md:3191 has the wallet transactions record all balance changes: after a lost update
  they do not (`AuditTrail` holds of callers that wait for each other).
- WalletDeductionInterceptor logs a deduction that fails after the work was done; docs/subscription.md
  (UC-W2, 686) has every created job deducted. `WorkIsPaid` fails for overlapping requests.
- BillableActionService.update says "Update only provided fields" (:120) but saves the row it read.
- processWebhookEvent swallows an error of creditWallet; its comment (payment.service.ts:735) says that
  the provider will retry. The row says COMPLETED, the wallet has nothing.
- docs/subscription.md:1584 verifies the signature of every webhook, and momo.controller.ts:33 documents a 400,
  "Invalid webhook signature": MoMo's verification compares the signature of the payload with itself
  (momo.provider.ts:418, "This is a placeholder"), so an order that was not paid can be credited
  (`DeliverUnverified`).
- confirmPayment compares with COMPLETED after assigning it (:237), so its credit is unreachable.
- A status query that fails reads FAILED (momo.provider.ts:407) and is saved over COMPLETED, although
  payment.service.ts:395 says "Return stored status if query fails".
- Two administrators at once refund one payment twice, against "Refund already exists for this payment"
  (refund-backoffice.service.ts:141). Refunds do not look at the balance (:225), which may become
  negative, and refundPayment compares amounts of the driver as strings (payment.service.ts:318).
- adjustBalance (wallet-backoffice.service.ts:106) adds a number to the string that the driver returns
  for a decimal column: the digits are appended, and the column rounds them away, up to a cent.

**Applications, offers and interviews**

- The score handler writes back the status it read before the AI call
  (application-matching-score-requested.handler.ts:198); its comment (:179) expects otherwise.
- createApplication saves the job row it read at its start, which reopens a job that was filled
  meanwhile (docs/recruiters/job-posting.status.md:24).
- docs/recruiters/application.status.md:78 draws HIRED as final; any status may follow it.
- Hiring by stage or by update never recounts the job.
- A counter offer rejects the old offer before the new one exists, and the owner of an offer may counter
  it himself, although the comment speaks of the opposite party. recordCandidateResponse may answer a
  pending offer that is not the latest.
- deleteOffer takes only ACCEPTED offers, which the application's foreign key protects unless an
  earlier failure kept it from being named.
- rescheduleInterview reopens what is COMPLETED or CANCELLED; docs/recruiters/system-design/interview.status.md
  calls both terminal. cancelInterview writes SCREENING without an entry in the history. Late feedback
  overwrites the statuses of offers.

**Jobs, pipelines and organisations**

- JobStateMachine's transitionTo never sets `job.status`, and no controller calls the methods of JobService
  that use it. updateJob copies its unchecked body onto the row: a `postedDate` of null on an ACTIVE job is
  saved, and the next activation announces the job again (`Clears`). updateJob and the back office activate
  a job without a JobPublishedEvent; where the event is published, it is before the save.
- The foreign keys of `saved_jobs`, `favorite_jobs` and `applications` refuse deleteJob. The second save of
  createJob is unreachable.
- reorderStages saves stage by stage under a unique index, so it cannot exchange two stages, whatever
  the controller answers (hiring-pipeline.recruiter.controller.ts:262).
- removeJobFromPipeline changes nothing. A stage with a new key, or stages replaced without transitions,
  leave transitions that lead nowhere. deleteStage looks at the transitions of every pipeline.
- An owner may remove or demote himself; members who left can never join again; somebody with two
  memberships keeps one when removed. The migration takes a role whose permissions were never saved for
  complete.

**Reports, agents, profiles and files**

- "You have already reported this entity" is answered for a pending report of anybody, and only for a
  pending one. When Redis fails, turns start again at the first administrator.
- A skipped task, and a result that is a failure without errors, leave a workflow `success`.
- deleteSession is refused by a foreign key once the session has a message. shareSession and updateSession
  lose each other's metadata. An error after the stored answer asks for a retry, which asks and answers again.
  docs/ai-agent-building/architecture.md:228 counts timeouts and failures of models as errors to retry;
  needsRetry knows SYSTEM_ERROR only. The memory of the agents is written before the message.
- docs/candidates/mock-interview-with-ai.md:293 saves InterviewScore entities; analytics.service.ts:20 puts
  scores into `mock_interview_responses` as blank rows, and `mock_interview_scores` stays empty.
  Overlapping analyses write their feedback twice. A later call registration may clear `isEnded`;
  updateResponse completes a session that nobody analysed; a later analysis drops the insights.
- The objects of documents, CVs among them, are never destroyed: the provider rejects the resource type
  and the error is swallowed. The public id of a signed upload lacks its folder. updateFile completes the
  upload of a deleted file, takes any public_id without looking whether there is such an object
  (file-management.service.ts:348), and otherwise writes the columns the client names (:363), so a file may be
  `ready` without an object. A deleted file may become a CV, and two CVs may share a file.
- Updates of the lists of a profile alone lock nothing, so two that overlap keep both lists. The
  percentage of completion ends at 67, and the status never decreases. A failing queue answers an
  update that is committed with an error. Overlapping updates make one organisation twice.

**Notifications and hiring reports**

- selectChannels (notification-orchstrator.service.ts:209) looks for the type of a notification among the
  keys `email`, `push`, `sms` and `inApp`, so preferences never restrict its channels
  (docs/NOTIFICATION_USE_CASES.md:226, "The system respects these preferences when sending notifications").
- A notification that its provider dropped is SENT like one that was delivered: push without an active token
  or with a rejection (push.provider.ts:128, 149), SMS always, and e-mail when SMTP is not configured
  (smtp.provider.ts:18). docs/NOTIFICATION_USE_CASES.md:206 has the status updated to "SENT, FAILED, etc.".
- The defaults depend on who creates the row: those of the orchestrator name no types, against "Default: job
  alerts enabled" (notification.service.ts:87). Both replicas run the cron job of alerts, so alerts go out
  twice. Registering a known token saves it active as read, racing the provider that deactivates it.
- The previous period of recruiter-dashboard.service.ts:879 and backoffice-stats.service.ts:171 is a single
  instant, so next to nothing is counted in it. The comparison of hiring reports counts the day on which
  its periods meet twice (`PeriodsMeet` says exactly what).
- Nobody writes `reviewedBy`, `nextInterviewDate` or `awaitingCandidateResponse`: applicationsReviewed is
  always 0, and whoever is shortlisted is to be scheduled although an interview is.
- Follow-ups leave out closed applications, candidatesToContact counts them (`ListsMatchNumbers`).
- unflagApplication passes `flagReason: undefined`, which an update leaves out: the reason stays. Of two
  overlapping logCommunication, or additions of tags, one entry is lost.

## Plan

Done: wallet, pay-as-you-go actions, top-ups, refunds, applications, notifications, offers, interviews,
pipelines, postings and saved jobs, memberships, reports, workflow, profiles, preferences with job alerts
and push tokens, hiring reports and the dashboard, documents, conversations and mock interviews. What is
left, in order:

1. `adjustBalance` as an operation of `Wallet`, with decimals that the driver returns as strings.
2. Role permissions: their edit, and the seeding that the migration counts on.
3. Notes, tags and communications of applications; folders and notes of saved jobs.

Runs stay few: a service that shares no table with others is one more focus of `services`.

## Not modelled

- Left for the plan above: adjustBalance, role permissions, templates of notifications, notes, tags and
  communications beyond the date of the last contact.
- ZaloPay's refund, rejectRefund, processRefund without autoProcess: they always refuse.
  The webhook event payment.refunded: only Stripe sends it and it finds no row.
- scheduleNotification of the orchestrator, processMessage and createChat: nothing calls them.
- Bodies of requests with fields that their DTO type does not name, where nothing strips them: updateJob with
  the savers or counters of the job's row, updateFile with the id or the owner of a file. The models hold what
  the DTO's type allows, and of updateFile the columns that the module has. Nor is a second upload by a signed
  URL that is still valid after its file was completed, nor a public_id that another file's row has, which the
  unique column refuses.
- What models answer: agents, prompts, chains, parsing of CVs, matching and recommendation are external
  or have no state; a call to them is an outcome. The two default interviewers and the questions of an
  interview are content.
- Identity: what makes it correct is who may enter, which is not among the properties of this project.
- Of the hiring report: rates of interviews and offers, stages, quality. Of the dashboard: interviews, the
  overview of the company, performance figures. They are sums over rows that no other state depends on.
- Search, recommendations, back-office statistics and queries: they read. They are the largest
  part of the code by lines, with entities, DTOs and their mapping, templates and seeders; this is why
  the modelled lines are a small share of the repository.
- Industries, users and other single-row create, read, update and delete. The modules learning, blog,
  chat, portfolio, realtime and ai-resume-checker are empty.
- AI service (Python), gateway, Kubernetes files, scripts: no state, or configuration.
  Unit of work and Redis lock: no service uses them.
