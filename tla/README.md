# ASODEF platform: TLA+ models, checks and proofs

Formal models of the parts of the ASODEF platform in which several requests,
workers, browsers and outside parties change the same state: collecting and
refunding money, sending messages, running automations, sharing a conversation
between an assistant and people, signing administrators in, publishing what
others rely on, serving affiliates, the pages that show all this, and starting
and operating the program. Each module is translated from the code; TLC checks
it on small instances, and for most of it TLAPS proves the same
properties for any number of rows and requests.

* [1. The system](#1-the-system)
* [2. The modules and the code](#2-the-modules-and-the-code)
* [3. Runs and bounds](#3-runs-and-bounds)
* [4. Fairness](#4-fairness)
* [5. Proofs](#5-proofs)
* [6. Where code and statement part](#6-where-code-and-statement-part)
* [7. What the models leave out](#7-what-the-models-leave-out)
* [8. Plan](#8-plan)

To check a run: `tlc -workers 2 -config MCPayments.cfg MCPayments`; to check the
proofs of a module: `tlapm BoldPaymentsProofs.tla`. `PROJECT.json` lists every
run, the lines each definition models, the hazards and the variants (`mutants`)
that show each property can fail.

## 1. The system

The API (`src/apps/api`) is one Node.js program, run as several processes, over
one PostgreSQL database. A process is single-threaded, but every `await` of a
query or of a call to Bold, SMTP, an AI model or Master lets other requests run,
and other processes run all the time. So the unit of interleaving is the stretch
between two awaits, and what keeps operations apart is only what the database is
asked to keep apart: row locks (`FOR UPDATE`), advisory locks, conditional
updates and unique indexes. Transactions are READ COMMITTED unless said
otherwise, so a read that takes no lock is stale as soon as it returns.

The web application (`src/apps/web`) is one React program per tab. It is
single-threaded too, but the answers of its requests arrive in any order, twice
over several tabs, or never, while the user goes on; and React draws later than
state is set, so a callback may work on what was last drawn.

The host is operated by shell and Python scripts (`src/ops`, `src/scripts`)
which may be killed between any two changes and run again.

### Components

| Component | State | Operations | Interacts with | Hard behaviour | What makes it correct |
|---|---|---|---|---|---|
| **Payment orders** (central) `payment-orders` | `payment_orders` of an obligation, expiry | create or reuse | Bold payments | two creates for one obligation | one reusable order per obligation |
| **Bold payments** `bold-payments` | order status, `payment_attempts`, receipts | create payment, poll status | Bold over HTTP | provider call inside the transaction and its rollback; answers applied after an await | one attempt; attempt, order and receipt agree; terminal is final; outcome is Bold's |
| **Bold webhooks** `webhooks` | `payment_events` | receive, process detached | payments | duplicates, reordering, lost processing | as above |
| **Refunds** `refunds` | `refunds`, order status | request, attach evidence, approve | Bold, payments | no lock, provider call, rollback of the failure | refunded iff an approved refund backs it; late answers do not undo it |
| **Master payments** `payment-orders/master-*`, `bold-payments/master-*` | `master_payment_orders` of an installment | create, check out, poll | Bold, the legacy Master database | claim before the call, unconditional write after it, quotes that change | asked once, collected once, confirmed money stays confirmed |
| **Master read bridge** `master` | connections, circuit, cached quotes | read with a time-out, quote | Firebird | reads that outlive their time-out | rows come from a verified account only, a read gives its connection back, a half-open circuit lets one probe through, nothing stated that no reading said |
| **Notification outbox** `notifications` | `notification_jobs`, communication status | enqueue, claim, deliver, finish, recover expired claims, synchronise | SMTP, communications | leases, uncertain sends, crashes, one catch block for many failures | delivered once, a communication that tells the truth, everything settles |
| **Domain events, automation** `domain-events`, `automation` | events, executions, steps, retries, dead letters | dispatch, run, retry by timer | communications | redelivery against retry timer, calls that outlive their time-out | one runner, one communication per action, history and dead letters tell the truth, everything settles |
| **Koral conversations** `koral-conversations` | conversation, assignment, messages, processing rows | receive, claim, orchestrate, reply or hand off; assign, move, return | AI gateway, knowledge, web chat | inference takes seconds while people act | a human wins, a reply has seen everything, a message is orchestrated once |
| **Web chat sessions, identity** `koral-conversations/web-chat-*` | session generation, identity bindings | rotate, revoke, expire, claim | conversations, browser | session changes under a running request | a stale session stores nothing, nothing said is lost |
| **AI gateway** `ai-gateway` | daily budget in Redis, circuit | reserve, call with fallback, settle | external models | late settlement, budgets over a day's end | a day exceeds its budget by no more than what calls cost above their estimates, routes in order |
| **Knowledge** `knowledge` | versions of an article, sources | draft, review, publish, retire, search, cut, rank | AI gateway | search in two steps while an article is withdrawn | one version in force; answers rest on what their reader may see |
| **Legal documents, consent** `legal-documents`, `consent` | versions, consents | draft, approve, publish, archive, record, withdraw | public pages | publish and archive between read and write | one version in force, consents to a text that was in force |
| **Plans, contracts** `plans`, `contracts` | versions, signers, acceptances | draft, submit, publish, retire; upload, accept, activate | each other | retried requests; two signers at once | versions never return; a contract binds what was agreed |
| **Sessions, login, recovery, MFA** `auth` | sessions, reset tokens, factors, lockout | log in, rotate, revoke, recover, enrol, step up | every admin route | rotation against revocation, a rehash against a reset, one code twice | a session rests on the password last set or the one the hash verifies, one live credential, a code once |
| **Administrators, roles** `admin-users`, `governance` | accounts, roles, versions | create, edit, suspend, assign | auth | policy read before the transaction | the one official privileged account survives every operation |
| **Self-service portal** `self-service` | challenges, sessions, mutations, contact updates | ask, verify, mutate, confirm | Master, messages | resend against verification, time-outs | a code once, a mutation once, the contact that was asked for |
| **Back office** `data-subject-requests`, `pqr-cases`, `reconciliation`, `crm` | cases, runs, differences, opportunities | move, resolve, stage | — | reads without a lock | status, history and run agree |
| **Leads** `leads` | leads, consents | submit, resend | public pages | a resend after a lost answer, two at once | one message per key, stored with the consent it needs |
| **Administration pages** `apps/web` | query cache, forms, step-up challenge, tabs | read, submit, challenge, refresh, sign out | the API | late answers, tabs that share cookies | no replay of own tokens, no page contradicts what it reported but for the two of section 6, no open page waits for ever |
| **Payment pages, public forms** `apps/web` | query cache, drafts in the tab | look up, pay, wait, file | the API | late answers, leaving and returning | a page never says more than the order does, a draft never leaks into another |
| **Start, gates, system page** `config`, `approval-gates`, `admin-system` | environment, gates, probes | validate, start, probe | every adapter | settings that must agree, probes that end one by one | no live adapter without its settings and gates; what is shown was seen |
| **Operations** `ops`, `scripts` | environment files, releases, mail platform | provision, publish, deploy, roll back, renew | the host | kill between two steps | what runs was published; files, certificates and rules can be put back |

Not modelled: payments lookup (read-only behind a captcha), the Koral control
plane (read-only overview), the shared packages (types and stateless
components), tests and documents. Left out of components modelled in part:
templates and suppression lists, import jobs, directories and exports, the
sign-in pages, backups and network scripts. `PROJECT.json` gives each with its
reason.

How they meet: automation actions end in communications, communications put jobs
into the outbox, the outbox writes the outcome back to the communication; a
refund needs the attempt a payment created and turns the status that polls and
webhooks also move; a conversation is moved by the visitor's requests, by Koral
on the visitor's behalf, and by operators, and its answers rest on articles that
the catalogue publishes; a contract pins a version of a plan; every
administration page runs over the session that `auth` rotates; and which adapter
stands behind all this was chosen when the process started.

## 2. The modules and the code

Every module keeps the control of the code (guards, early returns, order of the
writes, what a failure undoes) and abstracts the data. Names are those of the
code. A step of a model is one query, one transaction that is atomic by its
locks, one answer of an outside party, one act of a user, or one change a script
makes to the host. Comments above each definition say which code it stands for.

PostgreSQL appears in every module by what the code relies on: `SELECT … FOR
UPDATE` holds a row until its transaction ends; an UPDATE of many rows sees only
the rows that existed when it began, waits for those held by another and looks
at their condition again; a unique index refuses the second of two inserts; a
SERIALIZABLE transaction fails if what it read is stale.

### Money

**BoldPayments** — `payment-orders.service.ts` (`create`),
`bold-payments.service.ts`, `bold-webhook.service.ts`,
`payment-receipts.service.ts`. Variables are the rows of the orders (`status`,
`owner`, `expired`), their `attempts`, `receipts` and webhook `event`s, the
requests in flight (`req`) and what Bold itself decided (`bold`). Create order is
a read and an insert under the obligation's lock; create payment is begin, Bold's
answer and commit under the order's lock, or rollback, which forgets the attempt
but not Bold; a poll reads, awaits and then commits under the lock on the row as
it is by then. A notice is stored once and processed by a detached
transaction which may be lost. Bold decides once (`BoldSettles`).

**Refunds** extends BoldPayments: request, evidence and approval, each a reading
step and a writing step without a lock, beside everything the payment module does
(`RefundNext` contains `Next`). `taken` counts what Bold did.

**MasterPayments** — orders of one installment. Create quotes Master, locks,
looks for the active order (replacing it when unstarted and expired or changed),
and inserts under a partial unique index. Checkout re-reads the quote, claims the
call by a conditional update, calls, and records the answer by id; the status
request does the same without a claim. Requests die anywhere (`Abandon`); a call
that failed here may still reach Bold (`BoldTakesLate`).

**MasterReads, MasterQuotes** — the read-only bridge to Firebird. A read has two
lives: the caller's, which a timer may end, and the client's, which goes on,
rolls back and gives its connection back later; beside them the circuit breaker.
MasterQuotes is what the portal says of the installments, put together from
several reads while payments made at the office change them.

**PaymentPages** — the pages a visitor pays from: the search, the summary, the
page that hands over to Bold as soon as it is opened, the result and the receipt,
over the query cache of the browser. One query at a time is followed, as no two
of them meet on one page.

### Messages and automation

**NotificationOutbox** — `job` rows, the delivery of each claim (`task[j][n]`),
the poll of each worker (`drain`), the communication (`com`) and how often SMTP
accepted a message (`accepted`). Recovery of expired claims, claiming, sending,
the two parts of the outcome (`FinishingSteps`), the catch block, and the
two-statement synchronisation are steps of their own; the queries in
`FailingQueries` may fail and a process may die (`MayCrash`).

**AutomationEngine** — dispatchers (deliveries of events) and retry workers are
*runners* that go through executions: claim, load, step by step, finish. An
action is a call that outlives the runner's time-out (`calls`), and its
`communications.send` is the check and the insert under the unique key. What a
runner read of the steps when it loaded the execution (`seen`) is kept, because
the loop decides by it and not by the rows.

### Conversations

**KoralConversations** — one conversation. The visitor's request runs
`RECEIVING → ROUTING → CLAIMING → READING → INFERRING → COMMITTING` and what
follows; operators read the conversation and issue a command against the version
they saw. `fresh` stands for the version numbers (a reader is in it while its
copy is current) and `current` for the session generation, so no counter needs a
bound. Each request's `overtaken` is history that only properties read.

**GovernedAnswers** — one orchestration inside: what is retrieved, what the
policies let the model see and say, what is committed, while the deadline passes,
an article is withdrawn or a person takes over. **AiGateway** — the routes of a
model profile in order, the daily budget in Redis, the circuit breaker.
**KnowledgeIntake** — drafts by two authors, the cutting of a text into chunks
and the ranking of what a search brings.

**WebChatBrowser** — the visitor's widget: what is shown, what is drawn, the
cookie, and the answers under way. **PublicForms** — the two wizards a case is
filed with, whose state is copied to the tab's storage at every render.
**Leads** — the contact form and guided start with their idempotency key, and the
transaction that stores a message with its consents.

### Administrators

**AdminSessions** (login with its rehash, rotation, revocation, password change
and recovery, suspension), **AdminMfa** (enrolment, login challenge, step-up, recovery codes)
and **AdminAccounts** (creation, edition, roles, lockout and unlock, identity
policy, preflight) write disjoint columns of the same account. **AdminBrowser**
is the refresh of the session over one tab's requests or over two tabs.
**AdminScreens** is the pages: a table says what each page reads and sends
(`Pages`), and the actions are what the query cache, the forms and the step-up
challenge do with any of them.

### Catalogues

**PublishedVersion** is the abstract specification: at most one version of an
item is in force, a new one takes its place in one step, and one that was taken
out never comes back. **Plans** (idempotent requests under the plan's lock) and
**KnowledgeBase** (publication under the item's lock, and searches of two steps)
implement it. **Contracts** uses it as the plan its versions pin.
**LegalDocuments** promises less, because the code does: an archived version can
come back (section 6).

### The portal and the office

**SelfService** — challenges, sessions with their CSRF token, mutations under an
idempotency key with a time-out, contact updates. **BackOffice** — cases,
reconciliation and opportunities, which share one shape: a transaction reads
without a lock, decides and writes by id.

### Start and operation

**Startup** — the validation of the environment, the factories that choose the
adapters, the approval gates a production start reads, and the system page whose
probes end one by one. **ProtectedEnv**, **Releases**, **MailPlatform** — the
operation scripts, step by step, with processes killed between two steps:
protected files and their journal; publication, installation, deployment and
rollback of releases; certificate renewal, mail configuration and firewall rules.

### Composition

The `MC*` modules compose these for TLC. Components that really share state are
one specification (Refunds over BoldPayments, Contracts over a plan, answers over
articles). Components that share none are put side by side in one module whose
variable `part` chooses, at the start, which one a behaviour follows; the state
space is then the sum of the parts and not their product, and nothing is lost,
because a step of one component is a stutter of the other. `Symmetry` is the
permutations of the interchangeable model values.

## 3. Runs and bounds

| Run | Checks | Bounds |
|---|---|---|
| `payments` | `LedgerAgrees`, `OutcomeIsBolds`, `NoSecondCollection`, `OneReusableOrder`, `TerminalOrderIsFinal`, `RefundsStand`, `SurroundingsHold` | 2 orders of 1 obligation, 2 requests, notices unverified; in production: 1 order worth 2, 2 refunds, 2 staff, each refund taken once at most. Environment files of 3 contents (`Contents`) and 3 backups (`MaxBackups`, also of mail configurations); 1 release published twice or 2 deployed (`LastPublished`, `MaxBuilds`, `LastDeployed`), 2 backups of the compose files (`MaxInstalled`); 1 renewed certificate (`LastCertificate`); pages with 1 stray answer (`MaxStrays`) and one query each; every prepared environment with at most one mistake, 2 gates; 4 watched environments |
| `bold_payments_retry` | finding `BoldAskedOnce` | 2 orders of 1 obligation, 2 requests |
| `refunds_amount` | finding `RefundsWithinAmount` | 1 order, 2 refunds, 2 staff |
| `outbox` | `DeliveredOnce`, `TerminalJobIsFinal`, `EveryJobSettles` | 2 jobs, one of a communication and one of a security flow, 2 workers, 2 attempts, crashes, only `INVALID` and `RETRYABLE` queries fail |
| `outbox_retry` | finding `NoBlindRetry` | 2 jobs of one communication, 2 workers, any outcome query may fail, `ClaimBound` 3 |
| `progress` | `EngineRecordsAgree`, `StepsRunOnce`, `EveryExecutionSettles`, `ChatsSettle`; deadlock | 1 event, 1 version of 2 actions, 2 dispatchers, 1 retry timer, 2 attempts, failures and crashes; a chat of 1 message, 2 visits, 1 operator |
| `conversations` | `OwnedWhileHuman`, `MessagesRunOnce`, `NothingStaleIsStored`, `NothingSaidIsLost`, `AnswersArePublic` | 2 messages in a stable session, 1 message with failures, crashes and session changes, 2 requests, 2 operators; a widget with 2 fetches; 1 answer over 3 passages; 3 drafts by 2 authors; texts to 7 characters in chunks of 4 overlapping by 1; 3 chunks and 2 of them as evidence; 2 submissions of a form; 2 sends and 2 keys of a lead |
| `identity` | `SessionsProvePassword`, `OneLiveCredential`, `PreflightHolds`, `LocksHold`, `FactorsStand`, `BrowsersBehave` | 3 sessions, 1 reset token, 2 requests, 1 password change, 1 suspension; 2 secrets, 2 batches of codes, 2 time steps, 1 attempt; 2 accounts, 3 e-mails, 2 versions, lock after 1 failure; 2 tabs or 2 requests; pages with 1 or 2 writes and at most 2 visits, as `WritesIn`, `VisitsIn` and `FormsIn` say; a first hash to make anew with 2 sessions (part `rehash`) |
| `identity_suspended` | finding `ReactivationRestoresNothing` | same, with 2 reset tokens |
| `catalogues` | `LegalTextsStand`, `ContractsBindWhatWasAgreed`, `AnswersAreGrounded`, `MasterIsReadRight`, `PlanIsCatalogue`, `ArticlesAreInForce` | 2 versions and 2 requests of each; revision 3, 3 texts of which one is invalid; 2 signers; 2 reads over 2 connections or 1; 2 persons, 3 contracts, 3 installments |
| `services` | `AskedOnce`, `CollectedOnce`, `CentralSeparation`, `ConfirmationIsKept`, `PortalKeepsItsWord`, `BarredStaysBarred`, `GatewayHoldsItsLimits`, `CommunicationIsTrue`, `OfficeRecordsAgree` | 2 Master orders, 2 requests, 2 quotes; 4 codes, 2 attempts; 2 inferences, 2 routes, a budget of 5 and costs 1, 3, 4, over 2 days; 2 jobs with any query failing; 2 staff, 2 runs, 2 changes; an opportunity opened at NEW_PROSPECT or ACTIVE_PARTNER |
| `webchat_restart` | finding `RestartIsClean` | 2 conversations, 1 message, 2 fetches, 2 generations |

What the passing runs show, in a sentence each:

* **payments.** Whatever polls, notices and second requests do, an order's
  status, its attempt, its receipt and Bold's decision tell one story, and no
  second call is in flight for an order that has an attempt; a refunded status
  always rests on an approved refund of the right size and no late answer takes
  it back. Around them: a page never says more than the order did, a process
  serves only with what its adapters need, and the host can be put back after
  any kill.
* **outbox.** With a database that takes what follows an acceptance, no message
  is delivered twice and every job ends in spite of crashes. A failing query
  breaks the former (`outbox_retry`), but never makes the communication claim an
  outcome its jobs do not have (`CommunicationIsTrue` in `services`).
* **progress.** The conditional claim, the step rows and the unique key of the
  communication are together enough for one runner and one communication per
  action; an execution ends unless a failure stranded it, and every message of a
  chat comes to an end.
* **conversations.** The version comparison is enough for a human to win over any
  answer being inferred, and the processing row for one orchestration per
  message, also when browser, process and session come and go; what the visitor
  sent is stored or shown as unsent; what is answered is public.
* **identity.** No interleaving of login, rotation, recovery and suspension
  leaves a usable session that rests neither on the password last set nor on the
  one the hash verifies, and these two differ only where a login that had verified
  the first password wrote its rehash late (section 6). What a suspension should
  revoke is another matter: `identity_suspended`. A code counts once; the
  privileged account survives; a browser never plays its own tokens back; its
  pages contradict nothing they reported, but for the two answers of section 6.
* **catalogues.** At most one version is in force, whatever was read before the
  lock; contracts bind what every signer accepted; an answer rests on articles
  its reader may see, in force when they were read; rows of the bridge reach a
  caller only from a verified account, no connection stays behind once a read is
  over, and it states no installment that no reading showed. That it uses no more
  connections than it has is the guard of the pool in the model, and no property
  states it.
* **services.** The claim committed before the call, and never released when the
  outcome is unknown, makes an installment be collected once; codes, mutations
  and contact changes are used once; a day's counter exceeds its budget by no more
  than what each inference may cost above its estimate, which is a bound on
  the overrun and does not exclude one; a case ends with its evidence unless the
  transition that ended it erased it with an empty text, resolved runs have
  nothing open, and an agreement rests on a stage its opportunity was opened at
  or reached.

Why the bounds are enough. All the races are between two actors about one row,
so two requests (or workers, deliveries, staff, tabs) and one shared row show
them; a second row is there where rows are related (orders of one obligation or
installment, recipients of one communication, messages of one conversation,
versions of one item). The third session is a child made while its family is
revoked. Two attempts are the least for which "retry" and "exhausted" differ; the
passing outbox run never claims a job more often than `MaxAttempts`, so there
`ClaimBound` 2 cuts nothing, and 3 lets `outbox_retry` see one claim too many.
Two actions are the least with an order. `OrderAmount` 2 has a whole and a
partial refund. A text of seven characters is cut into two chunks that overlap
and a rest. What TLC then explores is finite without a state constraint: the
other counters are bounded by the guards of the code.

Some parts of a composition have bounds of their own, so that the whole stays
checkable. The rehash needs one login that verifies, one write that overtakes it
and a session of each, so its part has two sessions. The operator's own account
is followed with two submissions at once but one write and no visit; the pages
with the most keys have one write, or no visit. The stage an opportunity is opened
at is varied over one without agreements and one with, in its own part only.
Balances of installments only fall in the environment of MasterQuotes: annulled
payments, installments added later, and an installment reported under another
contract than its own are not among its behaviours.

Symmetry sets are permutations of identities the specifications never compare
otherwise; `outbox` and `progress`, which check liveness, use none. Deadlock is
left unchecked where a system may stop for good: identities used up, every job
ended, a conversation closed with its session over, a process that refused to
start. `progress` does check it: its timers never stop.

## 4. Fairness

Only `outbox` and `progress` assume any.

* **Outbox.** The poller is a two-second `setInterval`, so a poll goes on (`WF`).
  A delivery goes on (`WF`): the SMTP client has a socket time-out. Claims are
  strongly fair per job: due rows are selected in the order they became due, so
  a row that keeps being due is reached. A lease nobody renews runs out (`WF`
  per job). Crashes are not fair and may happen for ever, as often as the bound
  on claims lets a job be taken.
* **Automation.** A runner goes on, an action is ended by `withTimeout` at the
  latest, and time passes (a retry becomes due), each `WF`. No delivery of an
  event is assumed. Statements may fail and processes may stop any number of
  times, but not for ever. Even so a failure can leave an execution to nobody:
  `processExecution` never claims a RUNNING one, and the timer looks only at
  FAILED ones, so one left PENDING waits for a redelivery. `Stranded` is exactly
  that state, and `EveryExecutionSettles` says that it is the only exception.
* **Chat.** `SF` on the steps of each request: PostgreSQL queues the waiters of
  an advisory lock, so a request whose lock is free again and again gets it.
  Nothing is assumed of visitors or operators. Failures and crashes are off in
  this part: a dead process leaves its message PROCESSING until the visitor sends
  it again, which nobody is obliged to do.

## 5. Proofs

Eight modules hold proofs. Each proves for all values of its constants, under
the assumptions the model declares by name (`ConstantsAssumption`,
`RefundAssumption`, `MasterAssumption`, `OutboxAssumption`, `GatewayAssumption`,
`PortalAssumption`, `SessionsAssumption`, `AccountsAssumption`, `MfaAssumption`,
`AutomationAssumption`, `KoralAssumption`, `LegalAssumption`, `PlansAssumption`,
`ContractsAssumption`, `KnowledgeAssumption`, and those of the parts of a
composition: `PartsAssumption`, `BrowsersAssumption`, `PagesAssumption`,
`CataloguesAssumption`; `FilesAssumption`, `GatesAssumption` and
`ReleasesAssumption` for what surrounds the payments): placeholders are not
identities, limits are natural numbers, what is counted or added up is finite, a
protected file starts with one of its contents. TLC evaluates each of
them on a passing run.

Hardly any property is inductive as it stands. What a proof adds is nearly
always of two kinds: which fields of a row may stand together, and what a
request may still rely on at its place in the code, after it has read and
awaited. The latter is the argument that no test can make.

**BoldPaymentsProofs** — `BoldPayments` and `Refunds`, any orders, obligations,
requests, refunds and staff.

| Theorem | States |
|---|---|
| `LedgerCorrect` | `LedgerAgrees`: one attempt per order, one receipt exactly per paid order, the attempt agrees with the order |
| `OutcomeCorrect` | `OutcomeIsBolds` |
| `CollectedOnce` | `NoSecondCollection` |
| `ReusableOnce` | `OneReusableOrder` |
| `TerminalFinal` | `TerminalOrderIsFinal` |
| `ProductionPaidHasAttempt` | in production a paid order has the approved attempt a refund needs |
| `Inductive` | the inductive invariant itself |
| `RefundsBackedCorrect`, `RefundedKeptCorrect` | the two parts of `RefundsStand` on `RefundSpec` |
| `PaymentsHoldBesideRefunds` | the properties of the payments with refunds going on |

`IInv` says for each order which status, attempts, receipts and decision of Bold
can stand together (`Rows`; the refunded statuses count as paid, so that it holds
beside the refunds too); for each request, that an answer in hand is one Bold
gave and, unless RUNNING, has settled on (`ReqsOK`), which is what makes a late
answer harmless; that two requests never hold one lock (`Exclusive`); and that a
stored notice says what Bold may announce (`NoticeOK`). `RefundIInv` adds what
staff may rely on between reading and writing, and that a refunded status is
backed (`RefundBacksStatus`). The refunds take no lock, so their argument is that
whatever they write over was approved, and stays so.

**PaymentsProofs** — everything the run `payments` follows beside the orders, on
`PaymentsSpec`.

| Theorem | States |
|---|---|
| `SurroundingsHoldCorrect` | `SurroundingsHold`, for any shells, publishers, gates, contents of files, releases, renewals and backups |
| `RefundsStandCorrect` | `RefundsStand`, carried over from `BoldPaymentsProofs` through an instance |

`SurroundingsInv` is one inductive invariant per part, the one of the part a
behaviour follows:

* *Protected files* (`FileIInv`). A command that writes is alone (`OneWriter`).
  `Written` says at each of its steps what is on disk and what its own copy of
  the file still equals: up to the write the file is what was read, from the
  backup on the newest backup is that content, and the journal points to it
  exactly while the write may have happened. A kill at any step leaves one of
  these, and each can be put back.
* *Releases* (`ReleaseIInv`). `StageStands` says how many of the compose files
  a deployment has swapped, or a rollback restored, and that the schema has
  reached what will run; `ImagesStand` that the identities a script verified are
  those published, unless images were built under a script
  (`raced`, a race nothing in the scripts excludes).
* *Certificate* (`TlsIInv`). At every step either the pair in place matches or
  the transaction holds both files of a matching previous pair (`Restorable`).
  A recovery killed between two of its files goes on from a pair that is whole in
  the transaction, or from one already in place (`InPlace`): as the transaction
  is deleted file by file, the weaker second half is what survives.
* *Mail configuration* (`PlatformIInv`). Every backup is of a configuration that
  was not managed, except for what a rollback left half way; a managed main
  file without its rest exists only between two renderings.
* *Firewall* (`FirewallIInv`). Unless a script was cut off, one script works at a
  time, and every rule in place is among those it made, or is recorded.
* *Pages* (`VisitIInv`). The status an answer carries stays true while the answer
  is under way, because the order only moves on from what it says (`Onward`).
* *Start of the API* (`StartIInv`). Each adapter in use was chosen from the
  environment the process started with, a live one after every gate cleared it;
  what a probe heard, or the status page shows as healthy, worked while the page
  was being asked for (`PageStands`).

The step of the hook that saves the files failed at first, and rightly: `Save` of
`MailPlatform` went on after a start of postfix had removed the transaction
directory, where `install` fails (cert-renew-hook.sh:43-47). It now needs the
directory.

**OutboxProofs** — any jobs, workers, attempts and claims.

| Theorem | States |
|---|---|
| `DeliveredOnceCorrect` | `DeliveredOnce`, if no query fails after an acceptance (`LateQueriesSucceed`) |
| `TerminalJobIsFinalCorrect` | `TerminalJobIsFinal`, whatever fails |
| `CommunicationIsTrueCorrect` | a communication claims no outcome its jobs do not have, whatever fails |

`RowsIInv` needs no assumption on failures: jobs exist only after the
communication was requested, and what a synchronisation read is still true when
it writes, because the statuses it acts on are terminal. `DeliveriesIInv` does
need it: only the delivery of the latest claim is under way, and only while its
row is PROCESSING or over. `LateQueriesSucceed` is exactly what `outbox_retry`
shows to be necessary.

**EngineProofs** — any events, versions, actions, attempts and runners, with
failures and crashes.

| Theorem | States |
|---|---|
| `EngineInductive` | the inductive invariant |
| `EngineRecordsAgreeCorrect` | `EngineRecordsAgree`: order of the steps, retry rows, dead letters, communications |
| `StepsRunOnceCorrect` | `StepsRunOnce` |

`EngineIInv` is the types, `RowOK` per execution (status, steps, history and
letter), `RunnerOK` per runner (what it read of the steps when it loaded the
execution still holds of those it has not reached), and `Exclusive`: a RUNNING
execution has one runner at most.

**ConversationsProofs** — any messages, requests and operators, with failures,
crashes and session changes; any pages, forms, passages, drafts, texts and chunks.

| Theorem | States |
|---|---|
| `OwnedWhileHumanCorrect` | `OwnedWhileHuman` |
| `MessagesRunOnceCorrect` | `MessagesRunOnce` |
| `NothingStaleIsStoredCorrect` | `NothingStaleIsStored` |
| `KoralInductive` | the inductive invariant of the conversation |
| `NothingSaidIsLostCorrect` | `NothingSaidIsLost`, on the composition |
| `AnswersArePublicCorrect` | `AnswersArePublic`, on the composition |
| `ConversationsHoldChats` | the composition implements the specification of a conversation |
| `ConversationsInductive` | the inductive invariant of the composition |

*Conversation.* `JobHolds` says what a request relies on at each of its steps:
while its copy is fresh nobody has overtaken it and it has seen every message;
`OneRun` that a message has one running request; `RowHolds` that a row counts one
orchestration.

*Page of the visitor.* `PageHolds`: whatever a transcript or an answer on its way
shows is stored (`Shows`, `OnServer`), and a request that carries a message has
stored it before it can be answered (`FetchHolds`). So the page may drop its own
copy when it sees the stored one, in whatever order answers come, and stored rows
only grow (`RowsGrow`).

*Forms.* `FormsIInv`: the steps before the present one are valid, on the page and
in its copy, and the copy is the page's unless storage was cleared
(`CasesCounted` then bounds the cases by the submissions). `LeadsIInv`: a key
names the texts of one form, one row at most is stored under it, and the request
that inserts it is the only one.

*Answers.* `RunHolds`: a run that reaches the provider was cleared — a public
topic or a greeting, an assurance that may be answered, and at most as many
passages as allowed, none restricted; every later step and every answer rests on
having sent it. *Drafts* are read one after another. *Cutting*: chunks go
forward, and every character before the present start lies in a chunk or is
blank; the end of a chunk lies beyond its start because the boundary chosen is
in the second half. *Ranking*: the rank of a candidate (`Rank`, how many precede
it) is a bijection to the positions, so as many are chosen as the limit says and
whoever is displaced is displaced by one that precedes it.

**AdminIdentityProofs** — any sessions, tokens, accounts, addresses, roles,
codes, challenges and requests.

| Theorem on `IdentitySpec` | States | On the component alone |
|---|---|---|
| `SessionsProvePasswordHolds` | `SessionsProvePassword` | `SessionsProveThePassword` |
| `OneLiveCredentialHolds` | `OneLiveCredential` | `OneCredentialLives` |
| `PreflightHoldsAlways` | `PreflightHolds` | `PreflightCorrect` |
| `LocksHoldAlways` | `LocksHold` | `ThresholdCorrect` |
| `FactorsStandAlways` | `FactorsStand` | `FactorsAreUsedOnceCorrect`, `FactorIsNotReplacedCorrect` |
| `BrowsersBehaveCorrect` | `BrowsersBehave` | |

`SessionsIInv` adds that a row being rotated was live when it was locked and has
one holder, that a suspension under way is the only one, and that a hash of former
options is the first one, so that a login that hashes anew has verified the first
password (`HashesHold`): this is why nothing but the first password can come back.
The theorem says of a usable session that it rests on the password last set or on
the one the hash verifies, and that the latter is the former or the first. `AccountsIInv` adds
that no call in flight carries a change the policy forbids, so what it read
before its transaction does no harm. `MfaIInv` adds that an accepted code is used
up and a ceremony is bound to the secret it began with.

*Tabs.* `BrowserIInv` follows the cookies: every one was issued
(`CookiesAreServed`); one on its way to the browser is new to it, and no two
answers bring the same (`AnswersAreNew`); a request waits only for a refresh that
is under way (`RefreshStands`). Without an excuse, no two tabs refresh with one
token, and the browser holds a rotated one only while its successor is on its way
(`Unexcused`): the lock between the tabs is what makes this inductive.

*Pages.* `ScreensIInv` says of each entry of the query cache which writes the
administrator was told of it lacks: then it is marked stale, and on the page shown
it is being read again or says that it failed (`Stands`); that a submission was
decided on what was shown; who holds the challenge; and that whoever waits for one
that will never come has left its page, at its first denial (`Left`). What the
tables of pages and operations must fulfil for this (every operation invalidates
whatever the server changes with it but what its page overlooks, `Overlooked`, on
every page where it can be pressed: `Fits`) is proved page by page, from the
prefixes of the query keys (`Words`, `Key`).

**CataloguesProofs** — any versions, requests, signers, consents and articles; any
reads, connections, persons, contracts and installments.

| Theorem | States |
|---|---|
| `PlanImplementsCatalogue` | a plan implements `PublishedVersion` (refinement): each step is a publication, a withdrawal or a stutter |
| `ArticlesAreInForceCorrect` | so does an article, and a search cites what is in force when it is read |
| `LegalTextsStandCorrect` | `LegalTextsStand` |
| `ContractsBindCorrect` | `ContractsBindWhatWasAgreed` |
| `AnswersAreGroundedCorrect` | `AnswersAreGrounded` |
| `MasterIsReadRightCorrect` | `MasterIsReadRight`, on the composition |
| `CataloguesAreTheirSpecifications` | the composition moves each catalogue by its own specification |

Of a plan the invariant is that the version in force is the one pointed at
(`PointsAtPublished`); of an article, that one is published, one transaction
holds the item, and the list it withdraws is of published or retired versions;
of a legal
document, that who approves or publishes holds a valid text, which still stands
if it was approved when read; of a contract, that who accepts and found all
others had accepted is right as long as its own acceptance is the one missing,
that no signer accepts twice at a time, and that what is pinned was once sold.

Of a read (`ReadsIInv`), that the client, at whatever step of its own life, has
verified the account before it queries and holds its connection until it gives it
back (`ReadStands`); and that while the circuit is open and has cooled no read is
awaited, so that the next caller is the one probe (`ProbeStands`). Of a quote
(`QuotesIInv`), that its rows are the person's, one for each installment, of
contracts already read, and that no rows so far means nothing owed there
(`ConsultStands`). Which installment is payable is a CHOOSE of the earliest day:
that it exists is the well-foundedness of the natural numbers.

**ServicesProofs** — what `MCServices` puts side by side.

| Theorem | States |
|---|---|
| `TypeCorrect`, `AskedOnceCorrect`, `CollectedOnceCorrect`, `CentralSeparationCorrect`, `ConfirmationKept` | the Master orders on `Spec`, any orders, requests and quotes |
| `PartsAreTheirSpecifications` | `ServicesSpec` implies the specifications of the Master orders and of the gateway, so the line above holds of the whole |
| `GatewayHoldsItsLimitsCorrect` | `GatewayHoldsItsLimits` |
| `PortalKeepsItsWordCorrect`, `BarredStaysBarredCorrect` | `PortalKeepsItsWord`, `BarredStaysBarred` |
| `OfficeRecordsAgreeCorrect` | `OfficeRecordsAgree` |
| `CommunicationStaysTrue` | `CommunicationIsTrue` |

*Master orders.* No lock spans a call. `RowOK` says what a row can be: untouched
by Bold, or started by its one claim and then PROCESSING unless Bold rejected it;
`OneActive` is the unique index. So of all started orders not rejected each is
PROCESSING, hence active, hence the only one. `ReqsOK`: an answer in hand is one
Bold gave and has not taken back.

*Gateway.* The ceiling is no bound on the counter alone: a settlement may add
more than was reserved. `DaysHold` bounds the present day's counter by the
ceiling and one overrun (what a request may cost above its estimate) for each
inference that holds no reservation now; one that reserves leaves that set
before its settlement adds. The counter of a day gone by is bounded by the
number of inferences, and that of a day to come is zero.

*Portal.* `AccessIInv`: at most one visit has verified the challenge and not
entered yet, and then none has entered. `MutationIInv`: no token from the
present one on has admitted anything, and every answer of a key is the stored
one. `ContactIInv`: who submits or records a contact goes on from a verified
code, and records what the core said unless it still says SUBMITTED.

*Office.* The transactions read without a lock. Cases: a transition writes the
text it carries or the one it read, so whoever decided to resolve or close on a
text writes it, unless the text carried is the empty one, which passes over the
test and erases what was read. Runs: a
difference belongs to one run, which only one member of staff can be recording,
and the one who found the last difference of a run resolved still finds none
open. Opportunities: the present stage is the one opened at or one of the history; who gave a version that is still the present one read the
present stage.

The composed modules follow one part at a time. The last section of
ServicesProofs, AdminIdentityProofs and PaymentsProofs lifts the invariant of
each part to the composition, whose other parts a step leaves alone. Where a
module with proofs and the composed module hold two instances of one component,
"same text" lemmas expand both to the same formula.

**On the prover.** The SMT backend of this version of tlapm reads an EXCEPT with
two paths that begin with the same index as two contradictory equations, from
which it would prove anything. A change of several fields of one row is therefore
one nested EXCEPT (`[f EXCEPT ![o] = [f[o] EXCEPT !.a = x, !.b = y]]`) in every
module with proofs. To see that no hypothesis is contradictory, lemmas about
actions were also tried with FALSE for their conclusion, which none proves.

Attempts at proofs also found that some CASE expressions of six modules had arms
that overlapped: TLC takes the first that holds, TLA+ any of them. They now
exclude each other and read the order of the code's conditions.

**Model-checked only.**

* Liveness (`EveryJobSettles`, `EveryExecutionSettles`, `ChatsSettle`): fairness
  and ENABLED are out of the prover's reach. Every other property of a passing
  run is stated by a theorem.

## 6. Where code and statement part

Five disagreements are runs that TLC must find violated; `PROJECT.json` quotes
the statement each refutes.

| Run | Property | What the run shows |
|---|---|---|
| `bold_payments_retry` | `BoldAskedOnce` | a rolled-back first call is forgotten, and Bold is asked again |
| `refunds_amount` | `RefundsWithinAmount` | two refunds requested while APPROVED are both approved |
| `outbox_retry` | `NoBlindRetry` | the update after an accepted send fails and is taken for a failed send |
| `identity_suspended` | `ReactivationRestoresNothing` | a session rotated while the account is suspended escapes the revocation and works again after the reactivation |
| `webchat_restart` | `RestartIsClean` | a message sent before a restart is answered after it and joins the new transcript |

The models contain others that no run singles out. What is checked is stated so
that it holds in spite of them.

* **Refunds.** Two approvals that both read PENDING both ask Bold. A refusal is
  meant to leave FAILED, but the error thrown after that write rolls it back
  (`RethrowRefusal`). Evidence is attached after an approval that happened during
  the upload.
* **Sessions.** The comment at `auth.service.ts:202-203` says that re-reading after
  the row lock prevents a password reset from racing between the verification of
  the credentials and the creation of the session. It does for the session. But a
  login that finds a hash of former options writes a new hash of the password it
  verified by id, before that lock and whatever the row holds by then
  (`auth.service.ts:165-168`, `Rehash`). If a reset or a change commits in between,
  its password is overwritten, the former one is accepted again, the login goes on
  with it, and the sessions opened with the new password stay usable. The invariant
  is stated with this: `hash` keeps which password the row verifies, beside
  `password`, the one last set.
* **Master.** `recordProviderResult` writes by id, so an older answer makes a
  REJECTED order PROCESSING again.
* **Outbox.** If a query fails after an acceptance, an old delivery of the same
  process can release a newer claim of that process (`finishFailure` recognises a
  claim by the process only), and decides with an old retry count whether the
  attempts are used up. The older of two readings of a communication's jobs may
  be written last, so it need not reach their outcome.
* **Automation.** Store failures are meant to be retryable, but an execution
  claimed before the failure stays RUNNING (`Stranded`).
* **Conversations.** Only return-to-koral is meant to restore AI_ACTIVE, but the
  visitor's next message after a resolution does too. A reply is meant to need
  the exact version, but an identity claim fits between the comparison and the
  update. A terminal processing row may be overwritten by the verdict on an
  expired lease.
* **AI gateway.** An answer over the token limit releases its reservation though
  it was paid for.
* **Legal documents, contracts.** An archived version can be published again by a
  stale publish. A contract every signer accepted may never become ACTIVE, if the
  last two accept at once.
* **Back office.** A run may never become RESOLVED (each of the two last
  resolutions sees the other open); a CLOSED case may be moved by a stale
  transition. A transition may carry an empty resolution: closing a case that has
  one passes the test for it (`pqr-cases.service.ts:220`), and `??` then writes the
  empty text over it (`:228`), though "a case needs a stated resolution before it
  can be closed"; the identity check of a data-subject request is erased the same
  way (`data-subject-requests.service.ts:220-236`). An opportunity may be opened at
  any stage, with no history row (`crm.service.ts:199-216`), so an agreement may
  rest on the stage of its opening alone (`opened`).
* **Administration pages.** Leaving a page while its challenge is verified tells
  the mutation that it was cancelled, but the action still runs
  (`use-step-up-action.tsx:58-62, 96-115`). Leaving it before the first denial
  comes strands the mutation: the cleanup finds nothing pending, the denial then
  stores its promise and opens a dialog of a page that is gone, and nobody will
  ever settle it (`use-step-up-action.tsx:68-88`, `Strand`); a second one of the
  same page then fails at once. `OnlyTheLeftAreStranded` says that nothing else
  waits so. Revoking the other sessions from one's own page renews only the list of
  sessions (`CurrentAdminSecurityOverview.tsx:60-67`), while the same operation on
  the page of the sessions renews the account too: the account, which tells how
  many sessions are active, stays cached and unmarked, and so does its history.
  The panel of the second factor renews no history either (`Overlooked`).
  After a 409 a page keeps the old
  version until it reads again. Drafts of legal texts survive a change of version
  and carry none. A late success drags the browser away from where the user went.
  A lost answer to an MFA confirmation leaves the panel "not enrolled".
* **Payment pages.** The result page may go on showing a cached "pending" for 30 s
  after the order was approved, and shows CANCELLED and refunded orders as
  "pending". A late answer to the creation of an order moves the visitor wherever
  they are. A central order past its expiry stays payable through a page left
  open, beside a new order of the same obligation.
* **Public forms.** What is edited while a case is pending is lost on success. A
  lost answer followed by another visit files a second case, as these endpoints
  take no idempotency key. A late answer of a former visit removes the new visit's
  stored copy until its next render.
* **Leads.** An edited message sent again after a lost answer gets the first one's
  reference. A rate-limited message is shown as registered, with an empty
  reference, and is not stored. Guided start lets e-mail be chosen without the
  consent the server then asks for.
* **Start.** `PRODUCTION_PAYMENTS_ENABLED` and `BOLD_MODE` are independent.
  `EXTERNAL_CORE_PROVIDER=http` passes the validation and always fails the start;
  `master` with `MASTER_FIREBIRD_ENABLED=false` starts. The validation does not
  ask for the identity key that the factory needs. The system page shows Bold as
  not configured where only the identity key is set.
* **Operations.** A kill between `mkdir` and the saves, or within the final
  removal, wedges recovery; signal traps go on after handling; a kill leaves
  firewall rules behind; a repeated prepare records postfix as stopped; a kill
  after verification restores the old certificate.

## 7. What the models leave out

* **Payments.** Amounts other than a refund's share; captcha, rate limits,
  rendering. Obligations are read only, as in the code. Bold settles a reference
  once; if it let a rejected link be paid after all, an older REJECTED answer
  could overwrite a confirmation.
* **Outbox.** Whether a backoff has passed is a nondeterministic choice at the
  claim. Batches of ten are not reached with two jobs. `send` returns a result and
  does not throw, as the transport's contract says. A commit whose reply is lost
  is not distinguished from one that failed before. A worker that crashed comes
  back as itself; the code makes a new identity, which only makes guards on the
  owner stricter.
* **Automation.** The verdict of a version's conditions is chosen once; a
  redelivery with a different envelope is refused without a change and left out;
  the batch of 25 is not reached; schedule and manual triggers have no code that
  runs them.
* **Conversations.** Policy, knowledge and the model's answer are one verdict in
  KoralConversations and opened up in GovernedAnswers. The reading of the context
  is one step: its first query reads the version, so anything newer that the
  others read only leads to a refusal. One conversation is enough because each
  has its own lock. Channels other than web chat have no runtime.
* **Identity.** Tokens are identities; a hash is the password it verifies and a salt
  that no other has, with salt 0 for options that are no longer today's: a first
  hash may have them, and none written by this code has. That the options change
  again while the account lives, over a restart, is left out; the password in force
  then could be brought back in the same way as the first. Password policy is a choice.
  A clock step is a choice bounded by the number of codes.
* **Pages.** Layout, routing and validation messages; the query cache is modelled
  by what the pages use of it (stale time, invalidation, cancelled reads). A
  stranded submission keeps its place among the few that are followed. The counts
  and the system status on the operator's own page are left out: no operation
  followed there changes what they show. What an operator does to another account
  also adds to the operator's own history, which no page renews; each area of pages
  follows the history of one account only.
* **Master bridge.** Annulled payments and new installments (balances only fall),
  and an installment that is reported under another contract than its own.
* **Start and operations.** The environment is the set of settings that are
  compared with each other; the host is the files, links, rules and services the
  scripts change.
* **Database.** A transaction that takes the lock its statements depend on first
  is one step; one that does not is several. Deadlock between row locks is not
  modelled: no modelled transaction locks two rows of a kind.
* **Components** that `PROJECT.json` lists as not modelled or modelled in part,
  with the reason of each.

## 8. Plan

Done: every module of section 2, all runs of section 3, and the proofs of section
5, which state 37 of the 40 properties of the passing runs: all but liveness.

Next: more of the code, the sign-in pages and the Koral control plane first.
