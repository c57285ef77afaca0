# Verification of pms-backend

TLA+ models of the profit management backend (a modular monolith in TypeScript with PostgreSQL
and RabbitMQ), the TLC runs that check them on small instances, and proofs checked by TLAPS.
Paths below are relative to the repository.

## The system and its parts

| Component | State it keeps | Operations | Talks to |
| --- | --- | --- | --- |
| Outbox relay (`apps/scheduler`, `outbox-relay.ts`, `postgres-outbox.repository.ts`) | `integration.outbox_event` with leases | claim a batch, publish, mark published or failed | business transactions insert rows; the broker |
| RabbitMQ publisher | pending confirms | publish, confirm, return, nack, channel error | the relay, the broker |
| Inbox and consumer (`idempotent-consumer.ts`, `rabbitmq-event-consumer.adapter.ts`) | `integration.inbox_message` | deliver, begin, effect, complete, abandon, ack, dead-letter | the broker, the workers' handlers |
| Calculation run (initiation, execution, approval, posting repositories) | `calculation.run`, `workflow.approval_action`, the run's journal entry | initiate, execute, control, approve, post | API requests, the calculation worker, the outbox |
| Accounting (posting, reversal, events, acknowledgement, reconciliation) | `accounting.journal_entry`, its acknowledgements, reconciliations and discrepancies | post, reverse, emit, acknowledge, reconcile, escalate | the general ledger, the scheduler |
| Calculations (`libs/engine`, the domain modules) | none: functions | allocate, absorb, solve, report | runs, simulations |
| Closing workflow and governance | `workflow.closing_period`, tasks, anomalies | evaluate controls, approve, reject, advance nineteen steps, escalate | closing worker, scheduler |
| Audit chain | `audit.event` linked by hashes | append, verify a window | audit worker, signer |
| Document archive | archive requests and references, two stores outside | request, archive | document worker, Paperless, WORM |
| CBS ingestion | batches, staged positions, issues, positions | register, authenticate, scan, stage, control, publish | ingestion worker, antivirus, token vault, products |
| Subscriptions | accounts, their events and answered commands | create, and eleven commands from start to close | API, customer restrictions |
| Customers | profiles and legal restrictions | create, add and lift a restriction | API, subscriptions |
| Exception centre | cases and their history | open, transition | guards of runs, batches and closings |
| Exports and regulatory reports | exports and their events, reports | create, approve, generate; generate, publish | API |
| Products and terms | products, transitions, references, arbitrations, versions of terms | five transitions, associate, arbitrate, draft and publish terms | API, ingestion (which products are published) |
| Pooling, revenue, compliance, reference data, certification | versioned records | save, review | API |
| Identity, tokenization, dashboards, API, tooling | none of their own | | |

Business transactions never call the broker: they insert an outbox row in their own transaction.
The scheduler relays rows to the exchange; workers consume queues, at least once, and use the
inbox row to run the effect of a message once. A run is created by the API with its message,
executed by a worker that receives it, and then decided by people through the API.

What is hard here: several schedulers and several workers share tables without a coordinator;
leases are measured by different clocks (the relay's captured `now`, the database's clock) and
can run out under a slow worker; every step can be cut by a crash between two systems that share
no transaction (a confirm and an UPDATE, an effect and an ack); transactions of three isolation
levels race for one run, two of them with a snapshot older than the lock they wait for. What
must hold in spite of that:

* outbox: an event is closed only once the broker has it, closed for good, sent twice only for a
  cause, and not forgotten;
* inbox: one effect per message where nothing failed, no message gone without its effect, every
  copy settled;
* run: one run per business basis, a maker, a controller and an approver who are three people,
  each decision once and recorded, one journal entry, nothing recorded ever rewritten;
* audit trail: one chain without forks or gaps, a verification that reports nothing on an
  unaltered trail, a lock that is never kept;
* subscription: no overdraft, each command once, a history that is a legal life, a closed
  account that stays closed, no request that waits for ever;
* closing: approved once by another person, on controls that passed, its steps in order and all
  of them in the evidence;
* archive: what is archived is stored in every store it needs, once and for good; no request
  forgotten;
* ledger: balanced entries, each effect once whoever races for it, a reversal that undoes its
  entry, acknowledgements in order, discrepancies followed to the top and no further;
* calculations: nothing lost or made by rounding, shares that are fair, losses in the order of
  the layers, answers true of the exact numbers;
* ingestion: a batch published whole or not at all, as it was delivered and controlled;
* exports, reports, products, terms: a second person where one is required, on the state that is
  written and not only on the one that was read; the same answer to a repetition.

`PROJECT.json` lists the hazards by line, with the properties that watch them.

## Modules

| Module | Models |
| --- | --- |
| `OutboxRelay` | the outbox table and the scheduler processes that relay it |
| `EventLog` | what the outbox promises: an event is sent at least once and closed only then |
| `OutboxRelay_proofs` | theorems about `OutboxRelay`: that it implements `EventLog`, and that leases exclude each other |
| `InboxConsumer` | a work queue, its workers and the inbox table |
| `InboxConsumer_proofs` | theorems about `InboxConsumer` |
| `CalculationRun` | the life of calculation runs across concurrent transactions |
| `CalculationRun_proofs` | theorems about `CalculationRun` |
| `AuditChain` | sessions that append to the audit trail, and its verification |
| `CustomerRestrictions` | the legal restrictions of a customer and the officers who change them |
| `Subscription` | investment subscriptions: commands on accounts under restrictions; composed with `CustomerRestrictions` |
| `Subscription_proofs` | theorems about `Subscription` |
| `ClosingWorkflow` | the closing of a business date: controls, review, nineteen steps, evidence |
| `ClosingWorkflow_proofs` | theorems about `ClosingWorkflow` |
| `DocumentArchive` | archive requests and the worker's effects in Paperless, WORM and the database; composed with `InboxConsumer` |
| `Archives_proofs` | theorems about `AuditChain` and `DocumentArchive`, and that the latter implements `InboxConsumer` |
| `Accounting` | the journal, its acknowledgements and reconciliations |
| `Calculations` | the formulas, one step for each calculation |
| `CbsIngestion` | the ingestion worker's steps on a batch |
| `Reporting` | secure exports and regulatory reports |
| `ProductGovernance` | products, their references and their terms |
| `Products_proofs` | theorems about `Calculations` and `ProductGovernance`; sums over finite sets |
| `Ledger_proofs` | theorems about `Accounting`, `CbsIngestion` and `Reporting` |
| `MC*` | the values TLC gives the constants |

### OutboxRelay

`outbox` is the table (`status` stands for `published_at`, with an `absent` row for an event not
yet recorded). Each worker's `pc` walks through `runBatch`: `claim` (`claimPending`), `publish`,
`confirming` (awaiting the confirm), `markPublished`, `markFailed`. `now` is the instant
captured at the start of a batch, which the code uses for the claim, the lease and the back-off;
`batch` and `cur` are the claimed records, with the attempts as they were read. `accepted`
counts the copies the broker routed, `channel` is the worker's confirm channel.

Instants are kept relative to the present and aged by `Tick`; an instant further back than
`Horizon` is clipped. Each statement of the code is one action: `Lease` picks the first
`BatchLimit` claimable rows by `available_at`, skipping rows another statement may hold at that
moment (SKIP LOCKED); `SetPublished` and `SetFailed` touch the row only while `locked_by` is the
worker. Ties of `available_at` are broken either way, records of a batch are taken in any order
(`UPDATE ... RETURNING` promises none), attempts are counted up to `ExponentCap`, where
`retryAt` stops looking. Every statement may also fail, before or after its commit
(`ClaimPendingError`, `MarkPublishedError`, `MarkFailedError`); the broker may return, nack, or
accept without a confirm coming back; a worker may crash at any point and restarts under its
`HOSTNAME:pid`.

Each fault spends the budget `MaxFaults`, and so does a tick that makes a lease run out under
its worker: without that, "no duplicates without a cause" would be false for the dull reason
that time can always pass.

### InboxConsumer

`copy` is where each copy of a message is: ready, held unacknowledged by a worker, acknowledged,
dead-lettered. `pc[w][c]` is the stage of worker `w`'s handler of copy `c`: `begin`, `effect`,
`complete`, `abandon`, `ack`, `nack`, as in `IdempotentConsumer.handle` and `handleDelivery`.
`inbox` is the row of a message: absent, held under a fresh or a stale lease, processed.
`complete` and `abandon` do not check who owns the row, so a handler may touch another one's
row. A worker that is cut off from the broker (`close` on a stop signal does not wait for
handlers) goes on with its handlers while the broker delivers their copies elsewhere; its late
ack throws, and the process exits. `interrupted` remembers that the broker took a message back
from an unfinished handler; it exists for the properties only. The effect is opaque: it commits,
or fails with or without having committed.

### CalculationRun

A session is a PostgreSQL transaction: it begins, locks and checks, commits or rolls back; a
failed check of the code is a rollback, which may happen any time. Initiation (SERIALIZABLE) and
execution (REPEATABLE READ) take their snapshot when they begin: the advisory lock is waited for
by a statement, and the snapshot is older than the lock. So `Visible` (`findReplay`) looks at
the snapshot, `Unique` (the primary key and the unique index) at what is committed, and
`UnchangedSince` is the serialisation failure of FOR UPDATE. Control, approval and posting are
READ COMMITTED: a replay look-up (`Begin`), then the row lock and the checks (`LockAndCheck`),
then the update with the recorded action. Purification cases and exceptions come and go
(`obstacles`), pool data change (`inputs`; the version a run was calculated from is its
`result`), the opening balances get certified. `MayPost` includes the trigger of the exception
centre, `MayApprove` the check that the certification trigger repeats.

Idempotency keys have one space (`approval_action.idempotency_key`); a used key answers its
replay and writes nothing, so `Begin` requires an unused one, and the primary key decides when
two sessions began with the same key. Runs that `executeAtomically` would insert itself do not
occur: the message it handles is enqueued by the transaction that inserts the run.

### AuditChain

`trail` is the table of committed events, `tx` what each session is about to append, `lock` the
advisory lock `pms.audit.chain`, `clock` the database's `clock_timestamp()`, from which
`created_at` is taken at the insert. Hashes do not collide, so an event stands for its hash and
`previous` for `previous_hash`. A session waits for the lock (`Begin`, `Lock`), answers a
redelivered event with its row (`Replay`) or reads the last event (`ReadPrevious`), has the hash
signed and inserts (`Insert`), and commits; it may fail at any stage (`Abort`). The last event
is the one with the greatest `created_at`: `StepBack` is a correction of the host's clock, or a
standby that takes over with an earlier one. `Unique` is the primary key and the unique index on
`previous_hash`, in which NULL may recur: only the lock keeps a second event from starting a
chain of its own. `Window`, `HashMatches`, `PredecessorMatches` and `Broken` are `latestWindow`
and the comparison of `QueryAuditTrail`. Left out: the content of events, signatures and their
keys, the comparison of a replayed event's payload.

The causes `BrokenHasCause` names are a clock that stepped back and a column that is not read
back as it was hashed (`Rewritten`). `append` hashes the draft as it was given, verification
hashes what `latestWindow` reads (`postgres-audit-trail.repository.ts:31-47`), and three columns
differ: `source_address::text` of an `inet` is written with its netmask (`Addressed`);
`correlation_id::text` of a `uuid` is written in small letters, while `audit.controller.ts:28`
and `authorization.guard.ts:51` accept an `X-Correlation-Id` in capital letters as it is
(`UpperCased`); an empty `session_id` is left out on reading, while `audit.controller.ts` hashes
the empty `sid` of a token (`EmptySession`). Such an event is reported as altered though nobody
touched it. The other columns give back what was hashed: the identifiers are made by
`randomUUID` or come from a `uuid` column, instants are written by `toISOString`, and the JSON
of the authorized changes is hashed with its keys sorted.

### CustomerRestrictions and Subscription

`restriction` is `customer.legal_restriction` of one customer; `officer` is the profile each
request has read (`Find`) and saves as a whole (`AddRestriction`, `LiftRestriction`).
`Subscription` EXTENDS it and reads `Restricted`, as the API asks the customer module.

`account` is the row of `investment.subscription_account` (its status, and whether the terms are
accepted), `history` the events of an account in the order of their commits, `operational` the
accounts that have a row in `investment.account`, `command` the answered commands by idempotency
key, `intents` the audit intents in the outbox. A session is the transaction of one request: it
takes a connection (`Begin`), then the lock of its key with the replay look-up (`LockCommand`,
`Replay`), then the row (`LockAccount`, where it reads it), checks the customer's rights on a
second connection of the same pool (`CheckRights`, `Timeout`), decides and writes (`Write`) and
commits (`Commit`); `Create` inserts instead. `From` and `To` are the `require` and the
resulting status of each command of the domain. The statements after the decision touch rows the
session has locked, or keys of its own, so they become visible together at the commit. `Init`
puts every account at any beginning of its opening. `ImportAccount` is the publication of a CBS
batch, which may create the operational account first.

Left out: dates and their order, the content of terms and offers, the stored snapshot a replay
returns (`Replay` answers and writes nothing), the creation of profiles.

A command may be recorded just after a restriction is: the rights are checked without a lock,
before the commit. And an officer's request that found a restriction active, and saves another
change, writes it back active over a lift that came in between, whose date is gone. Nothing in
the code prevents either, so no property is stated about them; the model keeps both.

### ClosingWorkflow

`closing` is the row of a closing: `state` (controls and review), `step` and `status` (the
workflow), the `blockers` the last evaluation recorded, the `checker` of the last review.
`steps` are its step events, `trail` the recorded reviews, `evidence` its package. `findings` is
what the controls of a date would find now (the six counts of `evaluateAndRecord` are kept as
the blockers they yield), `critical` the closings a critical exception stands against.

An evaluation is REPEATABLE READ, and its snapshot is taken by the statement that waits for the
date's lock (`BeginEvaluation`): it decides on what the controls found then (`seen`), and fails
if the row was written since (`current`, cleared by whoever writes). Reviews and steps are READ
COMMITTED: lock of the key or the workflow and replay look-up (`BeginReview`, `BeginAdvance`),
row lock and checks (`LockReview`, `LockAdvance`), commit. The rejection row repeats the action
and is not kept apart. A requester comes with his correlation identifier. `Init` is no closing
or one that has been advanced to a step of `Starts` without a review.

Two things the model shows and no document contradicts: the steps do not look at `state`, so a
workflow may be closed that nobody approved; and `transitionClosing` does not look at the
workflow, so a checker may reject a closing that is CLOSED, whose status then is ANOMALY for
good, although `markClosingAnomaly` (`closing-workflow.ts:27`) would refuse. `StepsAreRecorded`
allows exactly that.

### DocumentArchive

`request` is `document.archive_request`, `reference` the one row of
`document.document_reference` a document (a business object and its content) may have, `stored`
and `worm` are the contents of Paperless and WORM. The worker is `InboxConsumer`, of which it is
an instance: `Consume` are its steps, and in the place of its opaque effect `attempt` follows a
handler through `ArchiveDocument.execute`: `Upload` (load, scan, upload, await the task, compare
checksums), `Preserve` for evidence, `Snapshot` and `Finish`, the two moments of the one
statement of `save`. Each may fail, with or without its effect (`UploadFails`, `PreserveFails`,
`SaveFails`). `ImplementsInbox` says that this refines `InboxConsumer`; a handler that throws
spends one of its faults, whatever made it throw. Paperless and WORM are external: each may
answer an idempotency key with what it has, or make something new.

`ForgottenHasRival`, a part of `StoreIsConsistent`, has a reason. `save` inserts the reference
unless there is one and updates the request joined with the row inserted or visible. If another
request of the same document commits its reference between the statement's snapshot and its
insert, there is neither: nothing is updated, nobody looks at the count, the message is
completed and the request stays QUEUED for good. The property says that this is the only way.

Left out: `save` without a request (no application calls it), the content of requests that a
repeated key is compared with (`Enqueue` only answers then).

### Accounting

`journal` holds the entries with their lines, named by their place; `posted` the runs with
status POSTED, `approvals` the rows of `workflow.approval_action`, whose keys are unique
whatever the action. `tx` is the transaction of a request: it begins with the replay look-up,
which takes no lock (`Begin...`), and ends in one commit or in `Rollback`. One step is enough
for the commit: what its statements read is locked by then (the run's row, the entry's row),
immutable, or guarded by a constraint (`NotReversed`, `NotEmitted`, the key in `Approve`). A
reconciliation is REPEATABLE READ, so `tx` remembers how long the journal was when it began.
`Escalate` is the one statement of `escalate_overdue_discrepancies`; its instant may be an old
one, since schedulers do not agree on the time. `answers` keeps what was answered, for
`ReplaysAgree` only.

What the code does and the model keeps: a posting replay answers any entry of the run, so
`ReplaysAgree` leaves postings out; an emission is replayed without comparing its lines, an
acknowledgement without comparing its action; a reconciliation cannot be replayed any more once
its discrepancy was escalated, since the deadline is compared
(`postgres-accounting-reconciliation.repository.ts:193`), and one that runs beside another with
the same checksum gets a serialisation failure. A run with a share of zero is never posted, as a
line of zero breaks a constraint. Left out: currencies and entities other than one, and the
kinds of reconciliation that only migration 046 names.

### Calculations

One step, `Calculate`, computes one calculation of `Inputs`. Amounts are integers, as the
`bigint`s of the code are; a quotient of `decimal.js` is rounded half to even to `Digits`
significant digits, as there to 50 or 60. `Refused` is an error about the input, `Broken` the
code's own "invariant violated", `Crashed` an exception nobody planned. The sums over
participants are folds of the community modules.

Two functions give out the units of a total. `LargestRemainder` is `allocateProportionally`,
which divides `bigint`s: the floors, then a unit each to the largest remainders. `AllocateUnits`
is the function of that name in `moudaraba-allocation.ts`, which divides decimals of 60 digits
with ROUND_DOWN: the product and the quotient are cut off (`RoundDown`), and what is left of the
quotient above its whole part is ranked. A quotient with fewer whole digits keeps more places,
so of two remainders that are the same thirds the one with more places is larger: 11 units over
31, 1 and 1 are 10, 1 and 0, where the exact remainders, all the same, would give 11, 0 and 0.
Either is a fair answer, and `SharesAreFair` asks for no more than that: one of the two units
next to the exact share, nothing for nothing, never less for more. Of `AllocateUnits` it is
claimed as long as no product is cut off (`ProductsFit`: an amount of 30 digits on bases of 29
fits). Beyond that two different products can be cut to the same number, their order is that of
the identifiers, and a larger weight may get less; and a profit of as many digits as the
decimals can leave units to a category without members, which is the code's "invariant violated"
(excluded by `FewDigits`). The columns hold neither, the patterns of the request do.

`OnlyZeroBreaks`, a part of `AmountsAreKept`, has a cause: `Decimal.isPositive` is true of zero,
so a total capital, base or profit of zero passes the guards of `musharaka-allocation.ts:183`,
`moudaraba-allocation.ts:145`, `profit-target-solver.ts` and the consolidated ratio, and ends as
NaN, as "invariant violated" or as a SyntaxError of `BigInt`. `AnswersAreExact` names two more:
the profit target solver gives an unreachable range below zero as zero to zero, and the equity
analysis may report a spread that equals its tolerance, when the rounded rates differ by more
than the exact ones. Their difference, which that analysis rounds again, can also hide a spread
above the tolerance when the amounts have more than about half the digits of a quotient; the
property speaks of generations whose rates can be told apart (`ToldApart`). `WeightedBasis` is
the part of `CalculateWeightedParticipationBase` that depends on the convention, so that two
conventions of one account can be compared.

### CbsIngestion

`worker` is what one handling of a message knows: its manifest, the batch that registration
found, the content it loaded, the failures it saw. Each of its steps is a statement or a
transaction of its own, and `Abandon` may come between any two: the message is handled again
from `Register`, which sends it to the step that the batch's state calls for. Meanwhile
`ReplaceObject` changes the landed object and `ChangeProduct` the products. `CanMove` is the
guard `state IN (expected, next)` of every update, together with the trigger. A checksum is the
content it is of.

What the code does and the model keeps: a replay under another identifier writes its verdict on
the identifier of the payload and fails (`cbs-batch-message-handler.ts:45`); a content that
changed after the batch was SCANNED cannot be quarantined (`scan-cbs-batch.ts:23`), and the
batch stays there; so it does with two rows of one account and dates, and a validated batch
stays VALIDATED for ever if one of its accounts exists with other attributes; registration
compares only checksum and object of a replay. `quarantineInvalidRows` is accepted by the model
and may be refused by PostgreSQL (its aggregates stand in a LATERAL VALUES of their own FROM);
then it is `Abandon`. `Lasting` leaves out the one control whose answer changes by itself
between the statements that evaluate it: whether a product is published.

### Reporting

An operation on an export takes the lock of its operation and key, looks for its replay
(`Begin...`) and then writes with the export's row locked; approvals and generations share one
UNIQUE column but not the lock, so the look-up of the key is repeated by the index. `expired` is
the day after which nothing may be done any more. A report is known by its sources (`checksum`):
`ReadSources` and `InsertReport` are two connections, `ON CONFLICT DO NOTHING` keeps the first
generator. `BeginPublish` looks up the key without a lock. Kept: the replay of an approval
answers also for an expired export; generating a published report answers GENERATED; a report
may be published although its sources changed since; two publications with one key at the same
time end with one of them refused, not replayed.

### ProductGovernance

`product`, `history`, `commands` are a product's row, its transitions and answered commands,
`associated` and `arbitrations` its references, `terms` the versions of its terms. A transition
is judged on what `ReadProduct` read, outside the transaction that writes it (`SaveTransition`),
which compares only the status; the same for `ReadTerms` and `PublishTerms`. A draft that is
incomplete can be validated, and is then restored by nobody (`investment-product.ts:36`). A
second kind of one reference is dropped by migration 024, though the answer says it was
associated. No code writes the approval that retroactive terms need (`ApproveRetroactively` is
whoever shares the table), and the business date they are compared with is the caller's.
`saveTransition` asks for the references and writes the row by two statements; the `day` of the
model's history is the one it asked for, and midnight may have passed when the database dates
the transition: a product may be published on the day after its reference ended. Arbitrations of
equal priority may contradict each other. Left out: `retire`, which has no caller, and the
creation of references.

## Runs

| Run | Question | Instance |
| --- | --- | --- |
| `outbox_safety` | closed means accepted, is final; duplicates have a cause; the relay implements `EventLog` | 2 events (one unroutable), 2 workers, batches of 2, lease 1 tick, delays 1 and 2, 2 faults |
| `outbox_liveness` | a routable event is published in the end | same, batches of 1, channels do not fail |
| `inbox` | no message lost where no handler was interrupted; one effect without fault, a row that tells the truth (`InboxIsConsistent`) and stays; every copy is settled | 2 copies of a message, 1 invalid message, 2 workers, prefetch 2, 3 faults |
| `inbox_lost` | "acknowledges only after successful handling": **violated** | as `inbox`, 2 faults |
| `calculation_safety` | four eyes and certification (`ApprovalIsSound`); run, trail and journal agree and each step is decided once; one run per basis; states in order, nothing rewritten | 2 runs (one PRODUCTION) on 1 basis, 3 actors, 3 keys, 2 sessions, 1 change of the pool data, 1 obstacle at a time |
| `audit` | one chain whatever the clock does; verification reports nothing without a cause; who waits for the lock gets it or gives up | 4 events (one with an address, one with an empty session, both with a correlation id in capital letters), 2 sessions, 5 instants, 1 step back of the clock |
| `audit_stuck` | "extends the append-only chain": **violated** | 3 events, 4 instants, 1 step back |
| `subscription_safety` | no overdraft; one effect per command; a legal history, and an active contract has its operational account (`AccountIsConsistent`) | 1 account from any beginning of its opening, every command, 2 sessions, 3 keys |
| `subscription_liveness` | every request ends though each holds a connection while it waits | 2 accounts, 2 sessions, 2 keys, a pool of 2, 1 officer, 1 restriction |
| `closing` | one checker, nothing approved over blockers (`ReviewIsSound`); an approval is final; every step once and in the evidence (`StepsAreRecorded`) | 2 identifiers for a date, 2 requesters, 3 people, 2 sessions, 2 keys, 1 blocker, met at steps 6 and 18 |
| `documents` | archived means stored everywhere, forgotten only for a rival, the recorded manifest is the kept one (`StoreIsConsistent`); archived is final; the worker implements `InboxConsumer` | 2 requests, 2 documents (one infected), 2 workers, prefetch 2, 2 uploads, 2 faults |
| `back_office` | the formulas; the ledger; ingestion; exports; reports; products; terms | seven parts, below |

`back_office` explores modules whose tables are apart from each other's: its initial state
chooses one of seven parts, and only that part's actions are taken (`MCBackOffice`). Its parts
are

* the calculations, over 115 000 inputs: two or three participants, weights and amounts up to 7,
  every method, cause, policy and lever, with zero, a negative and a value on each side of every
  threshold, and quotients of 3 digits, which do not come out even for thirds, sixths and
  sevenths; for the moudaraba also 11 and 99 units over weights up to 33 (`CutOff`), whose
  products are cut off, or not, and whose remainders are ranked as the exact ones are not;
* the ledger: a profit and a loss to post, of two sessions with two keys, at most 3 entries and
  2 acknowledgements; two reversals of one entry by two people, a key used for a posting and for
  a reversal, a source, a reconciliation with and without discrepancy, two levels of escalation;
* ingestion: two batches, one of them also under the name of the other, rows that are right, too
  late, or none because the object is infected, two workers, an object that is replaced and a
  product that comes and goes;
* exports: two exports, two people, two keys, a dataset with clear data and one without;
* reports: one fact that comes and goes, two people, two keys;
* the life of a product: one that is complete or one that is not, ten transitions of three
  people, some under one key, two references that are effective on days 1 to 2 and 2 to 3 of
  three days;
* terms: four drafts that overlap in one day, in two, or not, with publications by two people,
  with and without a retroactive approval.

Why the bounds are enough. Two workers are what a lease, a takeover and a late statement
involve; a third would repeat the part of one of them. Two faults allow the longest stories the
code has two causes for: a lease that runs out and a commit whose answer is lost. The lease of
one tick lies between the delays, so a retry can come before, at and after its end; `Horizon`
exceeds both. With batches of one the unroutable event competes with the routable one for every
batch. In the inbox the third fault allows cut connection, failed effect, failed abandon, the
way a stopped worker ends. Two sessions show every conflict of two transactions; three actors
are the fewest that four eyes need, three keys one for each decision. Two runs on one basis are
what the unique index is for. Four events are a root, a link, a fork and a successor of the
fork, if there could be one; five instants leave room for a step back between any two of them.
Three keys are two concurrent commands of an account and a later one, or a repetition; amounts
of 1 and 2 against a balance of 1 are a withdrawal the account can afford once and one it
cannot; two requests exhaust a pool of two. Two keys reject a closing and approve it later;
steps 6 and 18 come before the two steps that check more than the order. Two uploads are one for
each of two requests, or two attempts of one; a connection that is cut and a lease that runs out
are the two faults with which two handlers of one request overlap. In the back office two
sessions are again what a conflict takes, two keys the reuse of one and a fresh one; three
entries are an entry, its reversal and one of another kind, two levels a step up and the top.

Deadlock checking is off only for the inbox and the archive, where the system stops once every
copy is settled and every fault is spent, and for the back office, where a calculation ends with
its result and a bounded history fills up.

Symmetry is used in the safety runs of the outbox (workers), the calculation run (actors, keys,
sessions), the subscription and the closing (sessions, keys), the archive (workers, requests),
the back office (sessions), never where liveness is checked.

### The violated runs

`inbox_lost`: `IdempotentConsumer.handle` answers `DUPLICATE` whenever it does not get the inbox
row, and `handleDelivery` acknowledges. If the row belongs to a handler that died, the broker
redelivers at once, the row is held for five minutes, and the copy is acknowledged without any
effect. `NoLossUninterrupted` shows that this is the only way: a message all of whose copies are
acknowledged has had its effect unless the broker took a copy back from an unfinished handler.

`audit_stuck`: after the clock stepped back, the event appended next has an earlier `created_at`
than its predecessor. The predecessor is still read as the last event, and every further append
names it again and fails on the unique index. Nothing can be inserted any more, so the last
event stays the same when the clock has caught up: the trail is closed for good. `OneChain`
holds all the same: the index turns what would be a fork into a refusal. In the model the append
after the step back may also come late enough; the run shows that it need not.

## Fairness

* `OutboxRelay`: weak fairness of each worker's next step (the container restarts,
  `compose.yaml:7`; the loop of `OutboxScheduler` goes on; the broker answers or the heartbeat
  of the connection cuts it) and of `Tick`. Faults are never fair and are bounded. A channel
  that fails is never reopened by the code, so the liveness run excludes it: nothing but a
  restart would help, and nothing triggers one.
* `InboxConsumer`: weak fairness of each handler's steps, of leaving and restarting; strong
  fairness of the delivery of each copy to some worker, since a delivery is enabled only while a
  prefetch window has room, and RabbitMQ serves a queue in order.
* `AuditChain`: strong fairness of `Lock` for each session, since PostgreSQL grants a lock in
  the order of the requests, and weak fairness of the end of a transaction that has the lock:
  the HTTP client gives up on a signer that does not answer.
* `Subscription`: strong fairness of a session's waits for a lock, granted in the order of the
  requests, and weak fairness of its work: a request whose turn it is goes on, and the pool's
  `connectionTimeoutMillis` runs off. Neither officers nor new requests are fair.
* `CalculationRun`, `ClosingWorkflow` and the modules of the back office have no liveness
  property: people decide when to act, and a batch of `CbsIngestion` may stay where it is, as
  said above; that `DocumentArchive`'s messages are settled is `InboxConsumer`'s.

## Proofs

`OutboxRelay_proofs` proves, for every number of events and workers and every lease, delay,
batch and fault bound:

* `TypeCorrect`: the type invariant;
* `PublishedOnlyAfterAcceptance`: `PublishedWasAccepted`;
* `PublishedStaysPublished`: `PublishedIsFinal`;
* `Refinement`: `Spec => Log!Spec`, every step is a step of `EventLog` or changes nothing it
  sees.

The assumptions are `OutboxAssumption` and `NoRecordAssumption`, which TLC evaluates in the
runs. The argument is the inductive invariant `Inv`. `PublishedWasAccepted` is not inductive:
the step that closes an event needs that a worker at `markPublished` has seen its event accepted
(`ConfirmedWasAccepted`), which needs that what it works on is what it claimed (`CurIsClaimed`).
`PublishedIsFinal` needs that a lock is only ever on a pending row (`LockedIsPending`): this is
why the guard `locked_by = worker`, which does not mention `published_at`, suffices. The
refinement also needs that only recorded events are claimed (`ClaimedIsRecorded`). `LeaseFacts`,
`SetPublishedFacts` and `SetFailedFacts` state what each statement may do to the table;
`StepInv` and `StepSimulation` go through the actions.

`NoDuplicateWithoutFault` proves `DuplicateOnlyAfterFault` for every value of the constants. Its
invariant `LeaseInv` says what is true as long as no fault and no overrun happened: nobody's
lease is over (`InTime`); each claimed record is a pending row under its worker's lease
(`HoldsLeases`), so two workers never hold records of one event (`BatchesDisjoint`) and no other
may claim it (`ClaimedIsUnlocked`); a worker has one record of an event (`OneRecordPerEvent`); a
lock belongs to somebody's batch (`LeasesAreHeld`), so a released row had no copy in flight; and
a pending event the broker has is one its worker is about to mark (`CopiesAccounted`), so the
next publication of an event is its first (`FirstCopy`).

`Archives_proofs` proves of `AuditChain` `TrailTypeCorrect`, `TrailIsOneChain` (`OneChain`) and
`ReportsHaveACause` (`BrokenHasCause`) for every number of events, sessions, instants and steps
back, from `AuditAssumption`. In the inductive invariant `AuditInv`, at most one session is past
the lock (`HolderHasLock`) and what it read as the last event is still that (`ReadIsCurrent`);
so the row it inserts is unique (`InsertedIsUnique`), also for the root, which the index does
not protect. As long as the clock never stepped back, the clock is ahead of every row
(`ClockIsAhead`) and each row follows the one before it in time (`Linked`). `HasLast` says that
a trail with rows has a last one; kept as part of the invariant, it spares an induction over
finite sets.

`InboxConsumer_proofs` proves `Consistency` (`InboxIsConsistent`), `NoLoss`
(`NoLossUninterrupted`) and `Final` (`ProcessedIsFinal`) for any messages, copies, workers,
prefetch and number of faults, from `InboxAssumption`. `NoLossUninterrupted` speaks of a message
all of whose copies are acknowledged, and says nothing of the way there. What is inductive is
`TouchedIsKept`: from the moment somebody has begun to handle a message, or is about to
acknowledge it, there is a copy that is dead-lettered or whose handler, connected, still has its
effect before it; and `HandlersAreConnected` and `HeldByHandler`, which say that a handler stays
connected and holds its copy unless the message was interrupted. An effect happens once as long
as nothing failed because of `OneHandler`: one handler at a time is at work on a message, and
the inbox row it claimed is still there. `CompletesItsEffect` gives the rest. `OwnMove` sums up
what the moves of a handler have in common, so that each invariant is shown once for all of
them.

`CalculationRun_proofs` proves `Approval` (`ApprovalIsSound`), `Trail` (`TrailMatchesRun`),
`OneRun` (`OneRunPerBasis`) and `Final` (`RecordedIsFinal`) for any runs, bases, actors, keys
and sessions, from `RunAssumption`. What a session checked must still hold when it commits: at
most one session holds the lock of a run (`OneHolder`), and what it checked is still true
(`ChecksHold`), the obstacles excepted, which nobody locks. With it, `Books` is inductive: the
columns of a row are filled step by step (`RowsAreFilled`), and rows, actions and journal
entries agree. Steps are of two kinds: `Quiet` ones, which leave runs, actions and journal
alone, and the five commits, of which each writes one row.

`Subscription_proofs` proves `AccountsAreConsistent` (`AccountIsConsistent`) and
`KeysAreAnsweredOnce` (`OneEffectPerCommand`) for any accounts, sessions, keys and requests,
from `SubscriptionAssumption`. The row lock is exclusive (`OneHolder`), so what a session read
under it is still in the row when it commits (`ReadIsCurrent`), and what it has written was
permitted by that row (`WrittenIsPermitted`). A legal history is then inductive with two facts
about rows: terms are accepted by an event (`AcceptedByEvent`), and a row that exists has a
status (`RowsExist`). `KeysHaveEffects` names the one event of an answered key, which spares
counting. `RecordHistory` and `RecordKeys` show both for the statements that commit together,
once for the creation and the commands.

`AccountsAreNeverOverdrawn` (`NeverOverdrawn`) is about a sum over a history. It is inductive
with one fact more (`Funds`): while a session has decided on a withdrawal and holds the row of
the account, the balance still covers it (`Covered`), since whoever appends to a history holds
the row. The balance of a longer history is that of the shorter one and the last movement.

`ClosingWorkflow_proofs` proves `ReviewsAreSound` (`ReviewIsSound`), `StepsAreOnRecord`
(`StepsAreRecorded`) and `ApprovalIsFinal` (`ApprovedIsFinal`) for any closings, dates, people,
keys and sessions, from `ClosingAssumption`. As for calculation runs, the lock of a closing's
row has one holder (`OneHolder`) and what the holder checked stands until it commits
(`ChecksHold`). `Books` says of each closing what its row, its reviews, its step events and its
evidence package have to do with one another, as four formulas over these values (`Reviewed`,
`Controlled`, `Stepped`, `Evidenced`), so that a commit is shown for the closing it writes and
for no other. A package may be older than the last reviews, so `Evidenced` says only that its
trail is part of them.

Of `DocumentArchive` it proves `StoresAgree` (`StoreIsConsistent`), `ArchiveIsFinal`
(`ArchivedIsFinal`) and `WorkerImplementsInbox` (`ImplementsInbox`) for any messages, copies,
documents, workers and faults, from `ArchiveAssumption` and `NoneAssumption`. Handlers of one
message overlap and outlive their process's connection, so nothing can be said of who is at
work; what is inductive is what an attempt has reached (`AttemptKept`), and that nothing it
relies on is taken back (`Later`): documents of Paperless, objects of WORM, references and
archived requests stay. `ReferenceKept` is the heart: the request that wrote a reference is
archived, because the row that is updated is joined with the row that is inserted. So a request
that finds a reference and is not archived has a rival (`EffectKept`). `Assemble` shows that a
step keeps the invariant when it keeps it of what it changes; `LoopStep` and `EffectFacts` go
through the steps of `InboxConsumer`, which the refinement needs as well.

`Ledger_proofs` proves of `Accounting` `LedgerStaysConsistent` (`LedgerIsConsistent`),
`AcknowledgementsStayInOrder` (`AcknowledgedInOrder`), `DiscrepanciesStayFollowed`
(`DiscrepanciesAreFollowed`) and `LedgerReplaysAgree` (`ReplaysAgree`) for any runs, shares,
requests and sessions, from `LedgerAssumption`. Rows are inserted at the end of a table and only
the status of an entry is ever written again, so what an entry, a reconciliation or an answer
says of the rows it stands on stays true (`EntriesAreSound`, `ReconciliationsAreSound`,
`LedgerAnswersAreSound`); each row was announced by one event (`EachAnnouncedOnce`). That the
entry of a run gives every participant their share is a lemma about `AllocationLines`, where the
amounts lose their sign: lines that balance have amounts that all had the sign of the result.
That a reversal undoes its entry is one about sums, line by line.

Of `CbsIngestion` it proves `IngestionStaysConsistent` (`IngestionIsConsistent`) from
`IngestionAssumption`: manifests, contents and products may be any. Workers go through the same
batch in any number, and what each of them has established stays true (`WorkersAreSound`),
because the key, the rows and the verdict of a batch do not change once they are there, and its
issues are only added to (`BatchesKept`).

Of `Reporting` it proves `ReportingStaysConsistent` (`ReportingIsConsistent`): `ExportLives`
derives the events and intents of an export from its row, `ExportKeysAreUnique` is what the two
UNIQUE columns give, and `SessionsAreSound` says what a session that looked for a replay may
still rely on, which under another lock is less than it looked for.

`Products_proofs` begins with the facts about sums that these proofs share. The operator
`SumFunction` of the community modules is defined by recursion and the prover has no induction
over data; but the least number of a set of numbers exists (`LeastNumber`, from the well-founded
order), so a set that holds 0 and every successor is all of Nat (`EveryNumber`), and a family of
subsets of a finite set that holds a subset as soon as it holds what is left of it without any
one element holds the whole (`EverySubset`). A statement is proved by naming the set of
arguments for which it holds. `SumIs` shows in that way that the recursion defines a function,
`SumWithout` that the order of its choices does not matter.

Of `Calculations` it proves, from `CalculationsAssumption`, for any inputs, numbers of
participants and amounts:

* `SharesStayFair` (`SharesAreFair`): the floors leave no more units than there are remainders
  greater than zero, because the remainders add up to as many times the sum of the weights; the
  units go to as many participants, since ranks are the numbers from 0 on, each taken once.
  Where quotients are cut off, a quotient has the whole units of the exact one (`ShareIs`), a
  larger weight is cut to a larger number (`ShareOrder`), and a remainder that is cut to nothing
  was so small that the others still are as many as the units left over (`CutLeftOver`), as long
  as the products are not cut off (`UnitsFairly`). Fixed category keys are this twice;
* `AmountsStayKept` (`AmountsAreKept`): the parts add up, and a calculation breaks only on a
  zero divisor. The hard part are the two ownership ratios, each rounded on its own to `Digits`
  digits: `Kept` says how many places a quotient keeps, so each is within half a unit of its
  last place, two that should make one are within 50 units of 10^-`Places` of it
  (`RatiosMakeOne`), and their sum, rounded again, is one (`OneAgain`). The shares of a loss by
  these ratios never exceed it (`LossIsSplit`), so what `splitUnits` has left over is not
  negative, and no unit is made;
* `DecisionsStayExact` (`DecisionsAreExact`): targets, quotations, stressed values and the
  displaced commercial risk are decided as the exact numbers demand. The last two are rounded
  half away from zero first; `HalfUpIs` bounds what that can be off, `StressIsExact` shows that
  no stressed value becomes negative by it, and `DcrIsExact` that the limit moves by half a unit
  of the ratio and no more;
* `AnswersStayExact` (`AnswersAreExact`): the decisions, and four more answers. A loss borne by
  capital is truncated from two products with rounded ratios, and the unit left over goes where
  the fraction is larger: the products keep the order of the capitals and are within a tenth of
  a unit of the exact shares (`ProductsInOrder`, `ProductOfCapital`), so each truncated share is
  within a unit of the exact one, and so is the share that gets the rest (`RestGoesFairly`,
  `MusharakaIsFair`). The minimum of a period is not above its average although the average is
  rounded, since rounding is not below any whole number it starts above (`QuotientNotBelow`).
  Two decimal strings are read to a common unit without losing a digit and their difference is
  written back to it (`DigitsAddUp`, `ZerosDrop`, `ReadExactly`, `WrittenExactly`). Two rounded
  rates differ from the exact ones by a known part of their denominators (`DifferenceNear`), so
  exact rates further apart than tolerated are so much further that the second rounding does not
  hide it (`FarAbove`, `RoundedDown`), and a spread below the tolerance is not rounded above it,
  which is a multiple of a tenth (`NotAbove`, `ToleratedStays`);
* `LossesFollowTheCascade` (`LossFollowsCascade`), and `MoudarabaNeverBreaks`, the part of the
  second about `allocateMoudarabaProfit`.

`CalculationsAssumption` states the patterns and columns the inputs pass through (rates, bases
and capitals are not negative, buckets increase) and that an amount has fewer digits than a
quotient keeps (`FewDigits`; so have twice the capital of a partnership and the sum of the
balances of a period, and the sum of the bases a moudaraba profit is divided by): the columns
have at most 38 digits, the quotients 50 or 60, which is more than two (`Digits > 2`, so that
the ten tenths of a nisba or of the keys have few). Without it a profit of 10^50 units could be
split into more than there is. `ToldApart` is no assumption but a condition inside the property,
for it is not true of all columns: a hundred times the products of amounts and bases must fit in
a quotient, which with 50 digits are amounts of 23 digits. What the analysis reports of longer
ones is not claimed.

Of `ProductGovernance` it proves `ProductsStayConsistent` (`ProductsAreConsistent`) and
`TermsStayConsistent` (`TermsAreConsistent`), from `ProductsAssumption`. A step is judged on a
row that was read earlier and compares only the status when it writes. What makes that enough is
`ReadingsAreSound`: a product that was read in another status than DRAFT has not gone back to
it, and its validator is the one that was read, since nobody validates it again. So the history
of a product is a legal life that ends in its row (`LivesAreLegal`), with one command per step
(`StepsHaveCommands`), which is a statement about cardinalities. For terms, `VersionsAreCounted`
and `PeriodsAreApart` are kept by the conditions of the statements that write, and
`DraftsWereRead` says that a publication has read a draft of somebody else.

Only model-checked: liveness under fairness (`EventuallyPublished`, `EventuallySettled`,
`LockIsGranted`, `EverySessionEnds`), which is outside the prover. Every invariant and every
action property of a run is a theorem.

## What is left

In the order in which it would add most:

1. `EventDelivery`, composing `OutboxRelay` and `InboxConsumer`, with the abstract promise that
   a recorded event has its effect; then a run whose message is dead-lettered, which can neither
   be executed nor initiated again.
2. The life of exceptions and compliance reviews, should they get more than one guarded
   statement each.

## Not modelled

* Exception centre, compliance reviews: one row with a maker and a checker, by the pattern of
  `CalculationRun` and `ProductGovernance`; the other models keep what they read of them
  (`obstacles`, `critical`, the facts of a report).
* Pooling, revenue, reference data, certification: single statements guarded by constraints of
  the database; their result is an input that changes (`ChangeInputs`, `Certify`).
* Dashboards, forecasts, authorization, tokenization clients, HTTP controllers, generated
  clients, deployment: no state or concurrency of their own to get wrong.
* Whether PostgreSQL accepts a statement at all. Beside `quarantineInvalidRows` this concerns
  the intents written with `jsonb_build_object` from parameters without a type (of postings,
  reversals, reconciliations, accounting events, archive requests and exports, for example
  `postgres-accounting-posting.repository.ts:102`), whose types the server may not be able to
  determine. The models describe what these statements do if they are accepted; where they are
  not, the transaction is the rollback that the models have anyway.
* Within the modelled parts, what their sections name as left out. `PROJECT.json` gives the
  reason for each component.
