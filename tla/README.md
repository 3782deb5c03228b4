# A TLA+ model of TenderGuard

TenderGuard (`src/src/tenderguard`) prepares bids for construction tenders: it
takes in tender documents, builds a bill of quantities (BoQ) from them, prices
it, calculates the bid and releases it through gates that several people must
pass. It is a FastAPI application over PostgreSQL (READ COMMITTED). Every command
is one database transaction; work that leaves the database is handed over through
a transactional outbox and through leases.

This directory models the parts where the order of transactions or people matters: commands with
their idempotency keys and audit chains, the outbox, quarantined uploads, the integration inbox and
outbound delivery, the life of a project from its first document to its release, and, each in
a module of its own, the records that an estimate is made of and the people who must agree to them.
`PROJECT.json` lists components, runs, hazards, theorems, findings and, for every
definition, the lines that it stands for.

## 1. Inventory

| Component (source) | State it keeps | Operations | What is hard | What makes it correct |
|---|---|---|---|---|
| Outbox (`application/outbox.py`) | `outbox_events`: attempts, lease, availability, published / dead-lettered | enqueue, claim, acknowledge, reject | two dispatchers, crashes, expired leases, late results | handled before published; justified dead letters; one holder; final verdicts; every event settles |
| Upload quarantine (`quarantine.py`) | `quarantined_uploads`, scan records | receive, record scan result, requeue | replay against stale evidence | one unresolved upload per document |
| Document processing (`document_processing.py`, `document_jobs.py`) | processing lease and attempts; document revisions | claim, complete, record failure, dead-letter | two leases, a deadline, four transactions per delivery, crashes between them | one revision per upload; open uploads have an open event |
| Integration inbox (`integrations.py`) | messages, processing generations, handler binding | receive, claim, acknowledge, reject, replay | concurrent duplicates on two unique keys, deadline inside the lease, expiring qualifications | receipts do not contradict each other; one open generation |
| Outbound delivery (`integrations.py`, `http_json.py`) | outbox rows, delivery evidence | dispatch, settle, replay | lost and late answers | published means stored remotely; evidence agrees with the verdict |
| Project workflow (`projects.py`, `domain/workflow.py`) | project state, row version | transition, release, rework | gates guard transitions, not states | what is released belongs together |
| Document sets (`projects.py`) | revisions, sets, the confirmed set | register upload, register revision, confirm | reception and processing are apart in time | confirmed set = current revisions; four eyes |
| Stage gates (`stage_gates.py`) | none (reads) | passport, BoQ, scope, price, contract, risk blockers | records bound to another set | see release |
| BoQ, passport, contract, risk, pricing, calculation | current records and snapshots | submit, verify, correct, evaluate, execute | corrections after a gate | a calculation uses what belongs to its set |
| Release (`domain/release.py`) | release decisions | evaluate, attempt | state that changed since | frozen after a bid release |
| Final review (`final_review.py`) | rework requests | request | the project may move on | rework leads to a new calculation |
| Idempotency (`idempotency.py`) | one record per key with the request hash and the stored response | acquire, complete, replay | two requests with one key; a first one that rolls back | one effect, one response |
| Audit chain (`projects.py`, `domain/audit.py`, `audit_integrity.py`) | hash chain per aggregate, checkpoints, receipts | append, verify, checkpoint, register receipt | concurrent first events, a last event that is stale after the wait for its lock, rows cut out behind the program | no gap, no fork; a valid anchor proves every event it covers |
| Memberships (`projects.py`) | one history per principal | grant, revoke | two owners remove each other | a project keeps an owner |
| Approvals (`approvals.py`) | tasks, records | plan, decide, supersede | a page opened before a replacement | four eyes; an approval survives no replacement of a confirmed set |
| Governance (`governance.py`) | versions, bindings, their audit events | create, approve, bind, activate | drafts that change under the approver | rows and events tell one story |
| Rework automation (`automation_rework.py`) | dispatches, commands, findings | claim, dispatch, settle | crash or overrun between three transactions | one command or finding per request |
| Evidence (`evidence.py`) | observations, tasks, conflicts | record, decide, reconcile, resolve | replacement between conflict and resolution | a verified value is justified |
| Passport, contract, risk (`passport.py`, `contracts.py`, `risks.py`) | revisions, reviews, approvals, reserve | submit, decide, propose, finalize, calculate | revisions that supersede each other, triggers that refuse updates | what a gate takes was reviewed by somebody else over the current set |
| Pricing (`pricing.py`) | match, quotes, normalized prices, decision, RFQs | assess, propose, record, normalize, evaluate | a decision outlives what it rests on | the verdict reproduces; origins are independent |
| Quantities (`boq.py`) | proposals, lines, quantities, changes | propose, decide, create, verify, record, change, apply | each change must continue the one before | an unbroken chain of reviewed changes |
| Cost models, scenarios (`commercial_costs.py`, `scenarios.py`) | models, findings, snapshots | propose, decide, finalize, calculate | superseded reviews | a snapshot fixes a validated model |
| Sums (`domain/calculation.py`, `risk.py`, `commercial_costs.py`, `scenarios.py`) | none | two paths for each amount | rounding in different orders | the paths differ by a unit at most; an accepted amount is the exact one, rounded |
| Actuals (`actuals.py`) | actuals, variances, examples | record, compare, decide | a new fact under an old review | nobody judges what they contributed |
| Business qualification, gate evidence | campaigns, references, packages, revocations | prepare, register, evaluate, review, approve; submit, review, revoke | independence over many steps; no common lock | what a release relies on was reviewed by others |
| Exports (`exports.py`, `lineage.py`) | objects, artifacts | generate, verify | state that moved after the release | a package says what its release saw |
| Recovery (`recovery_verification.py`) | backups, restored copy | verify | two stores backed up at two moments | a passed restore is complete |
| Rate limits (`rate_limits.py`) | buckets | consume | a window that ends while a request waits | nobody is served beyond the quota |
| Market research, file parsing, object store, API, CLI, web, migrations | none of their own | I/O and views | - | - |

**How they interact.** A command locks the project row and writes audit and outbox
rows in its own transaction. A clean scan verdict inserts a
`document.upload.scan-clean` event; a document dispatcher delivers it to the
processor, which calls `register_scanned_document_revision` on the project. A
rework request inserts an event for the rework dispatcher. Project events go to
external systems through the integration dispatcher; their messages come back
through the inbox.

## 2. Modules

| Module | Models | State in the code |
|---|---|---|
| `OutboxEvent` | the row of a leased, retried piece of work and what each transaction makes of it (operators and lemmas about them, no variables) | `outbox_events` columns; the same columns of inbox processings |
| `OutboxDelivery` | dispatcher processes on the outbox | `outbox` = rows, `claim`/`outcome` = memory of a process |
| `DurableDelivery` | the abstract promise of a delivery | - |
| `OutboxDeliveryProofs`, `DocumentPipelineProofs`, `IntegrationDeliveryProofs`, `CommandLedgerProofs`, `ProjectLifecycleProofs` | theorems about the module each is named after (section 4) | - |
| `DocumentPipeline` | scan, dispatcher and processor of uploads | `upload`, `outbox` = rows; `job` = memory of a process; `registered` = revisions |
| `UploadLifecycle` | the abstract life of an upload | - |
| `IntegrationInbox` | reception and handlers | `inbox`, `processing`, `handler` = rows; `call`, `claim` = memory |
| `IntegrationDelivery` | dispatcher, network and receiver | `outbox`, `attempts` = rows; `wire`, `stored`, `receipted` = network and receiver |
| `CommandLedger` | mutating commands as interleaved transactions: idempotency, row locks, audit chains | `records`, `events` = committed rows; `request` = the open transaction of a thread; `answers` = responses sent |
| `SerialLedger` | the abstract promise: one command after another | - |
| `ProjectCommands` | what four handlers lock and append, in their order | - |
| `Workflow` | approval states and transitions | `domain/workflow.py` |
| `ProjectLifecycle` | documents, BoQ, attestations, gates, calculation, release | one project and its current records |
| `ProjectAccess` | memberships of one project | `members` = membership rows; `change` = the open transaction |
| `Approvals` | tasks, decisions, uploads, supersession | `tasks`, `records`, `uploads` = rows; `pages` = what an expert has open |
| `Governance` | controlled versions and bindings | rows with the events of each; `reviewing` = an open approval |
| `ReworkDispatch` | the handler of the rework outbox | rows; `holding` = memory of a worker |
| `BusinessQualification`, `GateEvidence` | campaigns; evidence packages | rows; `reviewing`, `releasing` = open transactions |
| `Exports` | release, package, lineage, verification | rows, `objects` = object store, `events` = audit chain |
| `Evidence` | observations of one field | rows; `conflicts` by the pair that disagrees |
| `Passport`, `ContractTerms`, `RiskRegister` | revisions of facts, of one term, of risks | sequences of rows, the last one current |
| `Prices` | one market item | current match, quotes, normalized prices, decision, RFQs |
| `BoqQuantities` | one imported row | proposals, line revisions, quantities, changes, uploads |
| `CostModels` | one commercial component | models, findings, snapshots, scenario runs |
| `CostArithmetic`, `Decimals` | sums computed twice; decimal floating point | `sum`, `mode` = input; `result` = stored evaluation |
| `Actuals` | actual, variance, example of one key | rows of the three tables, tasks, approvals |
| `AuditAnchors` | checkpoints and receipts | chains, manifests, receipts, keys |
| `Recovery` | backup, restore, verification | rows, object store, both backups; `exercise` = the manifest of the operator |
| `RateLimits` | quota counters | `buckets` = rows; `calls` = open transactions |
| `Oversight` | memberships, versions, approvals, rework, campaigns, gate evidence, actuals, quotas, anchors and restores as one specification: a behaviour is one of the components | `part` says which one runs |
| `OversightProofs` | theorems about the ten components and about `Oversight` | - |
| `Records` | evidence, terms, risks, passport, prices, quantities, cost models, sums, packages and inbox messages as one specification, in the form of `Oversight` | `part` says which one runs |
| `RecordsProofs` | theorems about nine of these ten components (the sums excepted), about `IntegrationInbox` and about `Records` | - |
| `MCLifecycle` | several instances in one run (section 3) | - |
| other `MC*` | instances for TLC | - |

`OutboxEvent` is extended by all three delivery modules: the inbox and the document
processor use the same protocol, and a row there differs in names only. The model of
time is relative: a lease has `left` seconds, a rescheduled row a `delay`, and `Tick`
takes one second from all of them.

**Transactions.** One action is one committed transaction, because each locks the row
or project that it decides on (`FOR UPDATE`, `SKIP LOCKED`). Between two transactions
of a process anything may happen; what the process remembers is in `claim` or `job`.
A crash forgets it. `receive` of the inbox reads before it inserts and takes no lock
in between, so there it is two actions (`LookUp`, `Store`).

**Commands.** What the other modules take as one step, `CommandLedger` takes apart. A transaction
executes the statements of its handler (`ProjectCommands`) one by one. `Blocks` says for whom
a statement waits: a reservation for an uncommitted one of the same key, a row lock for its holder,
`FOR UPDATE` on the last audit row for whoever locked it, an insert for an uncommitted
row with the same number. A `SELECT ... FOR UPDATE` sees what was committed when it began and
does not look for a newer last row after its wait; the unique constraint on the
sequence number then makes the transaction fail with 409 (`Collide`). Because the reservation, the
effects and the response commit together, no `PENDING` record is ever committed: a second
request waits, and the answer "still in progress" of `acquire` does not occur. A transaction that
is rolled back leaves no reservation. Workers lock an upload and then its project
(`_complete`), an administrator who requeues an upload locks them in the opposite order;
PostgreSQL resolves the deadlock (`DeadlockVictim`), and the property `AttemptsEnd` depends on
that. `ImplementsSerialLedger` is what justifies single steps elsewhere: seen from the committed
chains, transactions happen one after another.

**Project requests.** Every handler of the project locks the project row before it
reads anything else, except `record_scan_result`, whose action (`Reject`) neither reads
nor writes the project. So one request is one action and row versions are
not modelled. A document revision is identified with the upload it comes from, a document
set with its manifest, a BoQ line with its quantity. Passport, contract, risk reserve, scope
evaluation and the price of one market item are `attested` parts: what matters of them
is the document set and the BoQ line they are bound to, and whether they are current and
verified. A submission (`SubmitFact`, `SubmitTerm`, `SubmitRisk`) withdraws the verified record; a
decision (`DecideFact`, `DecideTerm`, and for risks `CalculateReserve`, which stands for the
decisions on the items and the reserve over them) binds a new one. All documents are critical. The further conditions of a release (approvals, governed
versions, qualifications) are the parameter `othersAllow`.

**People and records.** The remaining modules each take one record type with everything
that decides over it. A command holds the project row, so it is one action; where code loads
first and commits later without a lock (`GateEvidence`, approval pages, the approvers of
`Governance`, the two upserts of `RateLimits`), the two are two actions. The integrity replays of the services
(`_require_..._integrity`) are operators over rows, tasks and approval records, with the conditions the
code checks in its order; hashes are equality of what is hashed.

**Uploads and replacements.** The set that an upload will invalidate is captured when the upload is
received (`register_quarantined_upload`), and the project has no current set from then on. What is processed
later therefore invalidates the captured set, or, if none was confirmed at the reception, nothing. `ProjectLifecycle`,
`Approvals` and `BoqQuantities` have both outcomes: `ReceiveUpload` captures, `ReplaceDocument(s)` invalidates and
`AddDocument(s)` does not, so a task that was approved over an older set stays approved beside a newer one, and the release
counts it (`projects.py:1740-1847` compares no set). Their properties therefore speak of the last *replacement* of a confirmed set,
never of the current set. In the other modules of records `ReplaceDocument` is the replacement of a captured set, which does
what `_invalidate_derived_records` does to that record, and `ConfirmSet` the confirmation that follows: an uncaptured upload
would leave their rows as they are, and the gates over facts, terms, risks and prices compare the set of a record with the
current one themselves.

**Triggers and time.** Update triggers of the migrations are operators of the module of their table (`...ChangeAllowed`,
`UpdateAccepted`); a refused update rolls the command back where the code would meet it (`ContractTerms`,
`RiskRegister`, with `guarded` saying whether the database has triggers; SQLite has none) and is shown never
to be tried elsewhere (`HistoriesAccepted`). In `Exports` an instant is a position of the audit chain,
since every command of a project is stamped under its lock; `Recovery` and `AuditAnchors` count hours and moments.

**Decimal numbers.** `Decimals` computes as Python's `decimal` does: coefficient and exponent, exact result,
then one rounding half to even to `Digits` digits. The program has 28 digits; TLC's integers have 31 bits,
so the run uses 4 digits and amounts of two or three digits that lie near ties of the rounding. What the
run looks for is a disagreement of two orders of evaluation, and that occurs at any
precision; the amounts at which it occurs differ.

Definitions headed `Mutant` are not part of any specification. Each is a plausible slip in
one operation; replacing the operation by it makes TLC find the property that
guards it violated.

## 3. Runs

| Run | Question | Bounds |
|---|---|---|
| `outbox` | Are events handled before they are published, settled only by the owner of a live lease, and in the end all settled? | 1 event, 2 processes, 4 tokens, 3 attempts, 3 faults |
| `pipeline` | Is one revision made of an upload, is no open upload without an open event, and does each end? | 1 upload, 2 generations, 2 scans, 2 processes, 2 attempts, 2 faults |
| `inbox_reception` | Do receipts of concurrent receptions agree, and is what they stand for stored and processed? | 2 keys, 2 ids, 2 contents, 2 receivers, 1 handler, 2 qualifications, 1 fault |
| `delivery` | Does "published" mean "stored by the receiver", and does the evidence agree? | 1 key, 1 replay, 2 processes, 2 attempts, 2 faults |
| `lifecycle` | Does the confirmed set stay the set of current revisions, do stale prices stay out of calculations, does what is released belong together, and is it frozen? | either 2 documents, 3 uploads, 2 people, only prices attested, clean files; or 1 document, 2 uploads by one submitter, every gate |
| `commands` | Does a retried command take effect once, do the audit chains verify, are transactions serial as the chains show them, and does every attempt end? | 3 threads, 1 key, 2 commands of the API and 2 of workers, 2 chains, workers start below 2 events |
| `oversight` | Do memberships, versions, approvals, dispatched rework, campaigns, gate evidence and actuals keep people independent and effects single; are quotas kept, and are anchored chains and restored copies complete? | 3 people and 3 members, 2 versions or builds, 2 rework requests with 2 workers, 2 experts, 2 uploads and 3 stamps of approval tasks, 2 policies, 5 people in a campaign of 2 cases, 2 actuals, 3 requests of 2 callers, 2 audit chains with 3 moments, 3 hours of recovery with 1 hour of loss and 1 of restoring allowed, 2 snapshots, 1 derived record, 2 document sets |
| `records` | Is what was derived justified by independent, current records, do packages say what their release saw, and do verdicts on inbox messages stay? | 3 people, 2 document sets, 2 uploads and 1 line of the BoQ, 2 policies, 2 or 3 revisions of each record, 4 digits, 4 rounding modes |
| `inbox_retry` (violation) | Is the retry of inbox messages bounded? | 1 message, 2 handlers, 3 faults |
| `lifecycle_stale_boq` (violation) | Is a calculation made over the BoQ of its document set? | the first instance of `lifecycle` |
| `lifecycle_rework` (violation) | Is a snapshot out of use once rework was requested? | 1 document, 1 upload |
| `contract_proposal` (violation) | Does the proposal of a cost impact plan its task? | 3 people, 2 policies, 3 revisions |

**Several components in one run.** `MCLifecycle`, `Oversight` and `Records` instantiate several
modules. The components share no state but the document set, so a behaviour chooses one of them at
the start (`part`) and the variables of the others stay `Off`: the states are the sum, not the product, of those of
the components. A property of such a module is a conjunction of implications, each with the invariants
of one component; its type invariant is among them. Likewise `UploadStands`,
`ReceiptStands`, `DeliveryStands` and `ChainsStand` join the invariants that stand or fall
together, each conjunct under its own name and comment. The type invariant of `ProjectLifecycle` is proved
(`LifecycleTyped`) and not a property of a run.

| Property | Conjuncts |
|---|---|
| `ReliedOnStands` | `GovernedContentVerifies`, `ReleasedOnReviewedEvidence` |
| `CampaignStands` | `PassedIsIndependent`, `PassedCampaignVerifies` |
| `StatementsStand` | `DerivedIsJustified`, `TermStands`, `ReserveStands`, `PassportStands` |
| `LearnedIndependently` (of `Oversight`) | `LearnedIndependently` and `LinksHold` of `Actuals` |
| `CostsStand` | `PriceStands`, `QuantityStands`, `ModelStands`, `ExportStands` |
| `SumsAgree` | `SumsStand` |
| `OneGenerationIsOpen` | `OneOpenGeneration` of `IntegrationInbox` |
| `HistoriesAccepted` | `OwnersAppend`, `VersionsChangeLegally`, `TasksChangeLegally`, `CampaignChangesLegally`, `ActualsChangeLegally`: the triggers of the five tables |
| `VerdictsStay` | a settled generation of an inbox message only ages |

**Why the bounds are enough for the questions.** Two processes are what it takes for one to
overtake another; a third would repeat the part of one of them. Rows of different
events share nothing but the processes and the freshness of tokens, so one event shows the
protocol, and the theorems hold for any number. The faults let a process lose its claim once
while another works and once more when it retries; with two or three attempts they reach
the exhausted budget and the last delivery. `AttemptCap` stops counting above the budget:
no decision depends on how far above it a counter is. Tokens are drawn from a set that is
larger than the number of tokens that can be remembered at once (`EnoughTokens` in `MCOutboxDelivery`;
elsewhere `TokenAssumption` says so and TLC evaluates it). Three uploads on two
documents are the least that let one upload become current without having captured
the set it replaces; two uploads are the least for a replacement. The first instance of `lifecycle`
explores only the way to the calculation, with only prices attested
and clean files (`PricingOnly`), since documents and prices do not read the
other parts; the second explores all parts. In `oversight` and `records` three people are an author, a
reviewer and somebody independent of both; a campaign needs five, since the author of the campaign, whoever
calculated each of its two cases, the preparer of a reference and a reviewer may all differ. Two document sets are one
step to a newer set, by a replacement or without one; with two uploads in `Approvals` the two follow each other in both
orders. What a second replacement does to marks of the first (its triggers refuse it, `ContractTerms` and
`RiskRegister`) is described below and not reached by a run. One line of the BoQ leaves chains over a second line to the
proof, which holds for any number. Two or three revisions let one be superseded while its review
waits. The three hours of `Recovery` let a calculation be fixed one hour too early or just in time for a recovery
point, a point be declared before, at or after the moment of the backup, and a verdict come within the allowed time or
late; what breaks in a restore is one thing at a time, a missing object, a defect of the environment (two stand for the
seven kinds, which differ in nothing but the check that finds them) or a false declaration.
`CostArithmetic` enumerates its inputs, chosen around ties of the rounding and, for `ROUND_UP` and `ROUND_DOWN`, at
exact amounts, where an error of the last digit costs a whole unit.
`oversight` has 1,173,408 distinct states, `records` 1,393,249. Symmetry is declared only where no
liveness is checked.

In `commands` the three threads are two that compete and a third that waits behind both; with
one key, two of them can repeat or contradict a request while workers, which have no key, append to the
same chains. The bound on events keeps workers from starting for ever; a transaction that has started
is never cut off.

`CHECK_DEADLOCK FALSE` appears in the `Lifecycle*`, `Oversight`, `Records` and `ContractProposal` configurations only: an archived
project, a settled campaign or a record at its last bounded revision is at rest.

**Fairness.** In `outbox`, `pipeline`, `inbox_reception` and `delivery` time passes, a
process that works goes on, and idle processes claim infinitely often: the
deployment runs `dispatch_next` in loops and schedules it again after a crash. Claiming is strongly fair because
a process may be busy whenever a row is claimable. The number of crashes and overrun leases
is finite (`MaxFaults`): under endless crashes nothing is promised, and a message whose
handlers always crash is the subject of `inbox_retry`. Excepted from `GenerationsSettle` is a generation that was
claimed under a qualification which ran out: the code gives it to no other handler. In `commands` the steps of a thread are strongly fair, since PostgreSQL serves
its lock queues in order; arrivals and rollbacks are not fair. Nothing makes people, the scanner or the
network act. `ProjectLifecycle` and the modules of
people and records have no fairness and no liveness property: their steps are people's.

### What the violation runs show

- `lifecycle_stale_boq`: which set an upload invalidates is decided when it is received. If
  no set was confirmed then, its processing invalidates nothing; a BoQ that was verified
  in between for the older set stays verified, and the calculation, which verifies the
  set of each price again but not that of the lines, is fixed for the newer set.
- `lifecycle_rework`: the release looks at the latest snapshot. A project sent back to the
  pricing may return to the expert review by an ordinary transition, and the snapshot whose
  rework was requested is released.
- `inbox_retry`: the attempts of an inbox message are compared with the budget only when a
  handler rejects it, so crashing handlers retry without bound.

- `contract_proposal`: the proposal inserts a revision of the term and, in the same transaction, completes
  its payload without moving `updated_at`. The history trigger judges statements, not transactions,
  and refuses the second one. On SQLite, where the tests run, there is no trigger.

### Further disagreements the models meet

These follow from the modelled code and are not runs of their own; the modules take the code as it is.

- A second replacement of a document marks terms and risks that the first one marked. Their triggers
  let an invalidation add keys and not change them, so on PostgreSQL it fails
  (`projects.py:1402-1434`; `docs/architecture.md:179-181` expects it to block the project).
- The replacement supersedes the task of an open evidence conflict; the conflict stays open, cannot be
  resolved and is not planned again (`projects.py:1450-1461`, `evidence.py:1142-1169`).
- An applied critical quantity change must have an approved task at every release, and a
  replacement supersedes all tasks: the change blocks every later release (`projects.py:1740-1847`).
- An imported row with a quantity proposal cannot be read after a replacement (`boq.py:2622-2687`).
- A cost model whose review was superseded can be neither finalized nor replaced for the same
  target, and the gate waits for it (`commercial_costs.py:150-170`, `336-360`).
- The first path of the risk reserve computes p * (sum / 3) (`domain/risk.py:181`), the second p * sum / 3
  (`risks.py:1575`); at a tie of the last digit (p = 0.03, sum = 550) they differ and a correct register is
  refused. The legs of a transport and the days of an interest differ in the same way, and under `ROUND_UP` and `ROUND_DOWN`
  already at an exact amount. That every correct input is accepted does not hold, so `SumsAgree` does not say it.
- An upload that was received while no set was confirmed supersedes no approval when it is processed: approved tasks,
  quantity changes among them, still count at the release of a newer set (`projects.py:547-549`, `648-655`, `750-754`,
  `1740-1847`). `ApprovalsAreCurrent` and `QuantityStands` say what remains: nothing approved before the replacement of a
  *confirmed* set counts after it.
- The moment a database was restored to is what the operator declares (`recovery_verification.py:200-221`); no check compares it
  with the backup. A point that is declared too late passes, and only the golden calculations are then known to be there.
  The start of the restoration, from which the recovery time is counted, is declared in the same way.
- A request whose rate limit window ends while it waits for its row is answered with 503
  (`rate_limits.py:63`, trigger of `fa2c5d7e9014`).
- The recovery verifier replays the approvals of old snapshots, which a later replacement superseded: a
  healthy copy fails (`recovery_verification.py:678-737`).
- A release reads gate evidence and commits later; a revocation in between is not seen.
- A task that is decided or superseded after a release blocks its export (`exports.py:733-738`), and a
  version that is bound after it makes the snapshot stale for the export.
- Gates are not evaluated again when a `BLOCKED` project resumes; a replay may take the
  dead letter of an earlier generation as its evidence.

## 4. What is proved

TLAPS proves the following for all values of the constants that the named assumptions admit. The runs evaluate
every assumption. No theorem depends on the bounds of a run, and none uses fairness.

| Module | Theorems (properties of runs first) |
|---|---|
| `OutboxDeliveryProofs` | `TypeOK`, `PublishedWasHandled`, `DeadLetterJustified`, `LiveLeaseIsExclusive`, `OnlyOwnerSettles`; final verdicts; `Spec => Promise!Safety` |
| `DocumentPipelineProofs` | `RegisteredOnce`, `UploadStands`, `CompletedUnderLease`, `LiveUploadKept`; the steps of `UploadLifecycle` |
| `IntegrationDeliveryProofs` | `DeliveryStands`; one live row per event, the bound on claims; the safety of `DurableDelivery` |
| `CommandLedgerProofs` | `EffectIffRecorded`, `ChainsStand`, `AnswersAreDurable`, `ImplementsSerialLedger` |
| `ProjectLifecycleProofs` | `ConfirmedSetIsCurrent`, `LatestRevisionIsCurrent`, `PricesFollowTheSet`, `ReleaseIsCurrent`, `ReleaseIsFrozen`; `TypeOK` |
| `OversightProofs` | all ten properties of the run `oversight` |
| `RecordsProofs` | `StatementsStand`, `CostsStand`, `OneGenerationIsOpen`, `VerdictsStay` of the run `records`, `ReceiptStands`; one consumption and final verdicts of inbox messages, the completeness of the lineage |

**Assumptions.** `PolicyAssumption` is the validation in `OutboxDeliveryPolicy`; `TimeoutAssumption` and `InboxAssumption`
say that a deadline ends before its lease (`config.py` refuses other settings). `TokenAssumption` says that some token is neither remembered by a process nor stored in a row, which
UUIDs stand for in the code; `CounterAssumption` that `AttemptCap` does not cut off an attempt that `MaxFaults` allows.
`CommandAssumption` says that a handler is a finite sequence of statements. `NoLeaseAssumption`,
`NoClaimAssumption`, `NoJobAssumption`, `NoneAssumption` and `OversightAssumption` say that a NULL is no row and no person
(and that bounds are numbers). `LifecycleAssumption` says only that `MaxUploads` is a number; the NULL of
`ProjectLifecycle` may be anything. `RecordsAssumption` says that there is a document set and bounds are numbers, that
nobody is no person and an absent row no row, that an adapter is not a person, that the imported quantity is a quantity, and
that the observations are finitely many and cite observations. What cites what is arbitrary: it may be
circular.

None of the properties is inductive alone. Each proof module starts with the conjuncts that make it so, and the
preservation of the inductive invariant has one lemma per action. What they need:

- *Outbox.* `PublishedWasHandled` needs that a process which is about to acknowledge really did the work
  (`OutcomeHonest`), and the finality of verdicts that a settled row has no lease anybody could own (`RowShape`). What
  each transaction makes of a row is stated once, as lemmas of `OutboxEvent` (`ClaimedRowProperties`,
  `RejectedRowProperties`, ...); the pipeline, the inbox and the delivery cite the same ones.
- *Document pipeline.* That an open upload always has a deliverable event holds only because nobody is about to
  dead-letter that event (`OpenIsDeliverable`): a process that still holds the event of the generation before a replay is
  harmless. A process settles the row it claimed and no other because tokens are not used again while they are remembered
  (`ClaimsAgree`). It completes under a live lease because lease and deadline begin in one transaction
  (`LeaseOutlastsWork`).
- *Inbox.* The two unique constraints (`MessagesAreUnique`) make receipts agree although `receive` takes no lock between
  its look-up and its insert. Every generation but the newest is dead (`OlderAreDead`), which the code checks for the
  predecessor only.
- *Delivery.* A result belongs to one attempt because the number of a delivery is not shared (`NumbersAreOwn`);
  `AttemptsAreBounded` counts claims against the budget and the faults.
- *Commands.* Who has a reservation is alone with its key (`KeysAreHeld`), and only one open transaction has written to a
  chain, although none must lock it (`OneWriter`): the second waits for the number and finds it taken. The chains verify
  as committed and as each open transaction sees them (`ChainsAreWhole`). The refinement maps each commit to one step of
  `SerialLedger` and everything before it to stutters.
- *Project.* A waiting upload is the newest of its document (`WaitingIsNewest`), and no set is confirmed a second time
  (`SnapshotWasConfirmed`), so prices beside a snapshot of the current set were taken for it. That the confirmation of a
  set, which does not look at the state of the project, leaves a release alone needs `ReleaseIsCurrent` with its settled
  candidates.
- *Memberships.* A change between its check and its commit keeps an owner (`ChangeKeepsOwner`) only because at most one
  change is open, whose thread holds the project row (`OneChangeOpen`).
- *Governance.* In every state, approved or not, a version agrees with its audit events (`VersionsAgree`): the events decide
  what may be bound later. That a version changes only by the act of somebody else than its author (`ApprovedByOthers`) is
  more than its trigger demands; it follows from what `approve_version` compares.
- *Approvals.* The page that an expert has open shows a planned task (`PagesShowTasks`); what it says of the task is stale
  and not relied on, since a replacement moves the `updated` of every task past it (`TasksAreDated`). Uploads that captured
  nothing change no task, so an approval can outlive them and the theorem says nothing else.
- *Rework.* Only a request that was made is held or dispatched, and a worker that reports its event handled leaves a dispatch
  behind (`HandledWasDispatched`), across the three transactions of a delivery.
- *Campaigns, gate evidence.* Nothing refers to a campaign that does not exist, and its inputs are locked once it was evaluated;
  what each step excludes is kept per case, since every case has a calculator of its own (`ReferencesAreIndependent`). A
  review or release that is about to be committed rests on rows that do not change (`ReviewersAreOthers`,
  `ReleaseRests`).
- *Actuals.* Each row lives one of four lives (`LivesLegally`): not there, waiting for review, decided by somebody else, or
  an actual that a later fact superseded with or without its decision. `BuiltAt` ties the three rows of an index together.
- *Quotas.* What was served in a window is counted in the committed row of its bucket, and transactions that are open hold
  one place each.
- *Anchors.* A manifest covers a linked chain, and hashes are not used twice (`HashesAreUnique`), so a chain that
  verifies up to the terminal of a manifest is the one it covers.
- *Restores.* Each backup has whatever was fixed before its hour (`BackupsAreComplete`), and what was restored from it still
  has that (`RestoreReachesItsBackup`). The verifier bounds the distance of the *declared* point from the incident; only if that point
  is not later than the backup does the bound carry over to what was lost.

- *Evidence.* Each open or settled conflict agrees with what was derived from its pair (`ConflictStands`), and the reading
  of a person is decided once (`ReadingsDecidedOnce`), across replacements that supersede its task.
- *Passport, risks.* All reviews of a record but the newest are superseded, and an approval record belongs to a review that
  is no longer pending (`ReviewedOnce`): the same fact for both, with lemmas for its submission, decision and supersession.
  A current item was not invalidated within its document set (`Unmarked`), and a passport without an invalid field has no
  findings left.
- *Contract terms.* A revision refers to the submission that began its run of revisions (`Rooted`), whose review is the only
  one that can be open, and only the newest revision has an open cost review (`TasksStand`).
- *Prices.* What a decision was made on is still in the normalized prices of its policy (`DecisionStands`), and an analogue
  has two people.
- *Quantities.* Quantities are appended line after line, and a quantity made by a change directly follows the one
  the change was made from (`Chained`). A critical change is superseded exactly if a confirmed set was replaced since it was
  proposed, which `seen` remembers, and an applied one was decided (`ChangesStand`): hence four eyes over exactly those applied
  since the last replacement. That the newest earlier quantity of a line is `i - 1` is a lemma (`NewestBefore`).
- *Cost models.* A validated model that is not current names its one successor (`CurrentOnce`); a finding belongs to the newest
  model of its document set (`FindingsNewest`); the model of a snapshot cannot lose its validation (`SnapshotsRest`).
- *Packages.* Rows are stamped with the length of the audit chain (`Stamped`), so the prefix of the chain up to the release
  decides what the release saw (`Saw`), and nothing after it can change that prefix or what its stamps select.
- *Lineage.* `Resolves` and `Nodes` are recursive functions of a visit, a path and an observation. That they have a solution
  is proved first (the greatest set of visits closed under the step). Completeness then needs no
  induction principle: among the visits that resolve without being closed, take one with the fewest observations off its path;
  each visit below it has fewer, so it is closed, and then so is the visit itself. `LineageIsComplete` states the result.

`OversightProofs` proves an invariant per component under that component's own assumption, and then composes: a behaviour of
`Oversight` starts as one component (`PartBegins`) and goes on as it (`PartRuns`). The action property `HistoriesAccepted`
follows from five lemmas about single steps: in a state of the invariant, each operation changes a row as the trigger of its
table accepts. `RecordsProofs` is composed in the same way under `RecordsAssumption`; there the inbox is the module that
`Records` extends, so its own theorems and those about `Records` rest on one invariant (`IInv`), and `VerdictsStay` follows
because a settled row is neither claimable, pending nor absent (`RowSteps`, `SettledRowKept`).

Modules that are proved about take no more of the community modules than they use: their operators would enter
every obligation once per instance. Where one of these modules needs the last element of a sequence it says so by index.

**Only model-checked:**

- liveness, which needs fairness and `ENABLED`: `AttemptsEnd`, `GenerationsSettle`, and the liveness of
  `ImplementsUploadLifecycle` and `ImplementsDurableDelivery`, whose safety is proved;
- `SumsAgree`. The two paths of each sum fold over sequences of decimal numbers that are rounded at every step; how close they
  stay for every input is a fact about folds of any length, which needs induction over data and is out of the prover's
  reach. TLC evaluates both paths at inputs around ties and exact amounts, in all four rounding modes (the risk policy
  admits two), and asks three things: the paths of a leg, a plan or a risk differ by at most one unit of the total, those of a
  calculation by nothing (`PathsAgree`); both refuse the same plans (`RefusalsAgree`); and an amount that was *accepted*, not merely
  computed twice, is the exact rational amount up to the rounding of its lines and its total (`AcceptedIsExact`), which no
  common mistake of both paths would satisfy. `allow_zero_total` is the constant `AllowZeroTotal`;
- the four disagreements of section 3, which are counterexamples of TLC.

## 5. Plan

The order in which the modules were written and proved, which is also the order in which to read them:

1. rows and leases (`OutboxEvent`, `OutboxDelivery`, `DurableDelivery`) and what uses the same protocol
   (`DocumentPipeline`, `IntegrationInbox`, `IntegrationDelivery`), with their theorems and refinements;
2. the project (`ProjectLifecycle`) and its commands (`CommandLedger`, `SerialLedger`), with theirs;
3. memberships, versions, approvals, rework, campaigns, gate evidence, actuals, quotas, anchors and restores, each in a module
   of its own, then composed and proved in `Oversight` and `OversightProofs`;
4. the records of an estimate and the packages made of them, composed and proved in `Records` and `RecordsProofs`.

All four are done. What a continuation would add is the part that section 6 names: a composition of record modules with each other,
and the two sums as recursive functions whose equality a prover with induction could decide.

## 6. Not modelled, and why

File contents, parsing and object storage (a result with any outcome); hashes and signatures
(equality, or the request is refused); texts, amounts and schemas of payloads where no decision
distinguishes them; load qualification and diagnostics (measuring clients whose result is gate evidence); public data
sources (their results are never evidence); API, CLI, workbench, web interface (adapters and views); the schema
history except its triggers. In `ProjectLifecycle` cancellation of documents, addenda and non-critical documents
are left out, and several BoQ lines or items act as one. The record modules are not composed with each other:
a gate takes a verdict of each, and which combinations of verdicts a project goes through is `ProjectLifecycle`.
Two API processes of TenderGuard that
exchange messages directly are not composed: the core hash of the inbox covers the
message id, so a replayed outbox row is refused there, which `IntegrationDelivery` models as the
receiver's right to refuse.
