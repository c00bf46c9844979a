# Formal models of CompliAGL

CompliAGL decides whether an autonomous actor may act. A request (an intent)
is evaluated against executable governance packages and evidence; the outcome
is an immutable decision; an APPROVED decision may yield a signed execution
authorization, which an external execution system verifies and consumes; all
of it is announced to portals through an event outbox. What was not approved
is remediated and reassessed. This directory models the parts of the backend
that keep state under concurrency and the rules by which they decide, checks
them with TLC on small instances and proves properties of the core with TLAPS.

## The system

The backend is a FastAPI application over SQLAlchemy (`src/backend/app`).
Every endpoint is a plain function served by a thread pool with a database
session of its own (`core/database.py`: no autoflush, the default expiry on
commit). Services read rows into the session, decide from that copy, and
commit through `TenantRepository.add/save`; rows are updated by primary key.
There are no row locks, no version columns and, for the keys that matter
below, no unique constraints. Several services commit more than once per
call. Nothing runs in the background: dispatching events and re-evaluating
are endpoints that somebody has to call.

| Component | State | Operations | Interacts with | What makes it correct |
|---|---|---|---|---|
| Execution authorization (`authorization_service`, `governance_service`, `monitoring/authorization_invalidation`) | `execution_authorizations`: status, bound terms, signature | issue, verify, consume, revoke, invalidate; older create/transition | reads decisions; invalidated by monitoring | spent at most once, refused from the expiry on, only for APPROVED decisions; replays agree; lifecycle |
| Decision ledger (`decision_service`) | `decisions`: outcome, CURRENT/SUPERSEDED, lineage pointers | decide | reads packages, evidence, authority; spends approvals | immutable lineage, one current decision per evaluation |
| Escalation approvals (`escalation_approval_service`) | `escalation_approvals`: status, window, consumer | submit, apply | identity service; decide | one approval, one re-decision, within its window |
| Package registry (`governance_package_service`) | `executable_governance_packages`: status, version, supersession links | create, validate, approve, publish, supersede, retire | identity service; read by decide | nothing in effect without validation and approval; one published package per version |
| Integration events (`integration/`) | `integration_events`, `event_deliveries`: status, attempts, back-off | publish, dispatch, retry; consumer process | called after other services commit; portals | what is delivered has been handled, once; attempts keep to a budget; every delivery settles |
| Monitoring and re-evaluation (`monitoring/`) | events, runs; writes decisions, authorizations, proofs | submit_event, trigger | all of the above | a run's effects belong together |
| Findings and remediation (`finding_`, `remediation_`, `devsync_`, `resolution_*`, `review_`, `reassessment_service`) | findings, plans, dispatches, evidence, reviews | generate, assign, plan, dispatch, callback, submit, review, validate, reassess | external DevSync; writes decisions and intents | a finding is closed by a reassessment on validated evidence only |
| Evaluation pipeline (`policy_resolution_`, `applicability_`, `control_determination_`, `evidence_requirement_`, `evidence_sufficiency_`, `control_evaluation_`, `assessment_service`) | immutable result rows per resolution | one stage each; some stages obtain the earlier ones first | called by decide and by endpoints of their own | an approval rests on evidence and controls that stand, on rows that are not out of date |
| Decision rules (`deterministic_expression`, `package_interpreter`, the condition loop of `decision_service`) | none | evaluate | the pipeline and decide | missing facts never make a verdict; the two languages agree |
| Evidence collection (`services/evidence`) | jobs, raw evidence, validations, normalised evidence, packages | start_collection | connectors, on a thread pool | a package claims only what is backed and owns up to the rest |
| Canonical AIProof (`aiproof/`) | proof rows, handoff status | generate, store, submit | CompliLedger | a superseded proof stays superseded |
| First-generation flow (`transaction_`, `evaluation_`, `rule_engine`, `approval_`, `policy_`, `agent_service`) | agents, policies, transactions, proof bundles, audit log | create, evaluate, review, update | none | daily limits; proofs, approval rows and log account for a transaction's decision and status |
| Tenant registry, execution results, authority client, demo scripts, Astra tools, dashboard and x402 demo, MVP2, frontend, SDK, migrations | rows or none | CRUD, I/O | | outside the concurrency core |

The hard behaviour: requests that race between their read and their commit,
calls that commit several times and may stop in between, approvals and
authorizations that expire while they are being used, clients and dispatchers
that retry, deliveries whose answer is lost, and results that are out of date
when they are used. `PROJECT.json` lists each of
these hazards at its line, with the properties that watch it and, where a
property exempts the very race, a note on what it still excludes.

## Modules

| Module | Models | Actor in the model |
|---|---|---|
| `ExecutionAuthorization` | the authorization table and all its writers | a request with a session, used once |
| `ExecutionAuthorization_proofs` | theorems about it | |
| `DecisionLedger` | decide commit by commit, submit, apply | a request with a session, used once |
| `Decisions_proofs` | theorems about it, and about `SpendingGate` | |
| `GovernancePackage` | package lifecycle and supersession | a worker thread, serving requests in turn |
| `Packages_proofs` | theorems about it, and about `PolicyEvaluation` | |
| `EventOutbox` | outbox, dispatcher, consumer | publishers, dispatching workers, portals |
| `EventOutbox_proofs` | theorems about it | |
| `Reevaluation` | the re-evaluation job of one intent, over its decisions, authorizations and proofs | a job, commit by commit, and the other sessions' commits |
| `Reevaluation_proofs` | theorems about it | |
| `Permit` | what an authorization promises: the abstract specification that `ExecutionAuthorization` implements | |
| `FindingRules` | which findings a decision gives rise to | |
| `Remediation` | findings, plans, DevSync, evidence, reviews, validation, reassessment | a worker thread, serving calls in turn |
| `Remediation_proofs` | theorems about it | |
| `EvaluationRules` | the pure rule of each pipeline stage | |
| `EvaluationPipeline` | the stages of one resolution, from facts to a decision | a worker thread, serving calls in turn |
| `EvaluationPipeline_proofs` | theorems about it | |
| `Expressions` | the two expression languages | |
| `PolicyEvaluation` | package selection and expression evaluation while packages, time and knowledge change | |
| `EvidenceCollection` | a collection job: plan, thread pool with retries, storage, validation, package | a call, and the threads of its pool |
| `EvidenceCollection_proofs` | theorems about it | |
| `SpendingGate` | the first-generation flow of one agent | a session, serving one request |

`MC*` modules add symmetry and the values of structured constants for TLC.
`Reevaluation` is where the tables meet:
it keeps of each what the job reads and writes, and of other sessions what
they do to those columns. Elsewhere the interfaces are constants or free
choices: `Approved` in `ExecutionAuthorization` is what the ledger promises of
outcomes (they never change), and the verdict in `DecisionLedger` is free
because packages, facts and evidence decide it: `EvaluationPipeline` says how.
There, what an expression comes to is free in turn, being the subject of
`PolicyEvaluation`, and so is what a collection finds, being that of
`EvidenceCollection`. In `Remediation` the decision that findings are about is
given by its basis, what `FindingRules` reads of it.

**One handler, several steps.** A handler is split exactly where another session
may come between: after it reads its row (the copy is kept in `seen`,
`replaced`, `found`, `had`), after every commit, around calls to the identity
service or a portal, and where it reads the clock again or is stamped.
Everything between two such points is one action. `CommitStatus` and its
relatives write the row whatever it has become, as the UPDATE by primary key
does.

**Crashes.** In the modules whose sessions serve one request, a request that
stops is a behaviour already: each step is optional. Where a worker goes on to
serve other calls, or where fairness makes it go on (`EventOutbox`,
`EvidenceCollection`, `Remediation`, `EvaluationPipeline`), `Crash` is an
action: the session is lost, the rows it has committed stay.

**History variables.** These variables exist only for properties. They record
that a session committed over a row that somebody else had written since it
was read (`fresh` and `overwritten` in `ExecutionAuthorization`, `fresh` and
`stale` in `GovernancePackage`, `current` and `raced` in `EventOutbox`, `fresh`,
`overwritten` and `unlogged` in `Remediation`, `overwritten` in
`SpendingGate`); which authorizations `verify` made live again (`revived` in
`Reevaluation`); that generate calls raced or stopped midway (`broken`), and
how many callbacks were acknowledged (`answered`) in `Remediation`; during whose
decision a result or a package came (`disturbed` in `EvaluationPipeline`); in
`ExecutionAuthorization` when a verify or consume read its row (`began`) and of
which keys a row was committed after one stamped later (`overtaken`); in
`EventOutbox` the events of which two deliveries were at the portal at once, or
one ended between handler and mark (`loose`); and
in `SpendingGate` the policies there have been (`inForce`), transactions
evaluated on a later day (`late`) and approved by a reviewer without having
been escalated (`overruled`). Properties named `...Unless...` say: what is
promised holds except across the named event.

### Correspondence

`ExecutionAuthorization`: `IssueReplay`, `IssueCheck`, `IssueStamp` and
`IssueCommit` are `issue`: `created_at` is a default of the Python process,
stamped when the INSERT is flushed, and others see the row when it is committed,
so `created` orders rows by their stamps, committed or not, and `IsOldest` looks
at the committed ones; `Read` is `repo.get` of the other operations;
`ExpireOnRead` and `PassExpiry` are `_expire_if_needed`; `VerifyCheck`,
`ConsumeCheck`, `RevokeCheck`, `InvalidateCheck`, `TransitionCheck` are the
guards; `Commit` is `repo.save`. `consume` reads the clock for its check and
again for `consumed_at`, just before it saves; the clock may pass the expiry
between `ConsumeCheck` and `Commit`. `terms` are the columns bound at insertion
(decision, key, whether the row is signed, expiry). Hash and signature columns
never change, so their verification is `signed`; bound-field mismatch is a
rejection that may always happen.

`DecisionLedger`: `DecideCall` (arguments), `Gather` (approval lookup, facts,
engine, and the lookup of the decision to replace, one step because only one of
the two lookups can depend on other sessions), `Insert` (first commit),
`Supersede` (second; both rows are dirty in the session, so `repo.save(prior)`
writes both), `Consume` (third). Rows are numbered by `created_at`. `Lapse` is
the clock passing `valid_until`; nothing in the code sets an approval to
EXPIRED. The endpoint accepts any `prior_decision_id`, so `Dangling` (no such
row) is an argument.

`GovernancePackage`: `Read` is `_get_or_404` plus `validate_transition` on
the copy; `PublishCheck` the uniqueness query and the predecessor lookup;
`Commit*` the saves; `Reject` every refusal (identity service, signature,
hash, uniqueness). `validate` on a VALIDATED package writes nothing and is
left out. A package name and version are one value, `Versions`.

`EventOutbox`: a row is a publication call and a channel. `PublishCommit` is
one transaction. `List` is `list_deliverable`, whose first row the sweep uses as
it was loaded; a commit expires the session's objects, so each further row is
loaded again when its turn comes (`Take`), or passed over (`Skip`). What is asked
then is `_is_due`, status and gate: that attempts are left is asked by the
list query alone. `Retry` is `retry_delivery`. `Save` leaves out a status that
equals the loaded one, as the ORM does. `Lookup`, `Handle` and `Mark` are the
three statements of `IdempotentEventConsumer.process`, which hold no lock;
`Unreached` and `PortalFails` are deliveries that do not arrive or end within
the portal, and the adapter's answer (`Answer`) says nothing sure of what the
portal did. A portal works for a delivery on the time of the worker that sent
it: one that goes on after its sender has given up is not modelled. Its set of
seen ids survives (the class says a real portal uses a durable store).
`Sweep(x)` is no action, but names for the fairness the lists in which a row
comes up.

`Reevaluation`: `Trigger` (or `NoAction`) adds the run and analyzes the
impact, `FindPrior` loads the current decision and resolves the outcome,
`Insert` and `Supersede` are the decision's two commits, `WithdrawNext` one
turn of `invalidate_authorizations`, `LoadProof`, `StoreProof` and
`SupersedeProof` are `supersede_proof`, `Complete` the last save, and `Fail`
the `except` branch. The assessment's commit writes nothing that others read.
An authorization is live or terminal, since which terminal status it has is
`ExecutionAuthorization`'s subject; with that, a check and the commit after it
are one step, except for `verify`, whose late commit makes a terminal row
ACTIVE again (`VerifyRevives`). `Issue` asks for an APPROVED decision, not for
a CURRENT one. `Decide` is a first decide of another evaluation of the intent;
supersession inside an evaluation is `DecisionLedger`'s. The CompliLedger
handoff, which overwrites the status of a superseded proof, is left out: the
job looks at the proofs' links, not at their status. `Root` and `Onward` are the
two walks of `decision_chain`.

`Permit` and the refinement: `phase` is read off a row's status (no row yet,
ACTIVE, CONSUMED, REVOKED, EXPIRED), `spends` counts the callers
that were told they had spent it. A save over a row that somebody else has
changed maps to `Contest`, after which the permit promises nothing; every other
step of `ExecutionAuthorization` is a `Grant`, `Spend`, `Withdraw`, `Lapse`, or
no step of the permit at all. `ImplementsPermit` states this as
`PermitSpec` under the mapping, at the end of `ExecutionAuthorization`.

`Remediation`: `GenerateCheck` and `GenerateInsert` (one commit per finding) are
`generate_for_decision`; `CreatePlan`, `UpdateStatus`, `Dispatch`, `Callback`
(evidence, then `CallbackLoad` and `CallbackLog` for the dispatch's list),
`SubmitEvidence`, `Review`, `Validate` and `ValidateSave`, `Trigger`, `Approve`,
`SupersedePrior` and `Close` are the first commits of the handlers of those
names. What a handler still does to the plan and the finding after its first
commit is written on its `call` and done by `LookPlan`, `SavePlan`, `Look` and
`Save`; a save writes only columns that differ from the copy, as the ORM does.
`Eligible` is what `create_plan` asks of a finding; validation and reassessment
ask less (`Resolvable`): whether it is terminal or waits for an escalation
approval, not whether its package made its type ineligible. A rejected
dispatch and refused calls end at once. `Redecide` is a decide call
elsewhere. The content of plans, evidence and reviews is left out, `BLOCKED`,
`COMPLETED` and the like being what a callback reports.

`EvaluationPipeline`: a call is an agenda of steps, each up to a commit or to a
read whose value survives one. `Record` commits the results one by one;
`CheckControls`, `CompareEvidence` and `CheckSufficiency` are the `..._or_get_...`
functions, which reuse a row or put the steps that make a new one on the
agenda; `Determine`, `Require`, `Collect` and `Decide` are endpoints. `Decide`
obtains a sufficiency record twice, as the code does, and `InsertDecision`
names the package it reads last (`bound`) apart from the one its controls were
evaluated on (`observed`). Rows are positions in sequences, one sequence per
table. Of a decision the newest row is kept, since `DecisionLedger` has the
others. The rules are in `EvaluationRules`, each with the name of its function.
Identifiers are taken to be distinct across selected packages, and the facts
are a world that maps each criterion to what it comes to; hashes and recorded
documents are left out.

`Expressions`: one abstract syntax stands for the JSON criteria and for the
interpreter's source text, since both have the same tests and connectives. An
expression is the sequence of its nodes in post-order: arguments are positions
before the node that takes them, the root is last, and both evaluators are
functions on the positions, where the code recurses into dictionaries. A
text is a word of so many letters, or a date; a list is the set of its
elements and is not ordered; a time zone is not modelled, nor is a chained
comparison, which is the conjunction of its parts. `Evaluate` is the
three-valued engine, which evaluates every argument and in which a defect
("MALFORMED") is a value; `Interpret` the two-valued interpreter, whose
connectives stop early and in which comparing a text with a number raises
("RAISES"). A column that is not set is a value of its own: a
comparison takes it as a fact, `exists` does not, as in the code.

`PolicyEvaluation`: `Candidates`, `SortsBefore` and `Selected` are
`policy_resolution_service.resolve`, whose page of the 1000 oldest published
packages is taken to hold them all; a version is a tuple of chunks, and the key
its numbers negated. Resolving and evaluating write no row that they read: they
are operators of the state, and the actions are what goes on between two looks
at one request (`Publish`, `Tick`, `Learn`).

`EvidenceCollection`: `Plan` is the plan (`Precedes` the registry's order),
`OpenJob`, the pool's tasks (`RejectMock`, and `Answer`, `Timeout`, `Error`,
`Raise`, one attempt each) and `Gather`, `Persist` and `FinishJob` the
orchestration, `Validate` and `Normalize` the services of those names,
`BuildPackage` the assembly. The verdict's checks are in the order of `_decide`.
Retries follow each connector's policy; the code's `timeout_seconds` is never
enforced by the orchestrator, so a timeout is the connector's own. An exception
that is no connector error leaves the call, and the job stays RUNNING: nothing
takes it up again. Jobs share tables only through filters on the job's
identifier, so one job is as many. Source rows of `sync_registry`, which nothing
reads back, are left out; `_MissingConnector` cannot be reached, because the plan
lists unserved items apart; no task carries `bind_intent`; and the page of 500
in `list_for_job` is not modelled.

`SpendingGate`: `Evaluate`, `ReadAgent`, `ReadPolicy`, `ReadSpend`, `Judge`,
`SaveDecision`, `CreateProof` and `Log` are `evaluate_transaction` query by
query and commit by commit; `Review` and `SaveReview` the review endpoint;
`PutPolicy` creates or updates a policy row. Deactivating a policy writes a
column that the evaluation does not read, so it is no step; an inactive agent is
denied like one without a policy, so its policy reads as none. `Today` is the
comparison of `created_at` with the start of the day, on the database of the
default configuration: SQLite stamps `created_at` without a fraction and
compares it as a text with `... 00:00:00.000000`, so what is created in the
first second of a UTC day sorts before that day (`uncounted`); `NextDay` begins
that second and `FirstSecondEnds` ends it. `SaveReview` inserts the approval row
and writes the status in one commit, and no proof; log entries keep whether an
evaluation or a review wrote them. Amounts are integers, and reasons and
comments are left out. A session that dies takes no further step.

## Runs

| Run | Instance | Shows |
|---|---|---|
| `ExecutionAuthorization` | 4 requests, 2 rows, 2 decisions (1 approved), 1 key, clock 0..1 | six properties of the gate, and that it implements `Permit` |
| `DecisionLedger` | 4 requests, 2 evaluations, 3 decisions, 1 approval | lineage, uniqueness, consumption |
| `GovernancePackage` | 3 workers, 2 packages, 2 versions | lifecycle, approval gate, supersession |
| `EventOutbox` | 2 calls, 1 event, 1 channel, 2 workers, 2 attempts, 1 retry, 1 crash | handling, attempts and budgets, settling |
| `Reevaluation` | 2 jobs, 3 decisions (1 from decide), 2 authorizations, page of 1, 3 proofs (1 from generate) | chains, what COMPLETED means |
| `Remediation` | 2 workers, 4 bases, 2 findings, 1 plan, 1 dispatch, 3 decisions, 5 calls | a closed finding is decided on evidence, and stays closed; findings once; callbacks kept |
| `ProhibitionResolved` | the same | violates `ProhibitionStands` (comment) |
| `EvaluationPipeline` | 2 workers, 3 controls, 2 requirements, 2 evidence items, 2 worlds, 3 collections, 4 calls | what an approval rests on, and which rows a decision uses |
| `MissingContext` | the same | violates `IndeterminateNotApproved` (docstring) |
| `EvidenceCollection` | 1 job, 5 items, 3 connectors, 3 requirement sets, both production modes | what a package claims and owns up to; that it is assembled |
| `PolicyEvaluation` | 6 packages, 2 facts, some 1200 expressions, clock 0..1 | selection; the languages agree; verdicts stand |
| `SpendingGate` | 3 sessions, 2 transactions, 1 policy row with 2 contents, 2 days | daily limits; what proofs, approval rows and log tell |

**Bounds.** A race needs two sessions on one row; four requests add the one
that creates the row and one that disturbs it, which is also the longest chain
any property speaks of (issue, two racing writers, an observer). `MaxTime = 1`
puts an expiry inside the horizon (expiry 1) and one beyond it (2). Three
decisions give a prior, a successor and a competitor; two evaluations let a
caller name a prior of the wrong one. Three workers let two racing
publications overlap a third operation that had set the status back. Two
attempts are the least with a FAILED row between first try and dead letter;
the retry and crash bounds count occurrences, not states, and one of each
already combines with every other step: a stale list, a dead letter and its
retry already take a row to four attempts with a budget of two, which is what
`MostAttempts` allows. In `Reevaluation` two jobs are the
least that fork a chain; one decision and one proof from elsewhere give them a
common prior, or come between their lookups and their inserts; a page of one
with two authorizations stands for 100 with more.

In `Remediation` two findings of one decision, of which either may be terminal
or ineligible, the latter two by default or because a package says so,
are the least that let one be resolved past the other; five calls are a
finding's way from generation to closure with one call to disturb it, and
three decisions let two reassessments, or one and a decide, supersede
decision 1. In `EvaluationPipeline` four calls take a decision from
applicability to approval (evaluate, collect, decide) with one call or change
of the facts anywhere between; the package has controls with shared and with
repeated evidence, a terminal condition and an optional control, and a
collection finds nothing, all, or stale evidence. In `EvidenceCollection` the
connectors have attempt budgets of 3, 0 (which makes one attempt) and 2, a
mock that sorts first among rivals and one without rivals, and an item nobody
serves; the requirement sets have every state of an item. In `PolicyEvaluation`
the versions 1, 1.1, 1.2, none, 1.0 and one with a chunk that is no number meet
priorities, scopes and effective dates; the expressions pair all tests under
both connectives, and nest some. In `SpendingGate` two transactions of 1 and 2
fit a budget of 2 one at a time only, and a limit of two a day is reached by the
second, since a transaction counts itself; three sessions let two evaluations
of one transaction race while another is evaluated or reviewed. Lists of vendors,
chains and assets are in the rules and in the proofs, not in the run's policies:
they deny a transaction whatever the day's totals are.

**Deadlock.** Requests in `ExecutionAuthorization`, `DecisionLedger`,
`Reevaluation`, `EvidenceCollection` and `SpendingGate` are served once and the
tables are bounded, in `EventOutbox` everything may be settled, calls are
bounded in `Remediation` and `EvaluationPipeline`, and in `PolicyEvaluation`
everything may be known; those runs stop legitimately and switch the deadlock
check off.
`GovernancePackage` never stops and is checked for deadlock.

**Fairness** (`EventOutbox`, `FairSpec`). Begun requests run to their
end (weak fairness of `Finish`): adapters return or raise, and a worker that
dies is the separate action `Crash`, bounded. The clock advances (`Elapse`).
Sweeps are strongly fair per row (`Sweep`): the code has no scheduler, so this
states the operator's duty, to keep calling `POST /dispatch`; since a sweep takes
due rows in order and up to a limit, a row that is due again and again is listed.
Nothing is assumed of publishers, manual retries or the adapter's answer.
`EventuallySettled` says that there is always a later time at which every row is
settled, with one exception: a manual retry of a dead letter that races with
another worker may leave the row FAILED with its attempts used up (`Stranded`),
and then nothing sweeps it again.

In `EvidenceCollection` a call that has begun proceeds (weak fairness of
`Proceed`, per job): its threads run, the pool waits for them, and each
connector answers or gives up, its HTTP client having a timeout of its own.
That it is not the same thread for ever follows from the attempts being
bounded, which `EventuallyPackaged` therefore tests. `Crash` is not fair.

## Proofs

The proofs hold for every value of the constants that satisfies the named
assumptions of the module, finite or infinite sets of requests, workers, jobs,
packages or rows alike. Each `..._proofs` module is laid out the same way, for
each of the components it is about: an inductive invariant (`IInv`, `GateIInv`),
a lemma per action that preserves it, the theorem `Invariance` (`Spec =>
[]IInv`), and the theorems that state what a run checks.

| Module | Proved of what its run checks |
|---|---|
| `ExecutionAuthorization_proofs` | every invariant, and `ImplementsPermit`; besides, the lifecycle, and what holds outright when calls on one row, or issues with one key, are serial |
| `Decisions_proofs` | of `DecisionLedger` and of `SpendingGate`: all; besides, what holds outright when calls on one evaluation, or on one transaction, are serial |
| `Packages_proofs` | of `GovernancePackage`: all; besides, outright uniqueness when requests are serial. Of `PolicyEvaluation`: all |
| `EventOutbox_proofs` | every invariant; besides, what holds when a row has one worker at most, or the consumer is atomic |
| `Reevaluation_proofs` | all |
| `Remediation_proofs` | all; besides, what holds when calls are serial |
| `EvidenceCollection_proofs` | every invariant |
| `EvaluationPipeline_proofs` | all |

**Assumptions.** Bounds are naturals; `None` is no identifier and no status;
`Approved` is a set of decisions. `EventOutbox` makes at least one attempt,
`Reevaluation` has a page of at least one. `BasesAssumption` (`Remediation`)
gives the shape of what `FindingRules` reads of a decision.
`RegistryAssumption` and `RequirementAssumption` (`EvidenceCollection`) give the
types of the registry and of the requirement sets, and say that no two
connectors stand at one position in the registry.
`PackageAssumption` (`EvaluationRules`) gives the types of a governing package
and says that its conditions are finitely many, since the last one reached is
looked for; `WorldAssumption` the types of the free choices. In
`PolicyEvaluation` there are finitely many approved packages, numbered, and
their versions are sequences of numbers and of chunks without a digit
(`PackageAssumption`); criteria are expressions over the fields
(`CriteriaAssumption`): nodes name earlier nodes, and `not` has one argument.
In `SpendingGate` there are finitely many transactions with amounts above zero,
and a policy's limits are naturals or not set. TLC evaluates each
of them in a run.

**`ExecutionAuthorization`.** `IInv` joins `TypeOK` with: `RowsSound` (no row is
PENDING; a signed row was issued for an approved decision), `SessionsSound`
(a session past its read holds an existing row, and if it is `fresh` its copy
equals the row), `IssueSound`, `GrantsSound` (a granted operation is legal in
the lifecycle from the status the session *saw*) and `AnswersStand` (what a
caller was told, spent or revoked, still holds of the row unless it is in
`overwritten`). The properties alone are not inductive: that two spends
imply a lost update needs the status a granted session saw and the fact that
CONSUMED leads nowhere. The handlers that only move a session share `GotoInv`,
those that write share `CommitStatusInv`. `ExpiryRefuses` needs, of a session past
its check, that the clock had not reached the expiry when it read the row, for
the clock does not go back. `Idempotency` adds that the row stamped first among the
committed ones with a key stays so until one stamped earlier is committed
(`OldestStays`); `StampedSound` says that a row stamped and not yet committed is
its own session's alone. `SerialIdempotency` drops the exception where calls that issue
with one key are served one at a time (`OneIssuing`): then a key has one row.
`SerialSingleUse` proves the
docstring's promise outright (`ConsumedOnce`) under `[]Exclusive`, no two
sessions at work on one row: the lost update is all that stands against it, and
a row lock would restore it.

`Refinement` proves that the module implements `Permit`. A step is of one of a
few kinds (`StepKinds`): it moves a session, inserts a row, or commits a status;
the first maps to no step, the second to `Grant`, and a commit to `Contest` if
the row has been overwritten and otherwise to what the lifecycle says of it.
The mapping counts callers, so `Bookkept` adds to `IInv` that finitely many
have spent an authorization, and that only rows there are get lost updates.

**`DecisionLedger`.** `IInv` says what a decide call may rely on between its
commits: the decision to replace is the one asked for if that exists, and the
approval loaded approves it (`GatheredSound`); the row inserted is newer than
the one it replaces and bears what was gathered (`InsertedSound`); until the
second commit that row keeps the prior it was inserted with and belongs to no
other session (`LinkPending`); a call about to consume has superseded the
approved decision (`SpendSound`). `NewestStaysCurrent` then follows without an
invariant of its own, since a successor is a newer row. `OneCurrent` counts: by
`PriorsPending`, in a settled evaluation every decision that is no root has
superseded one of its own, so with two CURRENT decisions there are more
decisions than rows for them to have superseded, and two of them share a prior
or are both roots. `SerialOneCurrent` drops the exception: where decide calls on
an evaluation are served one at a time (`OneDeciding`) and a prior that is named
is the current decision (`NamesCurrent`), what a call is about to replace is the
evaluation's only CURRENT decision until its second commit (`SoleCurrent`).

**`GovernancePackage`.** A request commits on a copy, so `IInv` says what of it
stays true: content once valid and an approver once named are never taken back
(`RequestsApproved`), while the uniqueness check does go out of date;
`FreshIsAlone` says that it has not as long as the request is `fresh`.
`SerialUniqueVersion` adds that no commit is stale where requests are served one
at a time (`OneAtATime`), so that uniqueness then holds without its exception.

**`EventOutbox`.** A copy nobody has overtaken agrees with its row
(`WorkersSound`). What a worker holds as accepted has been handled, and of an
event that is not in `loose` one worker at most is past the lookup, and none
once it is marked (`HandledSound`, `PortalSound`): so a row saved as DELIVERED, late
or twice, was handled, and `HandledOnce` follows. `AttemptsBounded` says that no
row is tried more often than the budget and two for each manual retry; because
a listed row is dispatched without a second look at its attempts, it has to
hold of the workers' copies as well, and strictly of rows that are not settled
and may be tried once more. The bounds in `TypeOK` follow.
Where the worker that loads a row has it to itself (`Claimed`: the code locks no
row), no copy is overtaken, the budget holds without its exception
(`ClaimedBudget`) and DELIVERED is final (`ClaimedDelivered`). Where a portal
serves an event's deliveries one at a time (`OneServed`) and does not stop
between handler and mark (`MarksHandled`), an event is handled at most once
(`AtomicConsumer`): a lock around the consumer's three statements is what its
docstring's promise needs of the portal.

**`Reevaluation`.** `IInv` says what a job has achieved at each commit in terms
that no other job undoes: links lead to newer records that name their
predecessors, and of the authorizations a job has dealt with only revived ones
are live. `Completion` follows. `WholeChains` is about the recursive functions
`Root`, `Onward` and `Lineage`: `Recursion` proves that a function defined along
links that lower a rank exists, and the three are unfolded along the age of the
decisions by the least-number principle (`LeastNatural`, from the library's
`WFMin`), which stands in for the induction theorems.

**`Remediation`.** `IInv` has a predicate per stage of a call (`Knows`): what it
still knows of the rows it looked at. Evidence and findings never go away, so a
finding once `Fit` for a reassessment stays fit, however the look is out of
date; a look nobody has written over still shows the row (`Current`); and a
call that could reopen a finding holds a look at an open one, or is about a
prohibition, which never closes. `GeneratedOnce` needs that the findings so far
are a prefix of the ones due (`Generated`), which is `Raise`, a recursive
function, unfolded by `LeastNatural` again. Where calls are served one at a time
nothing is overwritten, so the list of callbacks is complete
(`SerialCallbacksKept`) and only a validation that refuses takes a finding out of
CLOSED (`SerialClosedStays`).

**`EvidenceCollection`.** `IInv` is a conjunction over jobs and items, each table
in terms of the one before it: answers of their tasks, rows of their answers,
outcomes of their rows, and a package of all of them, at a stage at which
nothing of the job changes any more. That is why no late answer gets past it.

**`EvaluationPipeline`.** `IInv` enumerates the agendas a call can have
(`CallSound`) and with each what the call has obtained: the rows its next steps
refer to exist, and if nothing has come during a decision they are the newest
ones. `Current` reads this off at the last step. `Earned` needs of it only that
the decision follows from rows there are (`DecisionSound`); the rest is about
the rules: a satisfied assessment has no mandatory control that is wanting
(`SatisfiedControl`), the gate is open only if every item is backed (`OpenGate`,
`SufficientItem`), and of the matching conditions the last one reached has no
terminal one before it (`ApprovingCondition`, with `Extremes` of a finite set).

**`PolicyEvaluation`.** `EnginesNeverContradict` and `VerdictsAlwaysStand` are
about expressions of any size. `NodeByNode` shows that a function on the
positions exists whose value at each follows from those before, so that
`Evaluate` and `Interpret` give each node what its rule says (`EvaluateIs`,
`InterpretIs`). A statement about all nodes is then shown of the least node
that could break it, whose arguments do not (`LeastNatural`, from the library's
`WFMin`); that takes the place of an induction over the syntax. What is shown of
the nodes is stronger than the property: where both answers are definite
they are equal (`ExpressionsAgree`), and a verdict stands *and* a defect shows on
any facts (`ExpressionStands`), since a defect that came or went with the facts
would move the connective above it. `ResolutionKeepsPrecedence` shows that the
sort key is total and transitive, versions being compared at the first place
where they differ (`Leads`), so a group has a first package (`SomeFirst`), and
`Winner`, which is a CHOOSE, is that one.

**`SpendingGate`.** `Limits` has to bound what evaluations that ran at once have
granted together, though none of them saw what the others decided. `GateIInv`
keeps, for each session, which transaction it has evaluated and which ones its
sum counted: the two functions are quantified in the invariant, so the model
needs no further history variables (`Trace`). A transaction that is granted was
counted by its own evaluation, within the limits of a policy there has been
(`Covered`), and of any evaluations of a day that still count, one has counted
the transactions of all (`OneSeesAll`): the one that summed last. So the
transactions granted on a day are among those one evaluation found to fit, and a
smaller set has a smaller sum. That is `TotalGrows`; the fold of the community
module is shown to satisfy the equations of a sum by taking a smallest set for
which it would not (`WFMin` on finite subsets). `Records` needs that the
decision and the status of a row come from an evaluation or a review that is
still on its way or has left its records (`ByEvaluation`, `ByReview`, joined in
`Told`), that a row outside `overwritten` has one evaluation that writes it
(`OneDecision`), and that after it only reviews change its status
(`DecidedOrReviewed`). Where no two sessions are about to write one transaction
(`OneWriting`), each still sees the status it loaded (`NothingUnseen`), nothing
is overwritten, and both theorems lose that exception (`SerialRecords`,
`SerialLimits`): the limits need no lock on the agent.

**Only model-checked.** Liveness, `EventuallySettled` and `EventuallyPackaged`:
the provers do not handle fairness. Every other property of a passing run is
proved.

## Mutants

Definitions commented "Mutant of ..." change one mapped definition the way a
plausible bug would; each checked property is violated by one of them.

## Findings

Two statements of the repository's own text do not hold of what the code does;
`PROJECT.json` quotes them with the run that shows each. A denial by a policy
prohibition can be resolved through another finding of the same decision
(`ProhibitionResolved`), and a mandatory control whose applicability is
INDETERMINATE does not stand in the way of an approval (`MissingContext`).

The properties named `...Unless...` each mark a place where the code keeps less
than its comments or documents say, although no run is given to it:

- Two sessions that race may consume an authorization twice, and a consume
  that was checked in time may stamp `consumed_at` and commit after the expiry.
- Racing calls with one idempotency key insert two rows, and replays before and
  after the later commit may return different ones.
- The older `create` does not ask for an APPROVED decision.
- An approval loaded by two decides serves both; a prior decision named by a
  caller may not be the current one.
- Two requests that race may publish one version twice, and an approval that
  waited for the identity service is written over whatever the package became.
- `integration/dispatcher.py:10` says that a delivery becomes DEAD_LETTER once its
  attempts are used up. A manual retry of a dead letter that races with a worker
  may leave it FAILED with none left, which no sweep lists any more; and a sweep
  that had listed the row before dispatches it beyond its budget.
- `integration/consumer.py:60` says "at most once". Two deliveries of one event
  that overlap at the portal, or a stop between handler and mark, handle it twice.
- A run of re-evaluation withdraws the authorizations of one page.
- A finding that its package makes INELIGIBLE gets no plan, but may be validated
  on evidence submitted without one, and reassessed.
- Racing callbacks lose an entry of the dispatch's list.
- A longer version that extends another loses to it.
- Two evaluations of a transaction may write different outcomes. What is created
  in the first second of a UTC day counts on no day with the default database.
- `docs/demo-flow.md:191-192` and `:263-264` say that a review updates the proof
  (HUMAN_APPROVED, HUMAN_DENIED). `create_approval` writes the status, an approval
  row and a log entry; the proof goes on saying ESCALATED. `RecordsTell` therefore
  asks the proofs for the decision, and the status of a reviewed transaction of
  its approval row and log entry.

## Plan

What is left: in `Reevaluation`, recording monitoring events; beside it, the
proofs' status with the CompliLedger handoff.

## Not modelled

- The tenant registry (organizations, actors, targets, contexts, intents) and
  execution results: rows are inserted and read, and nothing else depends on
  the order. The intent's own table of transitions has no actor that races.
- The connectors' requests, payload shapes, canonicalisation, hashes and
  signatures: data. Whether a check of one of them passes is a free choice
  where it matters.
- The authority context client: its answers are free choices, an unavailable
  service among them.
- The dashboard, the x402 demo and the stateless intent engine of the first
  generation; MVP2; the demo scripts and Astra, which call the modelled services
  in sequence or read from them; frontend, SDK and migrations.
