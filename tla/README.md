# Audience engine: verification project

TLA+ models of the stateful core of the audience engine (`src/`), the TLC runs that check
them on small instances, and theorems about them that TLAPS proves for every value of the
constants. `PROJECT.json` lists components, runs, mutants (one broken variant of the code
for every checked property), the source lines behind every definition, the hazards the
properties are for, and the theorems.

Paths below are relative to `src/`; `minimal_slice/` is `pipelines/minimal_slice/`.

## 1. The system

The engine selects the audience of a campaign: it builds a feature mart and embeddings,
indexes them in Qdrant, retrieves similar customers, filters them by a policy, writes an
audit trail, exports the approved customers to a staging table and delivers them to a CRM
target. Around that flow lies a control plane: versions of features, models, policies and
audiences with a lifecycle, governance of promotions, users, roles and sessions.

Who runs what: FastAPI handlers are plain `def` functions and so run in parallel worker
threads; an Airflow DAG runs the same functions as tasks, which can be run again; the CLI and the
Makefile run them in further processes. They share Postgres, Qdrant and files, and there is
no lock between them: the only synchronisation in the repository is what Postgres
constraints and transactions give and the atomic alias update of Qdrant. The hard behaviours
are therefore *between* calls: a row read in one transaction and acted on in another, two
stores changed one after the other, a call that raises after it took effect, a process that
dies half way, a retry of what was done already.

### Inventory

| Component | State | Operations | Talks to | What makes it correct |
|---|---|---|---|---|
| Delivery (`delivery_runner`, `delivery_store`, `delivery_targets`, `delivery_registry`, `delivery_contract`) | tables `audience_delivery_job`, `_attempt`, `_record`, `audience_crm_postgres_outbox`; a CSV file per job | `execute_delivery_for_run` (CSV path of nine transactions and a file; atomic outbox path) | reads staging and audit of the run; called by run flow, API, DAG | a finished job leaves nobody of the audience out; counts are those of its rows; records and outbox agree; records are never taken over |
| Export staging (`export_table`, `exporter`) | `audience_export_staging`, JSONL files | one transaction per run | fed by the run flow, read by delivery | all or nothing per run |
| Index lifecycle (`qdrant_index`, `lifecycle_service`, `lifecycle_audit`) | Qdrant collections and aliases, `index_generations`, `index_lifecycle_audit` | build, validate, promote, rollback | called by run flow, API, DAG, CLI; the alias is read by retrieval | an alias serves whole, validated collections only; rollback goes back to what was served before |
| Control-plane registry (`control_plane_registry*`) | five pairs of root and version tables with partial unique indexes | create draft, transition, ensure active (bootstrap) | called by the admin API, the operator UI, the bootstrap; read by lineage | one active version per entity; no stage skipped |
| Promotion governance (`control_plane_promotion_governance`, `operator_control_plane_*`) | evidence log, decision log, action audit (JSONL) | record evidence, evaluate, act and log | wraps registry transitions of the UI | no activation without evidence; logs tell the truth |
| Registry lineage | binding columns of a run | resolve five active versions one query after the other, persist | registry to run flow | a run is bound to versions that fit together and were active while it looked |
| Run flow (`run_flow`, `version_bundle`) | summary file, run event log, audit tables | `run_minimal_vertical_slice`, its three failure handlers | composes everything above | what the audit says was searched is what was searched |
| Policy engine (`policy_engine`, `policy_inputs`, `policy_decision_audit`) | the blacklist and communication history files, decision audit rows | load both inputs, `evaluate_policy`, select, audit | called by the run flow; runs and make rewrite the files | fail closed; verdicts follow the rules, not their order; at most the requested size, the best of it |
| Operator defaults (`control_plane`, `delivery_registry`) | a JSON file, an event log | load, save, resolve run configuration | UI, run flow | saves that take turns add up; what is loaded is selectable |
| User administration, login (`user_admin*`, `user_login*`, `user_credentials_repository`, `operator_access`, `operator_login_ui`) | users, roles, credentials, audit; signed cookies | create, activate, assign, reset, verify, bootstrap admin | UI, API | nobody acts who was inactive or not allowed since the request began; a password that was set is the one that counts; the bootstrap leaves an administrator |
| Retrieval | none | one filtered search | alias of the index | searches the served collection |
| Integrations, storage, embeddings, feature mart, data quality | shared files | pipelines of I/O | run flow | each run uses its own data |
| Airflow DAG | XCom values | eleven tasks in a row | the components above | hand-over of one run's identifiers |
| Scripts, benchmarks, metrics, pages, translations | none | - | - | out of scope |

## 2. Modules

| Module | Models | Extends |
|---|---|---|
| `Delivery` | every call of a delivery execution, on both paths | |
| `DeliveryLedger` | what delivery promises: a ledger of who is delivered by which job | |
| `DeliveryProofs` | theorems about `Delivery` | `Delivery` |
| `IndexLifecycle` | build, validate, promote, rollback over Qdrant and Postgres | |
| `BlueGreen` | what the index lifecycle promises to a retrieval | |
| `IndexProofs` | theorems about `IndexLifecycle` | `IndexLifecycle` |
| `Registry` | versions, their transitions, the callers that race for them, evidence and logs | |
| `RegistryProofs` | theorems about `Registry` | `Registry` |
| `RunFlow` | audience runs of the API and the DAG, from configuration to event, among admins and make | `IndexLifecycle` |
| `RunFlowProofs` | theorems about `RunFlow` | `RunFlow`, `IndexProofs` |
| `PolicyEngine` | the policy gate of runs, and the input files that others rewrite | |
| `PolicyProofs` | theorems about `PolicyEngine` | `PolicyEngine` |
| `UserAccess` | users, roles, passwords and sessions of the console, and the bootstrap of the administrator | |
| `UserProofs` | theorems about `UserAccess` | `UserAccess` |
| `RunResolution` | the operator defaults, what a run resolves from them, and the registry versions it is bound to | |
| `ResolutionProofs` | theorems about `RunResolution` | `RunResolution` |
| `MCDelivery`, `MCIndexLifecycle`, `MCRegistry`, `MCRunFlow`, `MCPolicyEngine`, `MCUserAccess`, `MCRunResolution` | values of the constants and symmetry for TLC | their module |

The modules of proofs also extend `TLAPS` and, for counting, the library's theorems about finite sets.

In every module an *action is one database transaction, one call to Qdrant or one file
operation*; between two of them anything may interleave. A process (an execution, an
operator, a caller) is a value of `pc` with what its local variables hold. Exceptions are part
of every action: a call may raise *before* it takes effect (`CallRaises`) or *after* it did
(`Returns` offers `Raise` as a second outcome), and `Raise` goes where the code's `except`
goes. `MaxFaults` bounds how many such faults a behaviour has.

Definitions in each module commented "Mutant:" are variants of the code with a plausible bug;
no action uses them. They are kept so that each property can be shown to notice one.

### Delivery

`Begin` accepts a request as `execute_delivery_for_run` does (the run's audit row exists, the
target is implemented and fits the run's export target). `FetchStagedRows` takes the snapshot
`staged_rows` and chooses the path. The CSV path is `CreateDeliveryJob`, `LogPending`,
then either `SkipNoSourceRows`, `LogSkipped`, or `MaterializeCsv`, `MarkMaterialized`,
`LogMaterialized`, `InsertRow` once per row, `CommitRecords`, `CompleteJob`, `LogFinal`; the
`except` block is `FailJob`, `LogFailed`. The atomic path is `InsertRow` once per outbox row,
`OutboxRowsInserted`, `InsertRecords`, `CommitOutbox`, with `RecordOutboxFailure` as its
`except` block. The environment is `Audit` and `Export`, the two commits of the run flow that
delivery depends on.

Insertions of one transaction are visible to others only as *locks*: `ON CONFLICT DO NOTHING`
waits for the transaction that holds the key (`Holds`, `Blocked`), then skips the row if
that transaction committed and inserts it if that one rolled back. This is why the insert loops take a step
per row and the order `sort_staged_rows` gives is in the model: without it two executions
wait for each other for ever (mutant `NextRowsUnsorted`).

Abstracted: row contents, URIs, timestamps and campaign ids. An execution is
identified with its job since it draws a fresh uuid4. A retry is a new execution.

### IndexLifecycle

`Build` (`CreateCollection`, `UpsertPoints`, `RecordGeneration`), `Validate` (`LoadBuilt`,
`Check`, `MarkValidation`), `Promote` (`LoadValidated`, `ResolvePrevious`,
`SwitchToPromoted`, `MarkPromoted`, `AuditPromotion`) and `Rollback` (`LoadPromoted`,
`ResolveCurrent`, `ReadTarget`, `SwitchBack`, `MarkRolledBack`, `AuditRollback`) are the
four operations of `lifecycle_service`. `created` is the order of `created_at`, by which "latest"
is chosen over all callers. A collection is `filling`, `short` (points of the same id
overwrote each other, so it has fewer than the file has rows) or `whole`. `Check` compares counts
and may also reject a whole collection, since the norm checks look at a file that another run
may have replaced. Only the audit rows of success are kept (`trail`); failure rows name no served
collection.

### Registry

`Read`, `Update`, `Reload` are the three transactions of `transition_version_state`:
the check of the transition is on the row of the first, the `UPDATE` of the second looks at
the id alone, and the partial unique index (`Conflicts`) is all that guards it.
`ApiTransition`, `ApiDraft`, the UI handler (`UiSubmit`, `UiEvaluate`, the transition,
`UiDecide`, `UiAudit`, with its `except` blocks in `Fail`) and the bootstrap loop (`EnsureBegin`,
`EnsureDraft`, `EnsureLoop`) are its callers. `UiRecordEvidence` appends evidence that
passes or fails at any time. `reached` and `cleared` are history variables: what states a version has
had, and whether its evidence ever passed or a caller that needs none activated it.

Abstracted: the five entity types share tables' shape and code, so an entity is a row of
any of them; which evidence types are demanded is reduced to whether the latest evidence
passes.

### RunFlow

A run is a caller of `IndexLifecycle` that has a `phase` besides its `pc`: `BeginRun`, `Configure`,
`OpenEmbeddings`, `CloseEmbeddings`, then the index operations (`BuildOwn`, `ValidateLatest`,
`PromoteLatest`, each a step of the shared module joined with what it means for the run), `Query`
and `Search` (the two calls of `retrieve_similar` through the alias), `WriteAudit`, `Export`,
`Deliver`, `LogRun`. `Handler` says where an exception goes: to the early handler before there is a
bundle, to the failure handler after it, nowhere in a DAG task (`DagRuns`). What a handler raises
ends the run. `NothingToTake` is the `ValueError` of an index operation that finds no file or no
generation. `Errand` bounds what the same callers do for admins and make outside of their runs.

The embeddings file is one for all: `embeddings` says how much of it is there, `opener` who
truncated it last, and `source` how much of it a collection was built from. `promoted`, `searched`
and `audited` keep apart the generation that `promote_latest` returned, those that the alias
resolved to, and the one in the audit row. `BindingFails` is the swallowed error of the lineage
insert: Postgres has aborted the transaction, so the next insert raises, or, when there was no
candidate and so no insert, the commit silently rolls back and the run goes on without an audit row.
`alone` is a history variable: the runs that nobody has overlapped with.

Delivery is taken from its ledger, as one step: it takes the whole staged audience or raises.
Abstracted: candidates (none, all rejected, some approved), the policy (any verdict), file
contents. The summary file is left out, as nothing decides by it; it is not an
evidence of success either, since the DAG writes `status: ok` there before the delivery. A DAG
run that fails leaves no event at all, as its tasks have no handler.

### PolicyEngine

A *caller* generates the two input files, `OpenBlacklist` (opening empties), `CloseBlacklist`,
`OpenHistory`, `WriteHistory` (a buffer at a time), as `generate_synthetic_data` does; a *run*
goes on with `Retrieve`, `LoadBlacklist`, `LoadHistory`, then `TryRule` for one rule on one
candidate, `Decide` at the end of a candidate, `Select`, `WriteAudit` and `Export`. The history is kept in
half lines, since a buffer ends anywhere in a line: `Parses(n)` says that the file has exactly its first
`n` lines, and anything else fails the input (`BrokenRow`), as an input that cannot be read does
(`Unavailable`); then `FailClosed` rejects every candidate. `Context` is what the rules see, and
`Holds` a comparison in it, with `None` for a field that is not known: it differs from everything, and to
order it raises (`CannotCompare`), as an operator does that the engine does not have. A condition (`Matches`) is
a comparison, which is an `and` of one, or `and`, `or` or `!` over comparisons; what raises in it
raises only if it is reached (`CannotEvaluate`, `RuleRaises`), since `all()` and `any()` stop when they are settled.
`in` is an `or` of equalities; connectives inside of connectives are left out (the shipped policies
have single comparisons only). `Precedes` is the order of `sorted()` by priority, id and place.

`misled` is a history variable: who was writing, or had died in, an input that a run read shorter than
it should be. Two remarks on the shipped configuration, which the model does not fix: the rules of
`policy_credit_v1` are implied by the filter a run searches with (`Passes`), so with it the gate rejects
only when it fails closed; and it has no rule on `is_blacklisted`, although
`docs/POLICY_ENGINE_SPEC.md` asks for a hard suppression of active blacklist records. Both are choices of a
configuration file, not of the engine, which is checked with rules on every field.

### UserAccess

A thread of the console serves a request. A login is `BeginLogin`, `LoginRow`, `LoginRoles`,
`LoginCredential` and perhaps `Rehash`, an upsert that asks for nothing; whoever is not let in this way is
tried against the environment (`FallBack`), and so is whoever meets an exception, also one of a rehash
that has been committed (`Upsert` in `Fail`). Another request begins with a cookie, then
`ResolveRow` and `ResolveRoles` are two reads, after which it acts: `Serve`, `CheckName`
with `Insert` and `AssignNext` (creation, a transaction per role), `SetActive`, `ChangeRole`, `SetPassword`. The access matrices are `PageRoles` and
`ActionRoles`. A bootstrap is `Find`, `CheckBoot`, `InsertBoot`, `AssignBoot`, `Reread`, `ListRoles`,
`EnsureActive`, `Verify`, `Seed`. `Watch` joins every step and keeps the history: how the user of a
request has `stood`, and which bootstraps were `meddled` with. `latest` and `settled` are the password last
set, and the users whose password was set while no login held an outdated one.

Abstracted: the signature and age of a cookie (one is good for ever, which only adds behaviours), hashes (a password and
whether its hash is outdated), profile texts, audit rows.

### RunResolution

A *saver* is `save_operator_defaults`: `Prepare` (read, merge, refuse), `Open` (empties the file),
`Close` (writes it), `Die`. The file is a text with a `size`, as a shorter text over a longer one
leaves its end behind: `Parses` says whether it can be read. `Valid` is what
`load_operator_defaults` makes of what an earlier release may have left. A *run* is `Resolve`
(`resolve_run_configuration`), five times `Lookup`, in the order of `Tables`, and `Decide`; `QueryFails` is an
exception in any of the queries, which without explicit ids only degrades the run. `Activate` and `Deprecate` move the registry
between them. Ids of the registries are assumed unique and times of activation distinct. Left out is that a profile may name an export
that the registry does not have, on which loading, saving and resolving raise (`control_plane.py:264`): the registry is a file of the
repository, in which every profile has one, and nothing writes it.

`meant` is what the saves add up to if each were one step, `disturbed` says that two overlapped or one broke off; `before`, `seen` and
`moved` are what a run's lookups may have met. Two things the model shows by the way: an explicit id is checked
for its version and state but not for its parent, and without a bound parent any active child is taken
(`Matching`); and two saves that overlap, or one that dies, may leave a file that every later load and
save refuses, until somebody deletes it.

## 3. What TLC checks

| Run | Instance | States | Shows |
|---|---|---|---|
| `delivery` | 2 runs (one staging), 2 customers, 3 executions, 2 faults | 686,000 | nobody left out, counts, outbox = records, file covers records, trail, no circular wait, records kept, refines `DeliveryLedger` |
| `delivery_live` | 1 run, 2 executions, 1 fault | 14,017 | `EveryExecutionEnds` under weak fairness |
| `index` | 3 generations over 2 aliases, 2 callers, 1 fault | 1,926,009 | whole collections served, rollback targets fit, refines `BlueGreen` |
| `index_serial` | 4 generations over 2 aliases, 1 caller, no fault | 16,363 | promotions are a stack, trail names what is served, rollback leaves the generation |
| `registry` | 1 version, 2 API callers, 1 UI request, 1 fault | 892,152 | no stage skipped, logs true, first activation had evidence |
| `registry_rivals` | 3 versions of 2 entities, 3 bootstraps, 1 fault | 639,375 | one active per entity; ended bootstraps leave an active version |
| `registry_race` | 1 version, 2 API callers | counterexample | see divergence 1 |
| `runflow` | an API run (strict) and a DAG run, 3 generations over 2 aliases, one trouble | 1,389,132 | used collections fit, a lone run uses its own index, nothing leaves without an audit row, an ok event is backed |
| `runflow_audit` | the same without trouble | counterexample | see divergence 2 |
| `policy` | a run and make generate, 3 customers, 6 policies, 2 history rows, 2 faults | 65,557 | verdicts follow the policy, inputs respected, the export is the best of the approved and what the audits say |
| `users` | 1 user (also the one of the environment), 2 threads, 1 bootstrap, 9 requests, 1 fault | 1,428,380 | deactivation bites, a password that was set stays, the bootstrap leaves an administrator |
| `resolution` | 2 savers, 1 run, 9 versions in 5 tables, 2 changes, 1 fault | 110,765 | saves add up, bindings hold together, undisturbed bindings are the latest |

`CHECK_DEADLOCK FALSE` is in every configuration since each system stops by right: all
executions have ended, all generations are built and nothing is left to do.

**Why the bounds are enough to be interesting.** Delivery: three executions give a winner, a
loser and a retry of the same key; two customers are the least for two loops to meet in
opposite order and for a split audience; two faults let an execution fail *in* its
failure handler, or a winner roll back while the loser waits; the second run exercises the request
whose export writes no staging. Executions are symmetric, customers are not (they are ordered).
Index: two callers are the least that overlap, three generations let one caller pass the
other, the second alias shows that "latest" crosses aliases. The serial run has four so that a
stack of three promotions is rolled back twice. Registry: the transition has three transactions,
so two API callers and a UI request give every interleaving of the reads
and updates of one version; bootstraps have a run of their own as its questions
are about several versions. A request of the UI or a caller that has ended may begin again, so the behaviours are not
bounded in length. Run flow: two runs are the least that overlap, each owns a generation and make has a third,
of another alias. `MaxTroubles` bounds together what goes wrong (a call that raises, a run that
dies) and what admins and make add, so one trouble is a failure at any point of any of the two runs, or one
operation of an admin or a make build anywhere among them; the combinations of several are left to
the theorems, which have no bound. Policy: one writer beside the run is what a torn file takes; two history
rows of one customer lie on the boundaries of two windows (7 and 30 days); the policies between them have ties, missing
priorities, stops, an unknown field under each kind of operator, each connective, a comparison that raises unless another one settles its
condition first, a disabled rule that would raise and a code the dictionary lacks; equal
scores meet a requested size of one. Two faults let the writer die and the input fail. Users: one user is
enough, since no statement touches two; two threads give a login or a request with one that
changes what it has read, the bootstrap a third actor; rival bootstraps beside two threads are more than TLC can
enumerate and are left to `BootstrapsLeaveAdmin`, which has any number of them. Resolution: two savers overlap; two models share the version of
the bundle, so that a child may be taken of the wrong one, and `MaxChanges` allows a
deprecation followed by an activation between any two lookups. A larger `MaxChanges` repeats these. No bound other than `MaxFaults`, `MaxTroubles`, `MaxChanges` and
the sizes of the sets is used. Threads and savers are symmetric; customers, runs and versions
are not.

**Fairness.** `FairSpec` of `Delivery` has `WF_vars(Step(j))` for each execution: a thread or task
that has begun runs on, and a statement that is not blocked is executed. Nothing makes a
request begin, an export happen, a call raise or a process die. A blocked insert is not enabled, and
weak fairness is enough because the transaction it waits for ends. The lifecycle of the index
and the registry are request driven, and a run whose process dies is never taken up again; nothing in the code promises that anything is ever
promoted or activated, so no liveness is stated of them.

**Divergences from the documents** (each is a run that TLC refutes):

1. `registry_race`: `docs/ENTITY_LIFECYCLE.md:24` does not allow `draft -> active`. Two callers
   that read the same row take a version back to draft and then activate it. `NoStageSkipped`
   is what still holds: it has been validated at some time. `UnracedFollowLifecycle` proves that
   nothing else leads off the edges: it takes two callers between the read and the update of one version.
2. `runflow_audit`: `docs/CONTROL_PLANE_V1.md:72` makes the audit tables the source of truth for the
   lineage of runs. The audit row of a run has the generation its promotion returned; when another run
   promotes before the search, all customers come from the other generation. What holds
   is `UsedIndexesAreFit`, and of runs that nobody overlaps `LoneRunUsesItsOwnIndex`.

Two more that the modules have but no run is kept for: when the append of the last attempt row
raises, the `except` block of `delivery_runner.py:198` overwrites a `delivered` job with `failed` and
zero counts while the records stay (the properties about finished jobs speak of jobs whose row
says delivered, so they hold); and two promotions that overlap make a generation its own rollback
target, so that a rollback marks rolled back what stays served. `docs/INDEX_LIFECYCLE.md:35` has a
rollback switch to the previous generation, but line 117 also asks to promote one at a time per alias.
`index_serial` shows for one caller that this suffices, and `PromotionsAreAStack`, `TrailKeepsUp` and
`RollbackMovesOn` prove it for any number, provided that validations wait for their turn too: `_mark_validation`
sets the status whatever it is by now, so one that overlaps a promotion takes the served generation off the stack.

## 4. What TLAPS proves

Assumed of the constants: only the named `ASSUME`s of the modules (the sets of callers are
disjoint, a null value is not a member, customers are a finite set of integers, a bound is a
natural number). The theorems hold for any number of runs, customers, executions, generations,
callers, versions and faults.

Each module of proofs defines an inductive invariant (`IInv`, `FlowInv`), proves that it holds
initially and, one lemma per action or group of like actions, that it is kept, and derives the
properties from it. Where a property needs more than that, a second invariant is proved on top of the
first. TLC has checked every one of them on an instance like that of its property's run.

* **DeliveryProofs**. `FinishedJobLeavesNobodyOut` is not inductive: it must be known what each
  stage of an execution knows. `IInv` adds that the staging snapshot is the whole export once
  rows were read; that a row an insert loop has passed is owned by a committed job or by
  itself and not by two open transactions at once; that a job row's counts are those of
  the local variables at each stage; that a file is written before the records are; and that
  records and outbox rows agree outside of transactions. Theorems: `TypeCorrect`, `NobodyLeftOut`,
  `CountsAreTrue`, `OutboxAndRecordsAgree`, `FileCoversRecords`, `RecordsStay` (an action property) and
  `ImplementsLedger` (every step is a step of the ledger or stutters). `OutboxRowsGetRecords` shows that
  the branch of `delivery_store.py:974`, which raises when the two row counts differ, is never taken.
  Two more invariants: `InOrder`, that an insert loop has inserted only rows before those it has left, so
  that in a circle of executions the one that holds the greatest row waited for would wait for a greater one
  (`NobodyWaitsInACircle`, the case for `sort_staged_rows`; there is a greatest since the customers are
  finitely many integers); and `TrailInv`, that the attempts so far are those of the stage
  (`TrailTellsStatus`).
* **IndexProofs**. `IInv` says that what a caller *holds* between a read and a write stays
  fit to be served whatever others do: statuses only move within the approved set once
  approved, and a builder alone touches its collection. Theorems: `TypeCorrect`,
  `ServedGenerationsAreWhole`, `RollbackTargetsAreFit`, `ImplementsContract`. The three properties of
  serial use do not hold of callers that overlap or fail, so their theorems (`PromotionsAreAStack`, `TrailKeepsUp`,
  `RollbackMovesOn`) are about the behaviours of any number of callers in which `TakeTurns` always holds: no two of
  them validate, promote or roll back generations of the same alias at a time, and nothing has failed. Builds, and whatever
  is done at other aliases, may overlap freely. `SerialInv` states the stack (`Stacked`: all but the top are the target of exactly one
  other, and following targets ends) with its top where it is *between* the switch of the alias and the
  update of the row (`TopOf`), and that what a caller has read is still so. `AtAlias` is what a step does at one
  alias; `SerialStep` proves once that such a step keeps the invariant for everybody.
* **RegistryProofs**. `IInv` says what a caller may rely on although the row may have changed
  since it read it: the state it saw has been *reached*, its target is a successor of that,
  and a UI request past its evaluation has a cleared version. Theorems: `TypeCorrect`,
  `OneIsActive`, `StagesAreTaken`, `ClaimsAreTrue`, `FirstActivationsAreCleared`.
  `BootstrapsKeepOneActive` assumes that there are no other callers (`OnlyBootstraps`, as in `registry_rivals`): `BootInv` says of
  every entity that has had an active version that it has one, or that a bootstrap is on its way to activate one
  after it has deprecated another. `UnracedFollowLifecycle` is about behaviours in which no two callers are between the read
  and the update of the same version (`NobodyRaces`): then what a caller has checked still holds at its update (`RaceInv`).
* **RunFlowProofs**. Every step of a run is a step or a stutter of the index lifecycle (`FlowIsLifecycle`), so
  `IInv` of `IndexProofs` and its refinement of `BlueGreen` carry over: what is fit stays
  fit and an alias never goes away. `FlowInv` adds that what a run has promoted, searched and
  audited is fit (at the return of a promotion this is what the caller *held*); that a run in
  `exporting` with a candidate has an audit row; and that from `logging` on the delivery agrees with
  the staging and nothing touches either. Theorems: `FlowIsLifecycle`, `FlowTypeCorrect`,
  `RunsUseFitIndexes`, `ExportsAreAudited`, `OkEventsAreBacked`. For `LoneRunsAreTheirOwn`, `LoneInv` follows a run that nobody
  overlaps phase by phase: the file is its own, the generation it has built is the newest of all, so it is the
  latest in its status whatever generations others have left in that status before.
* **PolicyProofs**. The files: one that is not whole has a caller in it, alive or dead, of which the
  last one to empty the history has all it wrote still there (`HistoryWhole`). The loop: the reasons
  found so far come before every rule that is left, and as long as there is none no rule already
  tried rejects (`LoopOK`), so that a rule that stops the others cannot change the verdict. Theorems: `PolicyTypes`,
  `DecisionsAreThePolicys`, `InputsAreRespected`. `SelectionInv` says what each step of the selection and of the audits has
  written, and that the counts are those of the reasons listed so far; from it follow
  `UnreadInputsFailClosed` and `ExportsAreTheBest`. That the selection has the size asked for needs no induction:
  with a total order, the number of candidates ahead of each is one-to-one into, hence onto, the numbers below the size of the set
  (`FirstOfAnOrder`), and `Better` is such an order since equal scores are decided by the place (`BetterIsAnOrder`).
* **UserProofs**. The invariant says what each actor may rely on between its statements: that a
  request has seen its user active, then allowed; that an outdated hash is either gone or held by a login that
  `settled` has noticed; that a bootstrap past a statement has what it ensured unless meddled with. Theorems: `UserTypes`, `RequestsStand`, `PasswordsStay`,
  `BootstrapsLeaveAdmin`.
* **ResolutionProofs**. `SaveInv`: until the defaults are disturbed there is one saver at a time, it
  holds the sum of the saves before it and the file is empty while it has it open. `RunInv`: what a run has found is tied to what it has
  seen and to its parents, which are looked up before (`TableOrder`), and unless the
  registry moved it is the latest of the registry as it was at the start. `LatestExists` proves that the
  `ORDER BY` has a first row. Theorems: `ResolutionTypes`, `SavesAreAddedUp`, `BindingsHold`, `UndisturbedBindings`.

Every safety property of the passing runs is thus a theorem. Only model-checked is the liveness property
`EveryExecutionEnds`. Out of the prover's reach are liveness under fairness and `ENABLED`,
induction over data, and modules with `RECURSIVE` operators; no module here declares one. The two properties
that TLC refutes are what it says they are: `LifecycleFollowed` of callers that race, and the audited lineage of runs that
overlap.

## 5. Not modelled, and why

Connectors (files, MinIO, ClickHouse, Redis) and their probes, the computation of embeddings and of the feature mart, data quality, pages and translations are
sequential data processing or I/O: nothing they do depends on what another process does, beyond
the shared files that `RunFlow` and `PolicyEngine` have. Tasks of a DAG run that an operator clears and runs again, the
summary file, and retrieval outside of a run are left out of `RunFlow`. `switch_alias`, `switch_alias_to_blue`, `create_or_replace_index` and the
`materialize` method of the outbox target are not reached from the system's entry points. The
listing functions of delivery, lifecycle, registry and users change nothing; the order that the latest delivery summary
of a run is chosen by (`delivery_store.py:1240`) shows on pages only. API keys, the signature of a cookie and the
hashing of passwords are taken as they are. Scripts and the benchmark harness are tools
around the system.

## 6. Plan

Order, most important behaviour first; 1 to 8 are done.

1. `Delivery`, `DeliveryLedger`, `DeliveryProofs`.
2. `IndexLifecycle`, `BlueGreen`, `IndexProofs`.
3. `Registry`, `RegistryProofs`.
4. `RunFlow`, `RunFlowProofs`.
5. `PolicyEngine`, `PolicyProofs`: the gate of a run and the files it reads.
6. `UserAccess`, `UserProofs`: login against reset, deactivation against sessions, the bootstrap
   administrator.
7. `RunResolution`, `ResolutionProofs`: the defaults file and the lookups of the lineage.
8. Further proofs, until every safety property of the runs is a theorem: `ExportIsBest`, `LoneRunUsesItsOwnIndex`,
   `NoWaitCycle` and `TrailEndsInStatus` of Delivery, `RollbackStack` and the other two of callers that
   take turns, `BootstrapsLeaveOneActive`, `LifecycleFollowed` without races.
9. What is left: the step from `RunFlow` to a contract of its own (what an audience run promises to who reads
   its event), and of `Registry` and `PolicyEngine` abstract specifications that their invariants so far stand for.
