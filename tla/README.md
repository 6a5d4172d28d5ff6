# Verification of the unified security dashboard

TLA+ models of the backend of this repository (`src/backend/app`), the TLC
configurations that check them on small instances, and TLAPS proofs of nearly
every safety property those runs check, for every value of the constants. Paths
below are relative to `src/backend/app` unless they start with `src/`, `docs/`
or `deploy/`.

## 1. The system

Pollers fetch what an upstream scanner lists, store it as a *raw snapshot* and
publish an envelope that names it. Pub/Sub pushes the envelope to the
normalizer, whose `/internal/normalize` loads the snapshot, maps it to
findings and applies it to PostgreSQL in one transaction. A nightly job
corrects owners and computes `daily_metrics`; the API reads the tables. Who
owns a finding, which page shows it and who may see it is configuration: YAML
files in a bucket, validated before they are uploaded and cached by every
instance.

| component | state | operations | interacts with |
|---|---|---|---|
| pollers (`pollers/`) | none of their own | a run: fetch all pages, `raw_store.put`, `publish` | upstream APIs, raw store, Pub/Sub |
| raw store, transports (`adapters/`) | one object per poll | put, get; publish over Pub/Sub or HTTP | pollers, normalizer |
| delivery (`deploy/terraform/pubsub.tf`) | messages, delivery attempts | push, redeliver, dead-letter | normalizer |
| mappers (`normalizer/mappers/`) | none | raw issue to `NormalizedFinding`: id, source, asset, stamped owner | configuration caches |
| snapshot processor (`normalizer/processor.py`) | `findings`, `finding_events`, `processed_payloads` | `process_snapshot`: idempotency row, reconciliation of legacy ids, insert / update / reopen, absence, auto-close | every other writer of `findings` |
| configuration caches (`core/config_store.py`, `core/policy.py`) | per process: parsed files and their age | get (reload after 600 s), force_reload | configuration bucket |
| ownership re-resolution (`internal/ownership_reresolve.py`) | `findings.owner_team`, `ownership_changed` events | `core_reresolve`, from a job, the nightly rollup or a configuration push | processor, caches, rollup |
| daily metrics (`jobs/rollup.py`) | `daily_metrics` | nightly run, backfill, ownership pre-step | findings, events |
| SLA clock (`api/sla.py`) | none | anchor, age, breach | rollup, API |
| configuration upload (`core/config_validate.py`, `scripts/validate_config.py`, `deploy/terraform/storage.tf`, `internal/config_reload.py`) | objects in the bucket, notices | validate, upload file by file, notify, reload, resolve owners | caches, re-resolution |
| dead letters (`internal/dlq.py`, `internal/slack.py`, `api/routes_admin_dlq.py`) | `dead_letters` | record once, notify, resolve | delivery, Slack |
| tokens and identity (`core/tokens.py`, `core/identity.py`, `api/routes_tokens.py`) | `api_tokens` | issue (capped), revoke, verify, touch last use | API |
| coverage (`coverage/`) | report and history files | collect, compute, append to history | GitHub, SonarCloud |
| component registry and scope (`core/component_registry.py`, `core/scope_resolver.py`) | parsed files | lookups | caches, API |
| findings and metrics API (`api/`) | none | queries, scoping, replay of events | tables |

What makes it hard:

* Pub/Sub delivers at least once and in any order, and a snapshot is a whole
  state, not a change: an old one applied late undoes newer ones. The
  processor keeps no order; what it does guarantee has to be said with care.
* Up to three normalizer instances run `process_snapshot` at once under READ
  COMMITTED, with an ORM that writes only the columns it changed from what it
  had *read*.
* A change of the mapper re-keys existing rows; rows, their events and the
  unique constraint on `(source, native_id)` have to survive it.
* Three writers of `owner_team` work from configuration files of different age.
* The trend is computed from an event trail, for days long past.
* The same number is computed in several places: a badge counts rows, a KPI
  replays events, a list filters by SQL, a page adds clauses, and all have to
  agree while owners, tags and files change under them.
* A listing changes while it is paged through, and what a snapshot lacks is
  closed; a partial snapshot looks like a whole one.
* A request's answer leaves before its session commits.
* A revision of the configuration is several objects, read one by one at
  different times by caches that expire on their own.
* Transactions fail half-way, instances die, answers get lost.

What would make each component correct:

* processor: a poll is applied at most once; `consecutive_misses` is the number
  of polls since the finding was last reported; it closes exactly when that
  reaches the threshold; the trail explains the status and is never cut;
  reconciliation leaves neither orphans nor collisions.
* delivery: every published poll ends applied or dead-lettered.
* ownership: owners come to agree with `ownership.yaml`.
* rollup: the counts of a past day are what was open then; a change of owner
  moves a finding in all of the window.
* SLA: one anchor, wherever it is computed.
* pollers: what a snapshot lacks has a reason, one bad poll closes nothing, and
  the table comes to agree with the scanner.
* queries: the sections of a page agree; a headline drills down to the list it
  counted; no unowned finding is on no page; admin-only sources stay hidden.
* dead letters: recorded, announced at most once, and not undone by repetition.
* tokens: nothing revoked or expired passes, and the cap holds nearly.
* configuration: what an instance answers with is not older than promised, and
  owners follow the files.
* coverage: no sample is lost (it can be: see 5).

Hazards are listed one by one, at their line, in `PROJECT.json`.

## 2. The modules

| module | what it is |
|---|---|
| `FindingTable` | the tables and `process_snapshot` as operators on them |
| `Ingest` | pollers, raw store, Pub/Sub and the handler; extends `FindingTable` |
| `FindingLifecycle` | abstract specification: the life of one finding |
| `IngestProofs` | lemmas on the operators of `FindingTable`; theorems of `Ingest` |
| `ConcurrentIngestProofs`, `RollupProofs`, `PollerProofs`, `DeadLettersProofs`, `TokensProofs` | the theorems of those modules |
| `ConfigurationProofs` | the theorems of `Configuration` and `Ownership` |
| `QueriesProofs` | the theorems of `Dashboard`, `Queries` and `Ratings` |
| `ConcurrentIngest` | `process_snapshot` statement by statement, on several instances |
| `Poller` | a poller's pages, caps, aborts and retries, and what its snapshots do to the rows |
| `DeadLetters` | recording, announcing and resolving polls that were given up |
| `Ownership` | the writers of `asset_id` and `owner_team` |
| `Rollup` | `daily_metrics` and the replay it is computed from |
| `Registry` | the configuration files as values, and what is derived from them; no variables |
| `Configuration` | validation, upload, notices, caches and re-resolution; extends `Registry` |
| `Dashboard` | everything that changes what the read routes read; extends `Registry` |
| `Queries` | the read routes as operators on a state of `Dashboard`, and what relates them |
| `Ratings` | the grades of the posture page; arithmetic, no variables |
| `Tokens` | API tokens: cap, expiry, revocation, verification |
| `MCIngest`, `MCOwnership`, `MCPoller`, `MCDashboard`, `MCConfiguration` | instances for TLC; the other modules take their constants from the cfg alone |

### FindingTable and Ingest

`findings` is a function from finding ids to rows; `events` a set of records,
each with the poll (by order of application) that emitted it; `processed` the
set of polls in `processed_payloads`; `raw` the raw store, one snapshot per
poll in the order they were taken; `msg[i]` where poll `i`'s envelope is. An
id is the mapper's hash of source and native id: `StableId(n)` is the one
today's mapper gives native id `n`, `LegacyId(n)` the one an older deploy gave
Trivy findings. A title, severity, description and the rest are one *content*,
and the events of their change one event type.

`SnapshotRows` and `SnapshotEvents` are `process_snapshot` as a function of the
tables, in the order of the code: reconciliation (`Stale`, `Keeper`,
`ReconciledEvents`), the per-finding loop (`Inserted`, `Updated`,
`UpsertEvents`), absence (`Aged`), auto-close (`Closes`). `Commit` is one
transaction: it is disabled where the database would refuse it (a finding
listed twice and not there yet, `InsertedTwice`; the unique constraint), and
then only `DeliverFails` is left. `Deliver` is an acknowledged push,
`DeliverUnacked` one that committed and whose answer was lost, `DeliverFails`
one that did nothing. The threshold and the ownership map are whatever the
instance's caches hold, chosen anew for every transaction.

`FindingLifecycle` knows one finding and the polls of its poller: it is
unknown, open with so many misses, or closed. `Ingest` implements it for every
finding (`ImplementsLifecycle`); the mapping reads its state off the row and
`processed`. Since a step of the abstract specification applies a poll that
was not applied before, this is the exact sense in which redelivery is
harmless and late delivery is not hidden.

### ConcurrentIngest

What `Ingest` takes as one step is here `Claim` (the `ON CONFLICT DO NOTHING`
insert, which waits for a concurrent insert of the same key), `UpdateRow` /
`InsertRow` per reported finding, `Absent` and `AgeRow` (the UPDATE of the
absent rows, one row at a time as locks come free, re-evaluated on the version
it finds), `Select` and `CloseRow`, then `Commit` or `Rollback`. `txn[w].mine`
are the row versions a transaction has written, which are also the locks it
holds. `Dirty` is SQLAlchemy's flush: only columns that differ from what was
read. PostgreSQL itself is external: READ COMMITTED visibility, row locks, the
deadlock detector (`Deadlocked`) and duplicate keys (`DuplicateKey`), which
only ever end in `Rollback`.

### Poller

What `Ingest` takes as one step, a poll, is here `Start`, one `Fetch` per page,
`Put` and `Publish`, interleaved with `Change`s of the scanner's listing. A poll
makes one query per organisation or detector and combines the answers. Pages
are numbered (`PageByNumber`: SonarCloud, with its total and its cap) or follow
a cursor (`PageByCursor`: Wiz, Jira, Dependabot); `CursorMissing` is the page that
promises another and names none; `Uncounted` the impact count of the Threat
Center that fails and is skipped; `StartOnly` Wiz's `--only-detector`. `Abort` is
every way a job ends before its `publish` returns. `rows` and `Apply` are
`process_snapshot` reduced to status and misses, on one poller's findings.
`steady`, `omitted`, `always`, `shrunk` and `cut` are history. Executions of one
poller that overlap are modelled as one at a time.

### DeadLetters

`messages` are those of the dead-letter topic, by id; the ingest subscription
gives a poll up (`GiveUp`), the dead-letter subscription pushes it (`Push`, also
while another instance still has it) and, out of attempts, forwards it to the
topic it came from under a new id (`Forward`). `/internal/dlq` is `Record` (the
insert `ON CONFLICT DO NOTHING` and its commit), `Tell` or `TellFails` (Slack) and
`Ack`; `Open`, `Save` and `SaveFails` are `resolve_dlq_event` and the commit of
its session. A message whose data is undecodable is recorded, and the second
decoding then raises: the repeated push finds the record and is acknowledged, so
that nobody is told. A message whose data decodes to something other than an
object raises before the commit and is never recorded; it is left out, as no
program of this repository publishes one. The listing of records (its limit is
200) is a query over one table.

### Ownership and Rollup

`file` is `ownership.yaml`; `cache[w]` an instance's map; `rows` the two
columns; `ingest[w]` a snapshot between being mapped, loaded and committed;
`job` a run of `core_reresolve` between its scan, its `session.get`s and its
commit. A run starts with the file as it is: jobs are new processes, and a
configuration push reloads before it resolves. The model has one batch, where
a table of more than 500 rows takes several statements, and one run at a time:
two that overlap, with maps of different age, are `Configuration`'s.
`resolve_finding_owner_team` is a map from asset ids to teams (`TeamOf`); that it
looks up Wiz assets in the component registry instead of `ownership.yaml` is left
out. `calm` is history: the file has not been edited since the run started, and
every snapshot committed since its scan was `Plain`, that is, brought what the file
says of the rows as they were.

`Rollup` counts time in instants. Ingest appears as the four things it can do to
a row the rollup reads. `OpenAt`, `AnchorAt`, `Compute` and `Upserted` are the
code's replay, aggregation and upsert; `Resolve`, `RollUp` and `Die` the
nightly job, whose pre-step and aggregation are separate transactions. `was`
is auxiliary: what really was open when a day ended. The options `--date` and
`--backfill-days`, and the four statements of `compute_rollup` as separate
reads, are left out.

### Registry and Configuration

`Registry` has the files as records and functions and derives from them what the
code does: the owner of a finding (`OwnerOf`, `resolve_finding_owner_team`), the
teams and assets of a request (`ScopeTeams`, `ScopeAssets`, `resolve_scope`), the
code team and the Wiz teams of a tab.

`Configuration` follows a revision of `ownership.yaml` and
`component_registry.yaml`: `Apply` when `Valid` (the gate is
`scripts/validate_config.py` in CI, `.github/workflows/ci.yml`), `Upload` one object
at a time, each with a notice that names no file, so that every one reloads and
resolves. `Fresh`, `StartRead`, `EndRead` and `ReadFails` are a cache's `get`, which
holds the instance's lock while it reads; `Reload` is `force_reload`, which waits
for that lock; `Push`, `TakeMap`, `Resolve` and `CallFails` are
`/internal/config-reload`. `table` is the map the owners were last resolved with:
`core_reresolve` itself is `Ownership`'s. `replaced` (how long ago the object of a
revision was replaced) and `crossed` are history.

### Dashboard and Queries

`Dashboard` is the state behind the read routes: `rows`, the `trail` of lifecycle
events, `own` and `subs` (the configuration). `Discover`, `Report` and `Close` are
what ingest does to one finding; `Reresolve` is `core_reresolve`; `ReresolveServices` and
`ReresolveClouds` are the two halves of `wiz-map reresolve` and `Retag` is
`reresolve-pillar`; `Push`
another content of the files; `Tick` the clock.

`Queries` has the request as a record, the SQL clauses as predicates on a row
(`OnTab`, `WizOn`, `InTriage`, `BreachPredicate`, ...), and each route as the set of
findings it selects: `List`, `WizByCategory`, `Detail`, `InSummary` with the KPIs,
`Posture` and `Card`, `TopTeams`, `TopServices`, `Breaches`, `TrendToday`. The routes
select the same findings by different clauses, and the properties say how their
results are related. `Requests` is the set of requests that are asked in every
state: one for each kind of parameter.

`Ratings` has the arithmetic of the grades: `SourceGrade`
(`_compute_source_rating`), `Score` and `Grade` (`_compute_rating`). Percentages are
in tenths, as `sla_compliance_pct` is: `IsCompliance` has the rounding of the share
of open findings in time (in the middle between two tenths either, as the floats
decide), `SlaScore` that of `pct * 0.35`, half to even, whose ties and float error are
at 10, 30, 50, 70 and 90 percent (`RoundedDown` are those that go down). The definition gives what Python
gives for all 1001 tenths.

### Tokens

A request is a database session: it reads, answers and commits, in this order,
as FastAPI (from 0.118 on; `pyproject.toml` asks for a later one) leaves a
dependency after the response was sent. `Create`, `AnswerCreate`, `CommitCreate` and `Revoke`,
`CommitRevoke` are the token routes, which a bearer request may not call (403);
`Present`, `Select` and `Accept` the verifier, which has a session of its own,
commits before the route runs and writes only `last_used_at`. Which secret a token
has is abstracted to its identity.

## 3. The runs

| run | bounds | shows |
|---|---|---|
| `ingest` | two pollers, one finding each, a legacy row, 3 polls, 2 attempts | `TypeOK`; `TrailExplainsStatus`; `NoOrphanEvents`; `ReconciliationPreventsCollision`; `TrailIsKept`; `PollSettles`; `ImplementsLifecycle` |
| `concurrent` | 2 findings, 2 polls, 2 instances, thresholds 1 and 2, 2 attempts | `TypeOK` (with: no row is written by two transactions); `AppliedOnce`; `MissesAreAbsences`; `AloneIsSerial`; `TransactionsEnd` |
| `poller` | SonarCloud and Wiz, 3 issues on the second of 2 queries, pages of 1, at most 2 pages, threshold 2, 2 unsettled snapshots, 2 changes of the listing, 1 failure | `TypeOK` (with: a message names a stored snapshot); `OmissionsExplained`; `OneBadPollIsTolerated`; `Converges` |
| `deadletters` | one of 2 polls (one undecodable), 4 message ids, 2 attempts, 2 instances, 2 admins, 3 failures | `TypeOK` (with: what is acknowledged is recorded); `ToldOnceOrForAReason`; `RepeatsCostFailures`; `ResolutionStays`; `Settles` |
| `ownership` | one finding, two instances, two teams, two files | `RunsRepair`; `OwnersConverge` |
| `rollup` | one finding, two teams, 3 days of 3 instants, window of 2 days | `ReplayIsHistory` (of past days and of the present); `TrendIsHistory` |
| `configuration` | 2 instances, 2 files, 3 revisions (the last invalid), caches of 1 tick, instant reads, 1 failure | `TypeOK` (with: only validated revisions are in the bucket); `StalenessIsBounded`; `MisalignmentEnds`; `OwnersLagForAReason` |
| `dashboard` | 2 findings (one of 7 kinds, one a SonarCloud critical), 2 contents of the files, 4 instants, a week of 1 and a month of 2, 12 requests | `TypeOK`; `SectionsAlign`; `CardsAddUp`; `HeadlineDrillsDown`; `MomentumExplainsDelta`; `NothingHidden`; `AdminOnlyStaysHidden` |
| `tokens` | one user, 3 tokens, 2 requests, a cap of 1, 2 instants, 1 failure | `TypeOK`; `AcceptedWasValid`; `CapIsNearlyKept`; `RevocationIsFinal` |
| `concurrent_report` | as `concurrent`, threshold 2, one attempt | counterexample to `ReportLeavesOpen` |
| `rollup_trend` | as `rollup` | counterexample to `TrendMatchesOpen` |
| `dashboard_advisories` | as `dashboard` | counterexample to `AdvisoriesOnTheirTab` |

Why the bounds are enough.

* `ingest`: three polls are the fewest in which a finding is reported, missed up
  to threshold 2 and reported again, in all orders; two attempts the fewest with
  a redelivery and a dead letter; two pollers are what it takes for one to age
  the other's findings, and the second one's threshold may be `Never`. One
  finding per poller is no loss for the invariants, which are proved for any
  number.
* `concurrent`: two findings are the fewest that deadlock, two instances the
  fewest that interfere (Cloud Run allows three); a threshold of 2 against two
  polls stands for "never closes".
* `poller`: three issues against two pages of one are one more than the cap
  holds and two more than a page; two changes are the fewest that take one issue
  off the listing and put another on it; an idle first query is enough for
  queries to be combined, and is the detector before the Threat Center. With one
  failure and threshold 2, a finding is closed only by two polls that both lack
  it, for which the shrinking listing of numbered pages gives the other reason.
* `deadletters`: three failures forward a message at most three times, for
  which four ids are enough; two instances are the fewest with two pushes at once, two
  admins the fewest that resolve at once.
* `ownership`: two files are the fewest that move the finding to another asset and
  change the owner of each; two instances are one with the old and one with the new
  file. One finding is enough where each row is written on its own (the properties
  are about one row each), and the safety property is proved for any number.
* `rollup`: three instants are the fewest with a beginning, an end and the second
  after the end of a day; three days hold a window and a day to run the job on.
  With one finding its counts are 0 or 1; that several of them add up is
  `Cardinality`.
* `configuration`: two instances are one that is notified and one that is not,
  and are interchangeable (`SYMMETRY`: the properties are invariants); two files
  are the fewest a revision can be torn between; an invalid revision shows that
  the validation is what keeps them aligned. One failure is a read that fails or
  a notice that is pushed twice.
* `dashboard`: a finding of every kind that is treated differently anywhere in
  the queries, next to one that is in most scopes; four instants hold a week, a
  month and the edges of both SLA windows (1 and 2).
* `tokens`: with a cap of 1, two requests are the fewest that exceed it, and
  reach the bound; three tokens are one more than that bound, so that it is not
  the tokens that run out.

`CHECK_DEADLOCK FALSE` where polls, attempts, ids or revisions are bounded and a
system with nothing to do may stop; in `dashboard`, `poller` and `tokens` deadlock
is checked.

### Fairness

* `Ingest`: weak fairness of pushing each pending message
  (`deploy/terraform/pubsub.tf`: it retries until the last
  attempt, then dead-letters). Pollers
  owe nothing, and every push may fail.
* `ConcurrentIngest`: a transaction goes on while it can; one that cannot,
  because of a duplicate key or a deadlock, is ended by the database. No
  fairness of delivery.
* `Poller`: Cloud Scheduler starts the job again and again (`scheduler.tf`; a
  failed execution is retried once, `cloud_run.tf`, which is a start like any
  other), a job that runs goes on, and Pub/Sub delivers what is published.
  Failures are bounded, as "in the end nothing fails any more".
* `DeadLetters`: Pub/Sub pushes what waits and forwards what is out of attempts;
  a call that runs goes on. Nobody owes a resolution.
* `Ownership`: a cache older than `REFRESH_INTERVAL_SECONDS` is read again on
  the next use, and a handler runs to its end (weak fairness); the rollup is
  started every night (`scheduler.tf`, `0 1 * * *`) and, if it can fail at any
  step, does not fail every night (strong fairness of its steps). An instance
  that is never used again keeps a stale cache, but writes nothing either.
* `Rollup`, `Configuration`, `Dashboard`, `Tokens`: safety only. That owners do
  follow the files is `OwnersConverge`.

### What the counterexamples say

* **Reports that overlap** (`normalizer/processor.py:377`). A snapshot reads a row
  with no misses, another one commits a miss (or closes the finding), and the
  first one's `consecutive_misses = 0` is no change to what it had read and is
  never written. The finding is reported by the last snapshot and has a miss, or
  is closed until the next poll. `MissesAreAbsences` bounds the damage: a miss is
  never counted twice.
* **Trend** (`jobs/rollup.py:226`). A bucket with nothing left to count is not
  written, so a backfill after an ownership change leaves the old team's count.
* **Advisories** (`core/wiz_subscription_pillar.py:256`). `wiz-map
  reresolve-pillar` takes every open Wiz row, Threat Center advisories too, and
  drops the tag that puts them on their tab; the next poll puts it back.

### What else the modelling showed

Known differences and edges of the code that no run is about. Of the writers:

* When a legacy row is merged into its sibling (`normalizer/processor.py:239`), its
  `auto_closed` event may become the latest of a finding that is open; the rollup
  then replays it as closed. `TrailExplainsStatus` says exactly which findings are
  exempt.
* Nothing in a row says that its owner came from Jira labels, so every
  re-resolution moves pentest findings to the owner of `jira:<key>`, which no file
  lists, and every poll moves them back (`internal/ownership_reresolve.py:118`).
* Asset and owner of a row can come from different files for a while
  (`normalizer/processor.py:363`).
* The rollup restarts a reopened finding's clock (`jobs/rollup.py:140`); the
  API does not.
* A full Wiz poll can succeed without an advisory that has impact: a count that
  fails is logged and skipped (`core/wiz_threat_center_fetch.py:206`), while
  `docs/ingest.md:3` calls every poll a full snapshot.
* `docs/architecture.md:69-70` and `docs/configuration.md:17-18` say owners are
  not rewritten until the next ingest or `make ownership-reresolve`, but the
  nightly pre-step and the configuration push rewrite them too.
* `docs/configuration.md:66-68` speaks of one SonarCloud snapshot per
  organisation; the poller makes one of all.

Of the configuration:

* `ConfigCache`'s docstring (`core/config_store.py:337`) promises a background
  refresh; the code reads in the caller, under the lock, and raises when the read
  fails, whatever was cached before.
* Two resolutions that overlap may leave the owners of the older file until the
  nightly rollup (`OwnersLagForAReason` has the exemption).
* The validation looks at a component's primary asset only; its other Sonar
  projects may be stamped with another team.
* `coverage.yaml` has a cache of its own that `reload_caches` does not drop.

Of the queries:

* An unknown pillar, application or Jira project stands for no team, and no team
  means the whole organisation. A service or repository filter that matches
  nothing asks for `repo:<name>`, without an organisation.
* On a tab, the cards ignore source and repository filters that the headline
  applies, the MTTR of the posture ignores the assets in scope, and the
  observation window ignores `platform_wiz_issues_only`.
* After `reresolve-pillar` without a re-resolution, cloud resources keep the owner
  of their former pillar and can be on no page; so can an unowned row between a
  push of `ownership.yaml` and the re-resolution (`NothingHidden` asks for fresh
  stamps).
* The week-over-week change counts a critical from its anchor on, which may be
  long before its discovery (`MomentumExplainsDelta` asks for equality).
* MTTR's docstring mentions accepted risks; the code takes `fixed` and
  `auto_closed`.
* The SLA percentage is of the open findings alone, so that fixing one within its SLA
  lowers it: with a critical in time and a high in breach open, fixing the
  critical takes the headline from B (70 points) to C (64), although nothing that is
  open got worse (`QuickRepairMayCost`; `FirstRepairIsFair` shows that with at most
  five criticals open this is the only case of a first repair).
* Closing a late critical can lower the headline's score: its penalty is capped
  at five criticals, and a worse MTTR is not.

Of the tokens:

* The frontend says that the agents of a revoked token "will stop working
  immediately" (`src/frontend`, `McpTokensPanel.tsx:95`); the commit comes after
  the answer and may fail.
* An expired token counts to the cap until it is revoked; an explicit expiry may
  be in the past; `last_used_at` may go backwards.

## 4. What is proved

Every theorem is about the specification as it stands in its module, for all
values of the constants that satisfy the module's named assumptions. `Spec =>
[]P` and `Spec => A` are proved from one inductive invariant per module (`IInv`,
a conjunction of named parts; `Trailed` in `IngestProofs`, `OwnersInv` of `Ownership`).

`IngestProofs`, for every set of pollers, sources, natives, contents, assets,
teams, any thresholds and any numbers of polls and attempts, from the named
assumptions of `FindingTable` and `Ingest` (sources are grouped by poller,
groups do not overlap; a legacy source belongs to its native's group;
thresholds are positive or `Never`; the subscription allows at least one
attempt):

| theorem | property |
|---|---|
| `TypeCorrect` | `TypeOK` |
| `NoOrphans` | `NoOrphanEvents` |
| `NoCollision` | `ReconciliationPreventsCollision` |
| `TrailTellsStatus` | `TrailExplainsStatus` |
| `TrailKept` | `TrailIsKept` |
| `Refinement` | `ImplementsLifecycle` |
| `NothingLost` | `NoPollIsLost`: a published poll is settled or will be pushed again |
| `PushesDoTakeAttempts` | `PushesTakeAttempts`: a push settles its poll for good or takes an attempt |

The argument. `Reconciled` (types, the unique constraint as a fact about the
rows, no orphan events) is inductive and gives the first three: that no
snapshot can collide follows from the rows of each native id being at its
stable or legacy id only, and `Stale` removing the second whenever the first
is reported. `TrailExplainsStatus` alone is not inductive: an event could be
dated after the polls applied so far, and a finding could lack its
`discovered` event. `Trailed` adds `Dated` and `Founding`. The first half of the
module has the lemmas on the operators; `LifecycleAfter` is the main one: a
transaction adds to a finding's lifecycle events exactly the one that explains
the change of its status, or none. `Refinement` shows that `Init` maps to the
abstract one and that every action maps to an abstract step of the finding or
a stutter. `NothingLost` is that acknowledgement and commit come in the right order:
a message that is acknowledged is of a recorded poll, one whose attempts are used up
is dead.

`ConcurrentIngestProofs`, for any findings, instances, thresholds and numbers of
deliveries and any finite set of polls, from `ConcurrentAssumption`:

| theorem | property |
|---|---|
| `TypeCorrect` | `TypeOK`, with: no row is written by two transactions |
| `PollsCountOnce` | `AppliedOnce` |
| `MissesCounted` | `MissesAreAbsences` |
| `AloneSerial` | `AloneIsSerial` |
| `SomeoneGoesOn` | `NeverAllWait`: some transaction goes on, fails or is deadlocked |
| `WorkDoesGetLess` | `WorkGetsLess`: every step of a transaction brings its end nearer |

The argument. `ExclusionOK`: two transactions share neither a claim nor a row they
have written, which is what the insert `ON CONFLICT DO NOTHING` and PostgreSQL's row
locks give. `Going` says where a transaction is; a poll that is claimed is not
recorded, from which `AppliedOnce` follows. `MissesAreAbsences` bounds only what
is committed and is not inductive: `Counting` adds that the versions a transaction
has written, and the rows it has selected for closing, have no more misses than
recorded polls *and its own* lacked the finding. `UPDATE ... SET misses = misses +
1` re-evaluates on the version it finds, so that each step adds one to a number
its own poll adds one to; the stale `consecutive_misses = 0` of an overlapping
report (`concurrent_report`) leaves a bound that is not exceeded. `AloneIsSerial`
needs to know how far such a transaction has come (`Serial`): as long as nothing
was recorded since it began, what it has written, what it has still to write and
the rows as they were make up one run of `process_snapshot`. `NeverAllWait`: were
nobody to go on, all those that have claimed a poll would wait for rows, each of
which one of them holds (a transaction that holds a row has its claim,
`LocksAreClaimed`), and that set is a deadlock, which the database breaks; a claim is
waited for only while its holder is one of them. `GoesOn` is the guard of `Step`
written out, since ENABLED is beyond the prover.

`RollupProofs`, for any finite set of findings, teams, days, window and instants
per day, from `RollupAssumption`:

| theorem | property |
|---|---|
| `ReplayCorrect` | `ReplayIsHistory` |
| `TrendTellsHistory` | `TrendIsHistory` |

The argument. `Told`: a row's events lie between its creation and now, no two at
the same instant, and the latest one tells its status. `Remembered`: the replay up
to the end of a past day says what was open then. What comes later is dated later
and is not seen by that replay (`LaterIsUnseen`); when a day ends, the latest event
of all is the latest of the day. `TrendIsHistory` compares what a run writes, from
the events, with what was seen when each of its days ended (`was`): it needs that the
days of a run have ended and are remembered (`DaysOK`; the division of instants into
days is `DayFloor` and `DayOfEnd`), and that a history begins with its discovery
(`Founded`), so that a finding not yet known on a day is counted there from the day it
was created. Ingest may have moved, closed or reopened any of the findings since,
and between the pre-step and the upsert. It says nothing of the days a run does not
roll up, nor of buckets that became empty (`rollup_trend`).

`PollerProofs`, for any finite set of issues, any queries, pollers, page size,
cap, threshold, changes and failures and any finite number of unsettled snapshots,
from `PollerAssumption`:

| theorem | property |
|---|---|
| `TypeCorrect` | `TypeOK`, with: a message names a stored snapshot |
| `OmissionsAreExplained` | `OmissionsExplained` |
| `OneBadPoll` | `OneBadPollIsTolerated` |
| `WholePollsDoFollow` | `WholePollsFollow`: at rest, a complete poll is the listing |
| `RowsDoSettle` | `RowsSettle`: such polls move rows only towards the listing |

The argument. A listing is a finite set of numbers; an issue's `Place` in it is how
many come before it. `PlaceIs` shows that places are numbered without gaps, `PageIs`
that a page is full or the last, `PlaceGrows` that an issue that appears moves others
to later places only. `ReadOK` is the loop invariant of both ways of paging: by
number, what has been listed all the time and is not yet read is at place
`(page - 1) * PageSize` or later, and `count` is exactly that number (a page that is
not the last is full, so that SonarCloud's running total is not thrown off by
repeated issues); by cursor, it is beyond the cursor. An issue taken off breaks
the first and not the second, which is the exemption in the property.
`OneBadPollIsTolerated` counts what is committed only; `MissesOK` is inductive: the
misses of a row and the stored snapshots that have yet to add one (`Owed`) are
together at most the snapshots that lacked its issue. A delivery moves one from
the second to the first, a repeated one finds it moved, a dead letter drops it.
The last two say what happens once nothing is listed or taken off any more (`AtRest`)
and the issues fit under the cap (`Fits`): a poll begun since reads what `ReadOK`
says it must, which is now everything, and nothing else; and `process_snapshot` given
that leaves a finding that agrees with the scanner alone, opens one that is listed,
and adds a miss to one that is not, until it is closed.

`QueriesProofs`, for any finite set of findings, any files, profiles, tabs, windows,
instants and requests, from `DashboardAssumption` and `QueriesAssumption` (also: a
month is no shorter than a week, and `None` is not a number):

| theorem | property |
|---|---|
| `TypeCorrect` | `TypeOK`, with: a finding has events just when it has a row |
| `LatestEventTells` | `StatusIsLatest`: the status is that of the latest event |
| `SectionsAreAligned` | `SectionsAlign` |
| `MomentumExplained` | `MomentumExplainsDelta` |
| `HeadlineIsList` | `HeadlineDrillsDown` |
| `CardsAreWhole` | `CardsAddUp` |
| `NothingFallsBetween` | `NothingHidden` |
| `AdminOnlyHidden` | `AdminOnlyStaysHidden` |
| `LadderKeepsOrder`, `HeadlineKeepsOrder`, `FirstRepairIsFair`, `QuickRepairMayCost` | of `Ratings`, for all counts and medians |

The argument. Most of them compare clauses that different routes put in their
SQL; `OnTab`, `WizOn` and the scope's teams and assets are shown to select the same
rows once, in lemmas, and used for each pair of routes. What the state contributes
is small (`RowsOK`, and `AdvisoriesOwned`: Threat Center advisories are owned by the
Threat Center through every ingest, re-resolution and push), and so is what the files
must satisfy. The proofs brought that out: `NothingHidden` and `CardsAddUp` hold
only if

* `ownership.yaml` lists no asset of Wiz (`wizservice:`, `cloudres:`). The files in
  `src/` list repositories and Sonar projects, but nothing validates it; such an
  entry takes the asset's findings out of the triage queue
  (`admin_triage_unowned_exclusion_clause`), although it does not give them an owner
  (`core/finding_owner.py` looks Wiz assets up in the registry), and they are on no
  page;
* only the Wiz mapper makes such assets, and its advisories are all on
  `wizservice:threat-center` (`normalizer/mappers/wiz.py:296`);
* no entry of the registry gives the Threat Center's team to a tab.

They are named in the assumptions, and TLC evaluates them on the runs.

The two about the executive page need the histories (`HistoriesOK`). `TrailOK`: no two
events of a finding are of one instant and the latest one tells its status, so that
`open_at_instant`, the last event of a day and the status agree (`ToldReplay`).
`BalanceOK`: the change of what is open since an instant is what events opened without
what they closed. It is stated for *every* set of findings and every earlier instant,
whether or not a query selects it, since an ownership job or a new configuration
changes what a query selects and leaves the histories alone; that is also what makes
it inductive. A step with an event changes both sides by one for the sets that have
the finding (`OneMore`, `Moves`); when the clock moves on, the instant just left is
one more to count from, at which the replay tells the status and after which nothing
has happened. `SectionsAlign` compares the findings that are counted and not
the counts: the bars and the leaderboards are partitions (`Splits`) of what the
badge counts, which gives the equality of every sum over them.

The ratings are arithmetic, one case per rung of the ladder (`LadderKeepsOrder`
and `HeadlineKeepsOrder`: whoever has no more of anything has no worse a score and
grade). `FirstRepairIsFair` is about the first critical that is closed, while at most
five are open; the assumption is needed, see 3. It takes the percentages before and
after from the findings: without a critical in breach the percentage of the rest does
not fall (`LateOneRaises`), without one in time it falls by a third at most
(`TimelyOneLowers`), which is 12 points at most (`ThirdOfSlaScore`) and what the
critical (7) and a median of a week (15 instead of the neutral 10) bring. The one case
it leaves out is `QuickRepairMayCost`.

`DeadLettersProofs`, for any polls, message ids, admins, attempts and failures and
any finite set of instances, from `DeadLettersAssumption`:

| theorem | property |
|---|---|
| `TypeCorrect` | `TypeOK` |
| `ToldOnce` | `ToldOnceOrForAReason` |
| `ResolvedForGood` | `ResolutionStays`, with: by whom changes only for overlapping requests |
| `RepeatsCost` | `RepeatsCostFailures` |
| `OneMessageDoesStand` | `OneMessageStands`: a poll given up is in exactly one live message |
| `DoneStaysDone` | `DoneIsDone`: what is recorded and acknowledged does not come back |

The argument. `ToldOnceOrForAReason` is not inductive: it allows a call between the
commit of its record and Slack without saying that it is the only one and that
nobody was told before. `ToldOK` adds what the insert `ON CONFLICT DO NOTHING` gives: of a message,
at most one call has made the record and not told of it, and while there is one
nobody was told. `CallsOK` and `RecordsOK` say which messages calls, records and
sessions are about; `MessagesOK` that ids are given in order (`NextIdIs`), without
which a forwarded message could take the id of another. `RepeatsCostFailures` counts
messages: `CostsOK` says that all messages of a poll but one were forwarded, that an
attempt which is neither running nor excused was lost to a failure (`Lost`; excused
is the one call that records an undecodable message and then raises), and that the
failures of the forwarded messages (`Paid`) and of the one that waits are not counted
twice. That one message of a poll is live is part of the same invariant; the last two
theorems say it on its own, and that an acknowledged message never waits again.

`TokensProofs`, for any users, tokens, requests and instants and any cap, from
`TokensAssumption`:

| theorem | property |
|---|---|
| `TypeCorrect` | `TypeOK` |
| `RevocationLasts` | `RevocationIsFinal` |
| `NothingLateEnters` | `AcceptedWasValid` |
| `CapHolds` | `CapIsNearlyKept` |

The argument. Every step does one of three things to a row (`RowSteps`: it is
issued, used or revoked), and none takes back a revocation or moves an expiry,
so that whatever made a bearer late stays true (`Sound`); `Apart` keeps two
requests from being told the same token. The cap is another matter: its count
and its insert are two steps. What is inductive is `Bounded`: the live tokens of
a user and the creations under way for the user are together at most
`MaxActive - 1` and the number of requests, since a creation only begins when
the count is below the cap, and there are never more under way than requests.

`ConfigurationProofs`, for any contents of the two files, any revisions and
instances, any interval, read time and number of failures, from
`ConfigurationAssumption` (0 is a revision, times are naturals, the interval is
positive) and `ContentsAssumption` (what is in the bucket at first has passed the
validation; a component's first team is one of its teams):

| theorem | property |
|---|---|
| `TypeCorrect` | `TypeOK`: only revisions that passed are ever in the bucket |
| `StalenessBounded` | `StalenessIsBounded` |
| `OwnersFollow` | `OwnersLagForAReason` |
| `MisalignmentIsShort` | `MisalignmentEnds` |

The argument. What a read brings may have been replaced while it took place, so that
the age of what is cached does not bound its staleness: `CachesOK` says that it was replaced
at most its age and `MaxRead` ago, and of a read under way at most the ticks it
has taken. `OwnersLagForAReason` needs to know which map a call is going to resolve
with before it has it (`MayTake`: the map it holds, or what its instance has cached
or is reading): `CallsOK` says it is no older than the call's notice, because
`force_reload` comes first and waits for a read under way, and `TableOK` that, as
long as no two resolutions crossed, the owners are the bucket's and nobody is
about to undo that, or a notice is left. `MisalignmentIsShort` follows from the
bound and from `ValidIsAligned`: two files that passed the validation together give
the findings of every component one of its teams. That lemma is what the check
of the first team in `validate_registry` is for.

The same module has the theorems of `Ownership`, for any findings, assets, teams,
contents of `ownership.yaml` and instances, from `OwnershipAssumption`:

| theorem | what it states |
|---|---|
| `OwnersTypeCorrect` | `OwnersTypeOK` |
| `RunsDoRepair` | `RunsRepair`: a calm run leaves every owner right |
| `FreshnessDoesSpread` | an instance that has refreshed and ended its transaction works from the file for good |
| `AssetsDoSettle` | then a finding moves only to the asset the file gives it |
| `RunsDoStayCalm` | then, once findings stop moving, no snapshot disturbs a run |
| `RunsDoMakeRight` | the run that commits then leaves the table `Right` |
| `RightDoesStay` | and `Right` it stays, under every later snapshot and run |
| `NoEditNoError` | without an edit, no interleaving ever shows a wrong owner |

The argument. A run decides by an unlocked scan, reads each disagreeing row once more
and writes the owner only if it differs from that second read, while snapshots write
the same column on the same terms. `RunOK` says of a calm run: what it has scanned is
still so, or the row is right by now; what it has read and is to write is right for
the row's asset, and where it writes nothing the row is right without it. A `Plain`
commit keeps that: it keeps the asset, and an owner that it writes is the file's for
that asset (`PlainCommit`). A commit that is not plain, or an edit, can leave a wrong
owner until the next run, and that is why `RunsRepair` has its exemption.

The five theorems after it are `OwnersConverge` without its fairness. After the last
edit every instance comes to work from the file (`FromFile`, `FreshnessSpreads`);
from then on each finding moves at most once, so that moves end (`AssetsSettle`);
after the last of them snapshots are plain (`CommitIsPlain`), so the first run to
commit repairs the table (`RunsStayCalm`, `RunsMakeRight`), and it stays repaired
(`RightStays`). What is left to TLC is that these steps do happen.

Only model-checked:

* the liveness properties (`PollSettles`, `TransactionsEnd`, `OwnersConverge`,
  `Converges`, `Settles`): fairness and ENABLED are beyond the prover. Of each, what
  does not depend on fairness is proved:

| property | theorems | left to TLC |
|---|---|---|
| `PollSettles` | `NothingLost`, `PushesDoTakeAttempts` | that a pending message is pushed |
| `TransactionsEnd` | `SomeoneGoesOn`, `WorkDoesGetLess` | that who can go on does, and that a wait for one row is not for ever |
| `Converges` | `WholePollsDoFollow`, `RowsDoSettle` | that polls go on and get through |
| `Settles` | `OneMessageDoesStand`, `DoneStaysDone` | that a waiting message is pushed, and failures end |
| `OwnersConverge` | the five above | that caches expire, handlers and runs end |

## 5. What is not modelled

* Coverage (`coverage/`): arithmetic on lists that live scanners answer. Its store
  is one JSON object that a request reads, extends and replaces without a
  version: of two requests that overlap one sample is lost, which the code does
  nothing to prevent.
* Access control: stateless decisions over `rbac.yaml`, unit-tested.
* Paging, sorting, exports and the shape of answers; titles, severities and links
  a mapper derives.
* Validation of the frontend's files and of `component_scope.yaml`, and its live
  warnings; nothing validates `auto_close.yaml`, and a threshold of 0, which no
  file or document sets, is excluded by assumption. A bucket object that does not
  exist is an error like any other.
* Auto-mapping of Wiz services: string matching an operator runs and reviews.
* The CLI and the MCP server (clients without state), migrations, secrets,
  provisioning, the frontend.

## 6. Plan

Done: every module of section 2, checked and proved about.

Next, in this order:

1. `Rollup`: the retry after a crash between pre-step and backfill, the same for
   the configuration push.
2. `Coverage`: the computation against a reference definition.
