# A TLA+ model of btc-timesfm

btc-timesfm forecasts the price of bitcoin from a GitHub Actions workflow: every
run restores its state from a GitHub Release, forecasts, keeps the forecast in a
SQLite history, posts it on X, and uploads the state again for the next run. The
repository is in `src/` next to this directory; the Python package is
`src/src/btc_timesfm/`, the workflows are in `src/.github/workflows/`. This
directory models the parts of it that keep state across runs, processes and
failures, and the computations whose results that state is made of; it checks them
with TLC on small instances, and proves the most important properties for every
instance with TLAPS.

`PROJECT.json` ties the definitions of the modules to lines of the source, and
lists components, runs, mutants, findings, hazards and theorems.

## 1. The system

### Components

| Component | State it keeps | Operations | Where it is hard | What makes it correct |
|---|---|---|---|---|
| Production workflow (`forecast.yml`, `ops/release_state.py`, `ops/schedule_guard.py`) | the assets of the Release `forecast-history-v1`; on the runner `.state/`, step outcomes | about 25 steps, some `always()` | every step may fail or be cancelled, `gh release upload --clobber` deletes before it uploads, the runner may be lost | durable before posted; a later run starts from something consistent |
| Pipeline health (`ops/pipeline_health.py`) | `pipeline_health.json`: four stages with circuit, failure count, times; the current signals | observe forecast, history, X; gate | the gate both decides and changes the state, twice in a run | thresholds exact, one probe per cooldown, no publication on degraded evidence |
| X posting (`x/post_to_x.py`, `x/x_post_registry.py`) | `x_post_registry.json`: a status per idempotency key | prepare (reserve), publish, mark | X may accept and the reply be lost | at most one post per forecast |
| Workflow guardian (`ops/workflow_guardian.py`) | `.state/workflow_guardian.json`: last run seen, retry map, incidents | sweep over the watched workflows | runs go on between sweeps, `gh` fails, the state is saved once at the end | bounded retries, no lost retry, one issue per failure, no silent outage |
| Freshness watchdog, SLOs (`ops/freshness_watchdog.py`, `ops/freshness_slo.py`, `ops/service_slo.py`) | dedup entries and breaches per metric; the status file; issues | check, alert, resolve, file | killed between print, append, save and file | what is kept quiet was heard; a critical state has its issue |
| History protection (`history/history_backup.py`, `history/independent_backup.py`, the publish steps) | canonical asset, versioned generations, S3 object, manifest and receipt | publish, prune, refresh, monitor, audit, drill, recover | each stage of a publication may fail | the last published history survives in two places |
| History store (`history/history_store.py`, `history/history_migrations.py`) | SQLite tables of origins and predictions; rollback copies | migrate on open, ingest, enrich | kills, full disk, two processes, upgrades | what is committed is kept and never rewritten |
| History audit and drill (`history/history_audit.py`, `history/disaster_recovery.py`) | backup of a repair, report, receipt | audit, repair, restore and judge | a repair that fails after it changed rows | the repair loses nothing; drill and audit agree |
| Shadow deployment (`research/shadow_deployment.py`) | a second SQLite database that travels with the first | issue, mature, report, approve | restored and published with the history, and may be older or newer | published evidence stands; readiness and promotion rest on complete, comparable forecasts |
| Optimizer, promotion, champion report (`research/optimizer.py`, `ops/promotion_policy.py`, `research/champion_challenger.py`, `ops/optimizer_pr.py`) | files each command leaves for the next | optimize, decide, compare, open a pull request | the files may be of different runs | nothing changes production but a person, and on cleared evidence |
| Rollback safeguards (`ops/rollback_safeguards.py`) | breach count | evaluate | evidence changes between evaluations | a rollback is found twice, on enough samples |
| Market data, optional sources, source health (`data/`) | retained inputs, digests seen, quarantine | fetch with fallback, validate, compare, retain, replay | providers that are late, wrong, revised or down | the forecast is made of what was checked, and can be replayed |
| Gap detection and alerts (`data/gap_detection.py`, `ops/gap_alerting.py`) | provenance of fills, dedup state and log of alerts | detect, decide, backfill, alert | repeated backfills, a state not saved | nothing is filled silently, no due alert is swallowed |
| Forecast engine, weighting, calibration, confidence (`forecasting/`), drift (`ops/drift_detection.py`) | the history they read | weigh, combine, reconcile, calibrate, claim | evidence of the future, boundaries of every score | past evidence only, coherent intervals, no claim without evidence |
| Cross-validation, backtests, weighting studies (`forecasting/cross_validation.py`, `research/`) | reports | replay origin by origin | a label of the future in a fold | purged folds, weights that see the past |
| API and contract (`api/`), static API (`web/static_api.py`) | rate limiter, audit log, pages on the site | page, filter, health, refuse | rows inserted and pages rebuilt during a walk | a walk is exact; a client that waits is served |
| Experiment registry, other studies, web site, repository maintenance | tables and files that are only written | reports, rendering, checks | - | - |

### How they interact

A run of `forecast.yml` is one process after the other on one runner; they talk
through files under `.state/`, step outputs and the Release:

    Release --restore--> .state --forecast--> history store, health (observe-forecast)
       ^                          --gate 1--> health, may half-open the X circuit
       |                          --prepare--> registry (reserved), observe-x
       |<--publish: generation, verify, S3, canonical assets-- observe-history
       |<--health--               --gate 2--> health
       |                          --publish on X--> registry (posted/ambiguous/failed)
       |<--registry, then health--

Inside the forecast step, each hour:

    providers -> candles -> validation and comparison -> the selected series
                                                            |
    durable history + rolling cache -> outcomes <-----------+
            |                            |
            +-> weights, drift, calibration -> ensemble -> coherent horizons -> claims
                                                 |
                                 forecast.json, history, shadow ledger

The workflows of the concurrency group `btc-timesfm-forecast` (forecast, refresh,
monitor, drill, audit) never run at the same time. Guardian and watchdog look on from
outside through `gh`, and through each other's files; no workflow of the repository
runs them. The promotion path is a chain of commands, each of which reads the
files that earlier ones left.

### Behaviours that are hard

* **Two-phase posting.** The reservation is made durable with the history, then X is
  called, then the outcome is recorded and uploaded. Each arrow can break.
* **Replace by delete and upload.** An interrupted upload leaves a mixture of old, new
  and missing assets; which mixtures a later restore accepts decides what it forgets.
* **A gate with side effects**, evaluated before the post is prepared and again after
  the history is published.
* **State that is stored at some points only**: health, guardian, watchdog, alerts. What
  a process learned and did before it was killed is known to the world but not to it.
* **Migrations and repairs with a copy to go back to**, in processes that may be killed,
  and SQLite's own journal, which a read-only connection cannot roll back.
* **Feedback.** Outcomes of past forecasts weigh the next one; what is in the history
  when a forecast is made must have been known at its origin, also when a fallback
  provider moves that origin back.
* **Evidence of different runs** meets in the promotion gate, the shadow ledger, the
  rollback count and the frozen reports.

## 2. The modules

An arrow reads "extends". Modules that end in `MC` give TLC its instance, modules that
end in `Proofs` hold the theorems.

    PipelineHealthState <- PipelineHealth
    PipelineHealthState, XPostRegistry <- ForecastRun <- ForecastRunProofs
    WorkflowGuardian, FreshnessWatchdog <- Monitoring
    HistoryStore <- HistoryAudit <- HistoryAuditMC
    HistoryAudit, HistoryProtection <- HistoryProofs               (two specifications, no composition)
    ShadowDeployment <- ShadowDeploymentMC, ShadowDeploymentProofs
    PromotionPolicy <- Promotion <- PromotionMC, PromotionProofs   (Promotion implements ReviewOnly)
    MarketData <- GapRepair; GapRepair, OptionalSources <- DataQuality <- DataQualityMC
    MarketData <- ForecastEngine <- Coherence <- ForecastEvidence <- ForecastCycle <- ForecastCycleMC
    ForecastEvidence <- RecencyPolicy; MarketData <- PurgedFolds
    RecencyPolicy, PurgedFolds <- WalkForward <- WalkForwardMC
    ForecastContract <- ForecastApi <- ForecastApiMC, ForecastApiProofs
    PipelineHealth, Monitoring, DataQuality <- OperationsProofs     (three specifications, no composition)
    RecencyPolicy, PurgedFolds <- EngineProofs                     (no state)
    EngineProofs, ForecastCycle, WalkForward <- ForecastProofs

### Health, posting and the workflow

**PipelineHealthState, PipelineHealth.** A health value is a record: a circuit and a
failure count per stage, the current signals, and `age`, the ticks since `x_post` was
opened. Only comparisons are made with counts and times, so a count stops at its
threshold and an age at the cooldown. `RecordSuccess`, `RecordFailure`,
`ObserveForecast`, `ObserveHistory`, `ObserveX`, `GateAllows` and `AfterGate` are the
methods of the class; `PipelineHealth` has one action per subcommand. Its ghosts
`streak`, `probes` and `quiet` remember what was observed, so that the invariants
relate the state to the history and not to itself.

**XPostRegistry, ForecastRun.** `pc` names the next step of the job. Every step is one
action, with the outcomes GitHub Actions allows it: it succeeds, fails, is cancelled,
or is skipped by its `if:`. After a failure only the `always()` steps run, which is
`failed`. An upload with `--clobber` is `Interrupted`: each asset is as it was, gone,
or new. `RunGone` ends a run and takes the runner's files with it; `RunnerLost` does so
at any step. `Send` and `RecordReply` are the two halves of the call of `create_tweet`:
X accepts or not, and independently the runner hears of it, hears an error, or hears
nothing. A key stands for a forecast with its text. The forecast is one step here,
`ForecastCycle` opens it up; retention, S3 and the shadow database are the success or
failure of the publish step, which `HistoryProtection` and `ShadowDeployment` open up.

### Watching

**WorkflowGuardian.** The state file is the record `guardian` (is the latest run the one
last seen, retry attempts, the retry entry of the latest run, the incident of each
category), and `latest` is the latest run on GitHub. `Sweep` is `run_guard` for one
workflow with what it reads: were the runs fetched, what did the freshness metric say,
did `gh` do what it was asked, was the state saved. Schedule and run are treated in the
order of the code. What it adds to an open issue is left out.

**FreshnessWatchdog.** One metric with its two severities. The state is the age of the
forecast, the dedup entries, and what the status file says. `Watch` is a
run that gets to its end, `KilledUnsaved` and `KilledSaved` are runs that die after they
printed, appended, or saved; a status file with an appended alert cannot be read.

**Monitoring** composes the two with the workflow they watch: a run starts, ends with or
without a forecast, the watchdog measures, and the guardian reads the age that was
written down, however long ago, or falls back to the runs.

### History

**HistoryProtection.** The steps of one publication are separate actions, and a run may
end after each of them. A database is the number of the run that produced it, a
generation adds its size and whether its bytes arrived intact. `Retained` is
`retention_plan` as a fold from the newest generation to the oldest. The audit publishes
a repaired database of the same number, without the verification that a forecast run
makes. The drill restores the copy of the manifest, and reads the manifest again for its
receipt. `Recover` is the operator of HISTORY_BACKUP.md and DISASTER_RECOVERY.md, who puts
back the newest generation that can be verified or the copy in S3 (`Verified`).

**HistoryStore.** The file is absent, empty, torn (a copy that was cut short) or a
database with a version and contents; a transaction is one step, and a process killed
while it commits leaves a hot journal. `Copy`, `Migrate`, `Validate` and `Restore` are
the parts of `migrate_database`; `Ingest` is the transaction of `ingest_snapshot`;
`Select` and `Enrich` are the read and the write of `enrich_outcomes`, between which
another process may do the same.

**HistoryAudit.** The checks are predicates on rows with the derived fields an audit may
find fault with: manifest, orphan models, error, direction, target. `Proposed` are the
repairs, and `Blocked` is when the audit refuses them; `Audit`, `CopyForRepair`,
`Repair`, `Undo` and `Verify` are the steps, and the audit may be killed between them. `DrillPasses` is what the recovery drill says
of a database. `Hairline` holds the pairs of a forecast and a price that two tolerances
judge differently.

### Shadow ledger and promotion

**ShadowDeployment.** A ledger is a record of the tables that evidence is read from, and
the operations on it are functions from ledgers to ledgers: `Registered`, `Recorded`,
`Matured`, and the two halves of `run_shadow`. A production run restores the ledger of
the Release, goes through the shadow part of the forecast (`Shadow`, where errors are
swallowed at the points at which the code can raise them), and publishes, the
independent copy first. Time passes before and after the forecast, so that outcomes may
be observed before and published after the evaluation time of a report. The operator's
commands act on the archive of the Release while no run is under way. `Ready` is
`frozen_cohort_report` with its parity baselines; `Promotable` is `evaluate` up to the
statistics, which are taken to favour every challenger. The ghost `promised` keeps what
configurations a published run had to run.

**PromotionPolicy, Promotion.** The operators of `PromotionPolicy` are the checks: the
optimizer's recommendation, the policy with horizons, folds, segments, naive baselines
and the adjustment for a family of comparisons. In `Promotion` each command is an action
that reads the files it finds, whatever run they are of, and writes its own: `Optimize`,
`Decide`, `Compare`, `OpenPr`, `EvaluateRollback`; `Merge` and `Close` are people.
`ReviewOnly` is the abstract specification: a cleared name may be proposed, a proposed
one adopted, and nothing else changes production.

### Data and forecast

**MarketData, GapRepair, OptionalSources, DataQuality.** A series is a sequence of
candles with logarithmic closes in basis points, so that a percentage is a difference.
`MarketData` parses, validates, winsorizes, compares two providers and selects.
`GapRepair` finds gaps, decides (fill, degrade, withhold), backfills with a
provenance per candle, and says which alerts are due. `OptionalSources` makes snapshots
of funding, statistics, order books, and the cross-asset and macro series; decides which
are stale, late, incomplete or revised; and retains and replays them. `DataQuality`
keeps their files over reports, alerts, runs and reruns, with monitors killed between two
alerts and records that are not downloaded, not uploaded or lost.

**ForecastEngine, Coherence, ForecastEvidence, ForecastCycle.** `ForecastEngine` has the
contexts, the baselines, static, adaptive and correlation-aware weights, the ensemble
and its interval, in whole units: logarithmic levels in basis points, weights in
thousandths. `Coherence` reconciles the horizons. `ForecastEvidence` is what a run
measures of its past: drift, conformal and conditional calibration, performance,
confidence scores, the probability of a direction, thresholds, abstention and
attribution. `ForecastCycle` is `btc_forecast.main`, hour by hour, on a tape of prices
of which each provider shows a part, late or wrong: select, enrich, measure, weigh,
combine, reconcile, claim, store. Every guard that raises ends the run, and takes its
outcomes with it.

**PurgedFolds, RecencyPolicy, WalkForward.** The folds of `cross_validation.py` with
purge, embargo, rolling windows and inner folds; the candidate policies of the recency
and uncertainty studies; and the walks of a backtest, an optimizer, both studies and a
shadow challenger over them. The optimizer's candidates install their parameters in the
module of production for the time of a replay, as the code does: `installed` is what that
module holds, and `LearnedWeights` is given a policy, of which `InForce` is production's.

### API

**ForecastContract, ForecastApi.** Resources, health and validation; the filters, keyset
cursor and pages of the service with a client that follows them; the sliding window of
the limiter; the audit log with its rotation; and the static site, whose numbered pages
are rebuilt between two reads of a client.

## 3. What is checked

Every property of a passing run has a mutant in `PROJECT.json`: a plausible bug in a
mapped definition, defined beside it, with which the property fails.

| Run | Distinct states | Properties |
|---|---|---|
| `pipeline_health` | 6,789 | `TrippedIffPersistent`, `OneProbe`, `ProbeNeedsCooldown` |
| `forecast_run` | 680,706 | `AtMostOnce`, `AcceptedIsLocked`, `DurableBeforePost`, `PostedOnlyWhenHealthy`, `ProbeEventually` |
| `monitoring` | 96,833 | `OneIssue`, `SuppressedWasHeard`, `DeferredIsRetried`, `OutageIsEscalated`, `CriticalIsFiled` |
| `history_protection` | 1,595,201 | `ReleaseRecoverable`, `IndependentCopyFollows`, `ReceiptWasDrilled` |
| `history_store` | 39,317 | `AuditedHistorySurvives`, `DrillAgreesWithAudit`, `FirstForecastStands`, `OutcomeIsFinal` |
| `shadow_deployment` | 2,154,745 | `EvidenceStands`, `FrozenRowsStand`, `ReadyIsFull`, `CountedStands` |
| `promotion` | 62,898 | `OnlyRecommends` (a refinement), `ReviewIsStricter`, `RollbackIsSustained` |
| `data_quality` | 130,068 | `FillsAreRecorded`, `DueAlertsAreHeard`, `ReplayIsFirstSeen` |
| `forecast_cycle` | 27,411 | `OutcomesAreChecked`, `EvidencePrecedesOrigin`, `PublishedIsCoherent`, `ClaimsAreEarned` |
| `walk_forward` | 2,952 | `FoldsAreKept`, `WeightsSeeThePast`, `LeadIsEvidenced` |
| `forecast_api` | 293,908 | `WalkIsExact`, `SiteWalkMissesNothing`, `RetryIsHonoured` |
| `forecast_run_half_open` | violated | `HalfOpenResolves` |

The state spaces are finite and searched to the end. What each property says is written
above its definition; type invariants are checked by the proofs (section 4), where there
are any, and otherwise by every operator that would fail to evaluate.

### Bounds, and why they are enough

* `Cooldown` 1 or 2 ticks: the code only asks whether the cooldown is over. Failure
  counts go to the thresholds of the code, 2 and 3.
* `forecast_run`, one key: entries of the registry are independent, and the theorems about
  posting hold for any set of keys; two keys pass as well. All three triggers; the number
  of runs is unlimited. `PostLimit` 3: after a post whose reply was misread there is a
  second one, and after that is misread too a third; only X's own guard has the bound.
* `monitoring`: `RetryAttempts`, `Backoff`, `MissedAfter` 1, `Warning` 0, `Critical` 1,
  `Window` 2: below, at and beyond each limit. `AgeLimit` and `Window` stop ages where no
  comparison changes any more; `LostLimit` is one sweep whose state is not saved.
* `history_protection`: `Keep` 2, `MaxBytes` 3, `Sizes` {1, 4}: one generation may exceed
  the budget alone; `MaxSerial` 4 runs and `MaxAudits` 2 fill the retention twice. Every
  generation, an audit's too, may arrive damaged.
* `history_store`: `Version` 2, two processes, one origin, two models, two forecasts, two
  prices: an upgrade, a rerun with other models, and two providers that disagree.
* `shadow_deployment`: one challenger beside the champion, as rows of challengers are
  independent; horizons of 1 and 2 units, so that an origin is matured in parts; times to
  3, one beyond the first evaluation time; `MaxSessions` 4 runs and commands, enough for
  a forecast, a rerun by hand and two maturations that disagree; `MinSamples` and `Window`
  1, so that one pair makes a challenger promotable and a later failure, rerun or recovery
  could undo it. Lineages and prices are interchangeable, and symmetric for TLC.
* `promotion`: reports, healths and live reports that differ in one field each from one
  that passes every check, on either side of that check's limit; three written files, so
  that a fourth command reads files of different runs; two evaluations, as a rollback
  needs two.
* `data_quality`: seven hours with a gap that is covered, half covered, too large,
  contradicted or uncomparable; two origins and three states of the providers each;
  `MaxRecords` 3: two runs of one origin that observed different things are held together,
  and the record of a fourth run crowds one out; `RetentionMinutes` 100 lets the second
  hour be pruned; `MaxWork` 4 is four reports, runs, losses or passages of time.
* `forecast_cycle`: pasts of ten hours and the moves of the next hours, such that every
  window of the code (`AdaptiveMin` to `ConformalMin`) is empty, partly full and full in
  some behaviour; a wrong candle in the answer of a provider (`Errata`); answers of
  TimesFM that agree, cross, turn and are unsound. Windows are smaller than in the code,
  their order is kept.
* `walk_forward`: four markets, with and without a gap, three ways in which TimesFM is
  wrong, nine studies with the fold settings that meet at equality.
* `forecast_api`: two origins, horizons and models are eight rows over three pages;
  a limit of two requests in a window of two; a log that is rotated at every event.

### Fairness

`ForecastRun!FairSpec`: the schedule keeps starting runs, a started run takes its next
step (the job has a timeout, GitHub ends it otherwise), time passes. Lost runners and
failing steps are not fair, they may or may not come. `ProbeEventually` assumes in
addition that clean runs keep coming, by its own antecedent. `Monitoring!FairSpec`: time
passes, and guardian and watchdog are run again and again such that a sweep with a
working `gh` and a saved state, a check that gets to its end, and one that files an issue
whenever there is one to file, are not avoided for ever. That is strong fairness: `gh`
fails in between, and what there is to do may go away and come back. The guardian
and the watchdog are made to be run repeatedly and nothing in the repository schedules
them, so this fairness is what their operator has to provide.

### Assumptions

* `CycleAssumption` and `QualityAssumption`: prices are integers of the unit, time does not
  run backwards, and two providers that give all the candles a forecast needs overlap in
  enough hours to be compared: `MinOverlap` is at most `MinCandles` and `CompareCandles`
  (by default 6, 64 and 24: `ValidationConfig`, `ProviderConfig`). The candles of the
  providers reach back further than the minimum a forecast needs (`FirstCloses`), which is
  at least two, so that there is a return. TimesFM may answer anything; what
  `_validate_timesfm_output` lets through is made of numbers (`Numeric`).
  `EngineAssumption`: there are finitely many horizons and contexts, each context has a
  rank, and what convinces a policy is more than what it needs to begin. `FadeTable` is the
  exponential function, tabulated as far as it is not nothing: nothing is assumed of it but
  that it is a natural number. A delivery is a sequence of candles with integer times, in
  any order and with repetitions; origins are times.
* `StudyAssumption`: a study has at least two candles of context, so that there is a return,
  and the evidence for dominance is no less than that for a policy. By default these are 32
  and 6 (uncertainty_weighting.py:67, forecast_engine.py:45); the first is read from an
  environment variable. Set below 6 it would let a model lead whose coverage nobody judged,
  since a model is called overconfident only from 6 intervals on.
* A process that migrates the store is alone: an upgrade is first run by one workflow of
  the concurrency group. Two migrating processes could restore over each other's commits.
  The model of the store ends where the remainder of a restore that was cut short has been
  opened as a database (`reopened`): from there on the copy is what an operator has.
* S3 refuses bytes that do not match their checksum, so that writing a content-addressed
  object again does not damage it.
* The jobs of the concurrency group run one at a time.
* The operator changes the archive of the shadow ledger only while no run is under way; a
  run would publish over it.
* TimesFM, X, GitHub, S3 and the providers are external: any answer of a set, at any time.

### Where the code differs from what it says

`forecast_run_half_open` checks a sentence of the documents, and TLC finds a run of the
program that contradicts it. The gate half-opens an open X circuit whose cooldown is over
even when something else, such as severe drift, blocks the run; that run neither prepares
nor posts, nothing observes X, and what is stored is a half-open circuit, which blocks
every later gate without a cooldown of its own. A run that may publish and ends before it
has written a status of X does the same. docs/PIPELINE_HEALTH.md:39 describes a probe that
closes or reopens the circuit. Two kinds of runs are no part of this: one whose prepare
finds a duplicate, since `duplicate_skipped` and `duplicate_locked` count as a success of X
and close the circuit (pipeline_health.py:304), and a manual one that does not post, since
it evaluates no gate (forecast.yml:201).

Met while modelling, without a run of their own. The models do what the code does in each
case.

Workflow and monitoring:

* A first run with nothing to post creates the Release without `x_post_registry.json`, and
  no later restore accepts it (forecast.yml:259; docs/HISTORY_BACKUP.md:98).
* Both uploads of the health file need a successful forecast, so failures of the forecast
  never reach the Release and its circuit never opens there (forecast.yml:376;
  docs/PIPELINE_HEALTH.md:3).
* The classification of errors looks for words in the text of any error. One raised after X
  accepted the post can look like a rate limit, is stored as retryable, and the forecast is
  posted twice (post_to_x.py:92; docs/X_POSTING.md:27 and 39). The ghost `misread` of
  `ForecastRun` counts these replies: `AtMostOnce` allows one more post for each of them and
  no other, and `AcceptedIsLocked` asks for the lock of every other accepted post.
* Generations pile up in the Release when runs fail after uploading theirs (forecast.yml:314).
* A run seen in progress counts as healthy and as seen; its failure is then skipped as
  unchanged (workflow_guardian.py:1038; docs/WORKFLOW_GUARDIAN.md:45).
* One sweep of the guardian opens a missed-schedule incident and closes it again when the
  latest run, however old, did not fail (workflow_guardian.py:1050). `last_seen_at` is
  renewed by each suppressed detection, so an issue swept more often than the dedup window
  is never annotated (:592). An incident whose issue could not be created stays without one.
* The guardian's reading is as old as the watchdog's last run. A metric that a run does not
  check loses its dedup entry. A `gh` that fails to list runs reads as "no runs", which is
  critical. `check_scheduled_run` looks at the time of the last run, whatever its conclusion.

History:

* A rerun with other models adds predictions to an origin whose manifest is the one of the
  first run (history_store.py:236, whose docstring says a rerun only updates
  `last_seen_at`). docs/HISTORY_SCHEMA.md:5 gives schema version 4, the code has 6.
* The store keeps the rounded change of the ensemble (history_store.py:106) and the audit
  compares to 1e-7 (history_audit.py:74, :538), so the daily job rewrites and publishes rows
  every day; it runs with `--repair`, where the document speaks of a dry run. Directions are
  judged with a tolerance of 0.005 by the store and 1e-9 by the audit.
* Repairing a drifted target keeps the outcome that was filled from the wrong candle. Orphan
  groups of model rows block every repair and fail the drill. A repair that fails copies its
  backup over the database, and a copy that is cut short leaves a torn file.
* The audit job's generation is not downloaded again (history-audit.yml:92;
  docs/HISTORY_BACKUP.md:77 says otherwise). When it arrived damaged and the upload of the
  canonical asset then fails, the Release may hold no intact copy of the database last
  published: the ghost `blind` is this case, the only one `ReleaseRecoverable` exempts, and
  S3 still holds it or its predecessor (`IndependentCopyFollows`). S3
  follows with the next refresh; `last_successful_restore` is null as soon as the copy is
  another one (independent_backup.py:284).

Shadow ledger and promotion:

* `record` with a kept snapshot adds a forecast to an origin in the past, and
  `frozen_cohort_report` has no eye for when a forecast was created; a challenger then
  learns from later origins. A rerun of an origin adds a second capture to the parity
  replay, which is never scored afterwards.
* `record --configs` runs configurations that are pending or rejected, which
  docs/SHADOW_DEPLOYMENT.md:57 says are skipped; an `approve` that names a registered
  configuration changes nothing, and nothing calls `set_approval_status`. The document
  gives shadow schema version 6, the code has 7.
* The production configuration of the optimizer is a constant (optimizer.py:86). "review"
  cannot be reached from the weekly run, whose 48 origins are two blocks of 24 where eight
  are needed, and which has no segment rows.
* "Two consecutive evaluations" of the rollback need neither new evidence nor a promoted
  configuration. Its configuration ids (`forecast-config-...`) are not those of the history
  (`cfg-...`), so `--history-db` (docs/PROMOTION_POLICY.md) finds no outcomes.
* The pull request's branch hashes `generated_at`, so a repeated run opens another one
  (optimizer_pr.py:206 says it reuses the branch). Its candidate is matched by name alone.
  An adjusted conclusion that is missing passes.

Data and forecast:

* Source health quarantines all derivatives by the oldest age against 2.5 hours, where
  docs/DERIVATIVES_SIGNALS.md:16 lets funding age for 12.
* `backfill_from_secondary` fills every covered candle of a short enough gap, also where
  the decision is to degrade or withhold, and stamps it "fill-if-covered"
  (gap_detection.py:114); a partial fill makes two tolerated gaps of a withheld one; a late
  primary candle keeps the provenance of the fill. The production command calls none of it.
* `evaluate_gap_alerts` looks for the policy in the summary, which it is not part of.
* After pruning, a replay can return a later revision under a number used before. The state
  of source health is no asset of the Release.
* The retained optional sources are immutable in docs/FEATURE_REGISTRY.md:23. A file that
  cannot be read counts as an empty one (optional_source_retention.py:55), it is not written
  atomically (:182), and a failed download is ignored (forecast.yml:127); the next upload
  then replaces all records, and what a repeated run observes is replayed as the first.
  `ReplayIsFirstSeen` speaks of what was observed since (`firstSeen`).
* A fallback can move the origin back an hour; the evaluation report, the performance
  summary and drift then use outcomes later than the origin. Outcomes from candles older
  than the 24 compared ones are recorded unchecked after an outage.
* `conformal_intervals` and the flag that tells of a lowered confidence are consulted by
  nobody (docs/CONFORMAL_CALIBRATION.md:3; forecast_policy.py:30). Abstention always finds
  the data healthy. A rerun's published forecast may differ from the stored one.
* `assert_forecast_coherent` looks only at crossings that were there before reconciliation.

Studies:

* The recency study never stores the diagnostics of production, whose memory is always
  empty (recency_adaptation.py). It tests the significance of the best candidate on the
  origins that chose it. "production_adaptive" is not the deployed policy.
* The directional part of the uncertainty penalty is only computed where the penalty is
  constant (uncertainty_weighting.py:8); outcomes are used without an origin cutoff, though
  the docstring has one (:187), which does no harm as long as origins are walked in order.
* Labels are counted in candles, so behind a gap they are later than the purge covers
  (cross_validation.py:74). Nothing in the package calls the inner folds.

API:

* The rotation of the audit log keeps one file less than configured
  (docs/FORECAST_API_SERVICE.md:27). Any open circuit gives 503 `history_unavailable`, where
  the document (:31) names the history stage alone. `origin_from` and `origin_to` compare as
  strings. `/latest` reads the newest origin and its row in two statements. One row that
  breaks the contract makes an error of every page that holds it.
* The numbered pages of the static site shift when it is rebuilt: rows come twice.

## 4. What is proved

Forty-two theorems in eight modules, without bounds on runs, time, configurations or
data. Hypotheses are the named assumptions on constants of the modules, which TLC evaluates
for the values of the runs, and nothing else.

**OperationsProofs** is about three specifications, one after the other.
`PipelineHealth`, for every cooldown: `HealthTypeCorrect`, `CircuitsTripAtThreshold`,
`AtMostOneProbe`, `ProbeAfterCooldown`. The inductive invariant `HealthIInv` says what the
ghosts have to do with the file: the streak of a stage is its failure count, a circuit is
tripped when the count is at its threshold, a probe leaves the circuit half-open, and the
age of an open X circuit is not more than the time since the last failure.
`Monitoring`, for any retry budget, backoff, tolerances and window: `TypeCorrect`,
`OneIssuePerFailure`, `SuppressedAlertsWereHeard`. An issue is filed once because the
incident is open until a sweep sees a run that did not fail; `IInv` adds `IssuesAreOpen` (a
kind of failure with an issue beyond those of lost sweeps has its incident open) and
`FailureIsClassified`. `DataQuality`, for any deliveries, observations, thresholds and
passage of time: `NothingIsHidden`, `FillsAreTold`, `ReplayIsExact`, and the pure
`BackfillIsIdempotent` for any two series. `DueAlertsAreHeard` looks at the log when a report is written;
`GapAlertsInv` says why an alert kept quiet by the state is in it: what the state says was
emitted was logged, and not earlier, since the log is written before the state and a state
that is lost says nothing. A monitor killed between two alerts wrote some of them and saved
nothing, so that one it did not write is due for the next monitor still. `FillsAreTold` rests on what the code computes on its way: the
gaps of a series are the hours that adjacent stamps leave out (`GapsFacts`, however the
stamps lie to the grid of hours), so that what is filled is new and a filled series has
nothing more to fill (`NothingLeftToFill`: a stamp that remains missing lies in a gap that
was too large or that the secondary provider does not cover, and a fill does not change
that); a set of candles has one series (`SetToSeriesFacts`: the place of a candle is the
number of the older ones), hence the second backfill returns the first. `ReplayIsExact` has
the invariant `RetentionInv`, which says of every origin ever observed what became of its
first observation: it is held, as the first of its origin (`IsHeld`), or the newest record
is a window later (`IsOutdated`), or as many records as may be kept are no older
(`IsCrowdedOut`). It says so of what was observed since the records were lost last, and
`RetainingKeeps` shows it of any records a run starts from, none included. The three cases turn into each other when records are dropped
(`StillAccounted`). The file is sorted by time of observation, origin and revision, so that
a run of the same minute may be filed before others: never before the first of its own
origin, since a first observation has revision 1 and a later one has not, but possibly where
the cut falls, so that it is dropped at once.

**ForecastRunProofs**, for every set of keys and triggers and any number of runs, posts and
misread replies: `PostedAtMostOnce`, `AcceptedStaysLocked`, `PostedIsDurable`.
`AtMostOnce` is not inductive: it says nothing about why X is not called again. `IInv` adds
that whatever X accepted and was not misread is locked in the registry of the runner and in
that of the Release, and whatever it accepted is in both histories, if these exist
(`LockedIn`); that nothing is posted before there is a Release (`NoReleaseNoPost`); that a run that goes on without a
registry is the first one (`FirstRun`); that a run about to publish holds an unused
reservation (`HoldsReservation`), which the Release holds too (`DurableRun`); and that an
outcome not yet recorded leaves the key locked unless X rejected the post (`Unrecorded`).
The part that needs all of them is `SendPreserves`: the key is reserved, a reserved key
with an accepted post would be one that `reserve` had let through, and that is excluded by
what the registry locks. The steps that touch neither registry nor history nor X are dealt
with together, as `Quiet`. `PostedIsDurable` is an action property: only `Send` adds to
what X accepted (`OnlySendPosts`), and `DurableRun` gives what is in the Release then;
`HealthKnown` says that the health is a health by that time. `PostedOnGoodEvidence`
(`PostedOnlyWhenHealthy`) is about signals. Its invariant `EvidenceKnown` follows them through the steps: that a forecast succeeded means that the data were
valid and that nothing has overwritten this since, that the history of this very run was
observed before the last gate, and that the gate which lets a post through read circuits
that no step between it and X touches.

**HistoryProofs** is about two specifications, one after the other. `HistoryAudit`, for any
models, origins, prices and number of processes: `NothingCommittedIsLost`,
`FirstForecastIsKept`, `OutcomeIsKept`, `DrillAndAuditAgree`. The invariant has what each
file is good for at each step: where the database is not whole, all processes have closed
it and a copy that holds the history is left (`Survives`); a process that migrates is alone
and its rollback copy is what it opened (`MigrationIsCovered`); the rows selected for
enrichment are still there when they are written (`WorkIsFounded`); a repair acts on the
database that its plan was made of and is undone with a copy of it (`AuditIsCovered`). All
but the last end with `reopened`. The two action properties follow from a relation between
contents, `Follows`, which every transaction keeps.

`HistoryProtection`, for any retention and any number of runs and audits:
`ReceiptIsOfTheDrill`. The manifest read for the receipt is that of the restored copy
because while a drill is under way no job of its concurrency group moves the copy
(`DrillHoldsCopy`). `ReleaseAlwaysRecovers` and `CopyNeverFallsBehind` hold for damaged
generations of runs and audits alike. Their invariant is `Covered`, what
each step of a publication may rely on while the canonical asset is gone or about to go
(the newest generation is an intact copy of it, or nothing was ever published), with
`LostIsLeft`: once it is gone nobody but the operator touches what is left, and the operator
puts back a generation that can be verified or the copy in S3. Which
generations `Prune` deletes does not matter for it, as the canonical asset is back by then.

**ShadowDeploymentProofs**, for any finite set of configurations and any horizons,
lineages, prices and times. `PublishedEvidenceStands`, which is `Spec => EvidenceStands`:
every operation on a ledger gives a ledger that extends its argument, and extension is
transitive; `IInv` says that whatever may come to be published extends what is: the ledger
of a run, and the independent copy while the Release has lost its own. The latter is why
the copy is made first. `FrozenReportStands` needs that what a run adds is later than its
beginning (`RunAddsLater`), so that a report evaluated before it does not see it.
`ReadyCohortIsFull` needs that each forecast owed is a row or a failure seen at that time,
whatever became of the run (`PledgesAreKept`). `PromotionStands` takes the gate apart: rows and
outcomes are never rewritten, so that an origin whose two outcomes are published counts or
does not count for good (`CountedGrow`); and what the gate adds up of them only grows, the
window between the first and the last included (`ExtremesExist`, `PromotableStays`).

**PromotionProofs**, for any reports, healths and live evidence: `PromotionOnlyRecommends`,
the refinement of `ReviewOnly`. Initial states map to initial states, and each command to a
step or a stutter; the invariant says that the names in files and pull requests are known,
and that what is proposed was cleared (`ProposedWasCleared`). What the policy decides is
opaque in it: that it is the only way to a proposal is what is shown. The policy is opened
for `PolicyOnlyTightens`, check by check: what it sends to review passes each of the
optimizer's own tests. `RollbackNeedsPersistence` has the invariant `StreakIsCounted`: a
count of two in the state file means that the two last evaluations of the history found
the same breaches, as the two are only written together.

**ForecastApiProofs**, for any limit, window, page size, origins, horizons and models.
`WaitingIsEnough`: `LimiterKnown` has that a refusal was made for the request that is the
oldest still, which leaves the window before the client was told to return.
`WalkSeesEverything`: keys are ordered totally and a page is a stretch of that order, so
that a row that was there from the beginning and stayed is in what the client got or
after its cursor (`ApiWalkKnown`). `SiteWalkSeesEverything`: a page of the site is a
stretch of positions; a build that loses no rows can only move a row to a later one, so a
row not yet read is on a page to come (`SiteWalkKnown`). The lemmas give what the reader
takes for granted: that a finite ordered set can be listed, that the place in the list is
the number of members before it, and what a `SubSeq` of it holds.

**EngineProofs** is about the arithmetic of the forecasts, which has no state. Its proofs
make induction over numbers and orders on finite sets out of one lemma, `GreatestExists`,
which goes by a smallest counterexample among the subsets of a finite set.

`ReconcilingIsEnough` is about `Coherence` alone, for any finite set of horizons and any
quantiles: `reconcile_forecast_coherence` looks for crossings again only where there were
some before, and that is enough, since widening, nesting and moving the medians make none
(`NestedFacts`, `SettledFacts`, `TargetsFacts`). `FoldsDoNotLeak` is about `PurgedFolds`
alone, for any origins and settings: what is trained on in a fold that is built was due
before its validation starts, and every origin after the first ones is validated exactly
once. `ChunkFacts` gives the bounds of the chunks, uneven division included.

`WeightsKeepTheirBounds` is about `_bounded_normalize`, for any scores and bounds that can
be met: a split of the models exists (`SplitExists`), the shares of the free ones are at
most the whole (`ScaledFacts`), and what rounding leaves goes to one with room. It rests on
facts about the sums of the engine (`SumFacts` and what follows it) that are proved from the
definition of a fold by the smallest set on which they fail.

**ForecastProofs**, for any market, moves, wrong candles, answers of TimesFM, horizons and
windows, takes from there what it needs of the engine.

`EvidenceIsPast` and `OutcomesAreTrue`, the two invariants of `ForecastCycle` about
what a forecast may know. Neither is inductive: a recorded outcome is measured against a
candle of the tape, and whether it was measured at all depends on what the providers gave
in its hour. `CycleInv` adds that the tape is of whole hours up to now (`HourTape`), so that
an hour that passes changes no candle an outcome was measured against; and that what is
recorded lies before the time of its recording, near the truth where the providers were
compared (`Recorded`). `MarketFacts` is the step that matters: whatever delivery is chosen,
its candles are consecutive hours that are over, and if both providers gave enough of them,
a selection that survives the comparison is close to the truth at every hour compared, the
wrong candle included. The initial states are those that some past hours with runs lead to
(`Lived`), and have the invariant by induction over these hours (`LivedIsReached`).

`ReplaysSeeThePast` and `FoldsKeepTheirWord` are about every study of `WalkForward`. The
first has the invariant `WalkInv`: the samples are made of the candles up to their origin,
what is in the history is older than what is still to be replayed, and the module of
production holds the parameters the row will be judged by, which is why the segment and
its candidate are part of it. Then each of the decisions is taken apart: what reaches the
weights of the sample is `Visible`, and what reaches the drift looks no further than its
`now`. `FoldInv` relates the rows to the folds that are walked and to those in the queue:
the rows are the origins validated so far, in order, so that they are all of them at the
end, and the history is the training set of the fold with what was validated since. The
property alone says nothing of the queue, and is not inductive.

`LeadsAreEvidenced`, for every study of uncertainty: whether a model dominates is decided
before the scores are normalized, and what is claimed is claimed of the weights. Between
them are a scale, two bounds and a rounding. `ScaledRatio` says that of two models the
heavier weighs at most twice the other, and one more for rounding, if its score is at most
twice the other's, whichever of them are at a bound; `NormalizedRatio` adds what the
residue may give away. Hence a model with a larger lead had more than twice every other
score after the guard, which is only left to one that has earned it (`GuardedFacts`,
`LeadFacts`). `UncertaintyFacts` connects what the guard counts, in a history cut to its
newest records, with the intervals that came due before the row and the prices they were
about. The invariant is `Advised`: `WalkInv`, prices and samples are numbers (`InNumbers`),
and the history is as short as the study keeps it, so that the guard, which cuts it again,
loses no interval (`Remembered`). The first attempt failed: `Fits` did not ask for one
scale where every model is at a bound, so that a lighter model could be at the cap and a
heavier one at the floor. The bisection of `_bounded_normalize` has one scale for all;
`Fits` now says so. And `LeadIsEvidenced` counts the intervals of the model itself, as the
code does, and no longer every forecast that came due: one with an empty interval is no
evidence.

`PublishedFitsTogether` carries these numbers from the store to what is published. The
roots, means, rates and weights of any history of forecasts are integers, and no total that
is divided by is zero (`Sane`, `Evidence`, `BuildType`); a fold of the engine is typed as
the code computes it, the weights by their bounds. `ReconcilingIsEnough` wants a point
inside its interval for each horizon, which `Ensemble` gives since a half width is
positive (`CoheredType`). The invariant is `StoreInv`: whatever the store or the cache holds
was made of such a forecast (`Stored`, `Cached`), because a rerun, a failure to store and a
lost store only choose among forecasts that were built. `HealthIsEarned` unfolds what a
claim asks for: the confidence of a horizon is that of the outcomes it counted
(`HorizonConfidenceFacts`, `MeasuredFacts`), a threshold is not below what is neutral
(`ThresholdFacts`), and the outcomes measured in a run are those of the history it leaves,
since the forecast it stores has no outcome yet (`NothingNewIsDue`).

Only model-checked is liveness, which is beyond the prover: `ProbeEventually`,
`DeferredIsRetried`, `OutageIsEscalated`, `CriticalIsFiled`. The divergence of section 3
is what its run finds and not a theorem.

## 5. What comes next

1. An abstract specification of posting (a forecast is posted at most once, or given up)
   that `ForecastRun` implements, and one of durability that `HistoryProtection` does.
2. The remaining operations of the shadow ledger, and the guardian's remarks on open issues.
3. The selection studies and the experiment registry, once something in the system reads
   what they write.

## 6. What is not modelled

* **Experiment registry and selection studies**: tables that studies append to; nothing in
  the package depends on what they hold.
* **Other statistics and studies** of `research/` (dashboards, feature interactions,
  segment reports, rolling recalibration): offline numeric pipelines that read frozen data
  and write reports. TLC has no real numbers, and what matters there is statistical.
* **The arithmetic itself**: floats are integers of a stated unit; means, bootstraps and
  p-values are integers of a report where a decision reads them.
* **TimesFM**, and `feature_registry`, `policy_parity`, `retargeting` and
  `diversified_model`, which are not on the production path.
* **Web site** rendering, tweets, summaries, Markdown, observability: output without state.
* **Repository maintenance**: security audit, flaky tests, shims.
* Names, texts, times of records and event lists wherever no guard reads them. HTTP, ETags,
  hashing, GitHub's queue, and SQLite's locking below the transaction are external.
* Two hazards have no property since the code does not arrange for any: the first Release
  without a registry (forecast.yml:259) and the health of a failed forecast
  (forecast.yml:376). Two more are excluded by assumption or abstraction: migrations at the
  same time (history_migrations.py:394) and a run first seen in progress
  (workflow_guardian.py:1038, modelled as it is).
