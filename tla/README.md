# Verification of the fraud-detection platform

TLA+ specifications of the platform in `src/`, the TLC runs that check them on
small instances, and TLAPS proofs for every value of the constants. Paths below
are relative to the repository's root; `fd/` stands for `src/fraud_detection/`.

## 1. The system

| Part | State it keeps | Operations |
|---|---|---|
| **Producer** `fd/streaming/producer.py` | loop position, `sent`/`skipped`, librdkafka's queue | read CSV rows, enqueue, serve callbacks, `flush(10)` |
| **Consumer** `fd/streaming/consumer.py` | group offset at the broker, stored offset, `processed` | poll, deserialize, count, auto-commit, close |
| **Flink worker** `fd/streaming/flink_job.py` | source position (no checkpoint) | map each record: skip, or compute and push |
| **Online store** `fd/features/feast_store.py`, Feast, Redis | per entity key: features and event timestamp; Redis's dump | push, materialize, read, restart from the dump |
| **materialize** `fd/cli.py`, `feast_prep.py`, `feast_ops.py` | the one parquet file | sample, overwrite the file, `feast apply`, `feast materialize` |
| **Entity key, features** `fd/features/entity_key.py`, `feature_pipeline.py` | none | hash six fields; nine features from one row |
| **Registry** `fd/models/model_registry.py`, MLflow | versions, stages, run artifacts | register, promote (a human), resolve |
| **Inference API** `fd/api/`, `fd/monitoring/metrics.py` | one `AppState` per process, metrics, prediction log | start up, `/health`, `/ready`, `/metrics`, `/predict` |
| **Data preparation** `fd/data/`, `fd/cli.py` | three split files per directory | load, check, preprocess, split, write |
| **Training** `fd/models/`, `fd/cli.py` | MLflow runs, model report | read splits, fit, log, choose, register, report; evaluate |
| **Prediction log, drift** `fd/monitoring/` | JSON-lines log | append, read, report |
| **Airflow DAGs** `airflow/dags/` | task states | daily materialize, weekly retraining, monthly drift |
| **Dashboard** `dashboard/app.py` | one session state per browser | stream rows, publish, score, reset |
| config, logging, manifests, CI | - | deployment |

How they meet: the producer writes the topic that the worker and the consumer
read independently. The worker and `materialize` write one online store through
two paths; `/predict` reads it by the key it recomputes from the request.
Training registers versions; a human promotes one; each API replica loads a
Production version once, when it starts. Airflow runs the same commands as a
developer by hand, on the same files and the same registry: the weekly and the daily
DAG both preprocess into one directory, at the same midnight once a week. Each scored
request is appended to a log that the monthly DAG reports on.

What is hard here:

* **two writers and replays** on one store, with timestamps of two kinds: wall
  clock for pushes, a simulated hour after 2024 for batch rows;
* **no checkpoint**: a worker that dies starts again at the earliest offset, and
  errors are swallowed record by record;
* **shared files**: one parquet path for all `materialize` processes, one directory of
  split files for all DAGs, one prediction log for all threads, and no lock on any;
* **at-most-once** consumption and **lossy or duplicating** production, both from
  librdkafka's defaults;
* **start-up as a sequence of reads** from a registry that people and jobs change;
* **one-shot start-up**: a replica that failed to load stays as it is, and
  Kubernetes sees only HTTP status codes;
* **retries of chains that registered**: a training that fails after it registered its
  model is started over and registers again;
* **a script that any click may stop**: the dashboard's session state changes in
  several steps and Streamlit interrupts between them.

What makes each part correct is stated as properties in section 4. The full
list of hazards, each at its line, is in `PROJECT.json`.

## 2. Modules

```
Transactions            vocabulary: keys, rests, features, kinds of Kafka value
 +- OnlineFeatures      abstract: a table from keys to features of ingested rows
 +- FeaturePlatform     topic, worker, store, materialize, Redis   => OnlineFeatures
     +- MCFeaturePlatform            values for TLC
     +- FeaturePlatform_proofs       TLAPS
FeaturePipeline         the six transformers and the registry, as functions of a row
 +- FeaturePipeline_proofs       (MCFeaturePlatform uses it for real feature values)
ServingGate             abstract: a score needs a promoted version
InferenceService        registry, replicas, readiness, /predict    => ServingGate
 +- MCInferenceService, InferenceService_proofs
TransactionProducer     the producer and librdkafka's queue
 +- TransactionProducer_proofs
TransactionConsumer     the consumer group and its offsets
 +- TransactionConsumer_proofs
Retraining              split files, training, registry, evaluate, chains of them
 +- MCRetraining, Retraining_proofs
PredictionLog           appends of threads, drift-report
 +- PredictionLog_proofs
Dashboard               one Streamlit session
 +- Dashboard_proofs
```

### Transactions

A transaction is a record `[key, rest]`: `key` stands for the six fields
`compute_entity_id` hashes, `rest` for the three balances it leaves out.
`ComputeEntityId(t) == t.key` says that equal keys are equal ids; hash collisions
are left out. `FeatureOf` is any function from transactions to feature vectors:
`FeaturePipeline.transform` works row by row and `transform_one` delegates to it,
so both paths share it. A Kafka value is a transaction, `Malformed`
(`InvalidTransactionError`) or one of `Overflowing`: a step that is infinite
passes `json.loads` and makes `int()` raise `OverflowError`, which
`transaction_from_dict` does not convert.

### FeaturePipeline

The columns each transformer assigns, the loop over `DEFAULT_TRANSFORMERS`, the nine
entries of `FEATURE_REGISTRY` with their `source_columns`, and the six fields of the
entity key. Amounts are whole numbers; the one quotient is the pair of its parts.
There is no state. `feature_collision` takes its feature values from here; the other
runs take an injective `FeatureOf`, which hides no confusion of two transactions.

### FeaturePlatform

| Action | Code |
|---|---|
| `WorkerStart` | `run_flink_worker`: source at `earliest()`, `--bounded` fixes the end |
| `SkipInvalid`, `MapRaises`, `ComputeAndPush`, `PushFails` | the outcomes of `_ComputeAndPushFeatures.map` |
| `WorkerExit`, `WorkerCrash` | `env.execute` returns; the pod is killed |
| `BuildOfflineSource` | `_load_raw_data`, `transform`, `build_offline_source` (overwrites the parquet) |
| `StartMaterialize` | `apply_feast_definitions`; `feast materialize` reads the file and the window |
| `MaterializeRow`, `MaterializeSucceeds`, `MaterializeFails` | the subprocess, its exit, its timeout |
| `RedisSave`, `RedisRestart` | the dump on the `redis-data` volume; a restart from it |

`Accept` is Feast's rule for Redis: a row replaces what is there only if its event
timestamp is newer. `PushFails` leaves the store as it was or with the row in it,
since an exception may come after Redis applied the write. `gaps` is a history
variable: the keys for which a push failed or an entry was lost, and nothing was
accepted since. It is what lets `NoUnexplainedGap` say "readable, or here is why
not".

The steps inside `BuildOfflineSource` are one action because the process reads the
CSV, which nobody writes, and touches shared state only by replacing the parquet
file. `StartMaterialize` reads the parquet at once: Feast reads it into memory
before it writes rows. The choice makes the shared-file race smaller, not larger.

### InferenceService

`replica[r]` is what start-up has loaded so far. `Resolve`, `LoadModel`,
`LoadFeatureNames` and `ConnectFeast` are the four statements of `load_app_state`,
one action each, so that registrations and promotions come between them;
`StartupFails` at any of them ends in `_NOT_READY_STATE` for the life of the
process. `ReadinessProbe` follows the route: always 200, unless the one-second
connect to a silent Redis outlasts the probe's own second. A request is `Route`d to
a replica in rotation, reads its features (`ReadFeatures`) and is scored in a
second step (`Predict`), because a replica can restart in between. `counted` is
`prediction_requests_total` summed over its outcomes, `received` what it could at most
be.

### TransactionProducer, TransactionConsumer

The producer's queue is a set of row numbers without an acknowledgement;
`BrokerAppends` writes in any order and may lose the acknowledgement, so that a
row is appended twice. The consumer's `Poll` stores the offset before the message
is handled (librdkafka's default), `AutoCommit` may run between any two steps, and
`Close` commits unless the broker cannot be reached. `Interrupted` (Ctrl+C or a
Kafka error) and `Raises` (the `OverflowError` again) go through the `finally`
clause, `Killed` does not.

### Retraining

A pipeline is a DAG, a Job or a person, and `Commands` is the chain of
`preprocess`, `train` and `evaluate` it runs; `phase` is where it is within a command.

| Action | Code |
|---|---|
| `Start`, `Retry`, `Abort` | the next interval, the Job's `backoffLimit`, a kill or an exception anywhere |
| `LoadRaw` | `load_paysim_csv`, `assert_trainable`, `get_dummies`, `stratified_split` |
| `Truncate`, `Fill` | `to_parquet`, file by file: opened, then written and closed |
| `ReadSplit` | `load_dataset`, file by file, the columns checked at the last one |
| `Fit`, `LogModel` | one candidate's MLflow run: the model is logged last |
| `RegisterBest`, `WriteReport` | the best run's version; plots and the model report |
| `Resolve`, `Score` | `evaluate`: the highest version, `load_model`, the test split |
| `ReplaceRaw` | someone puts another CSV in place |

A frame is the CSV it was cut from (for the properties only), its rows and its columns;
how `train_test_split` deals rows is the constant `SplitWith`, of which
`SplitAssumption` says only that parts are disjoint and that each gets some of the
fraud. `Torn` is a file that is not a whole parquet file. Two writers of one file that
write the same bytes leave it whole, two that write different ones may not (`mixed`).
Which candidate is best is a choice. A pipeline has at most one chain running: a DAG's
interval is far longer than its chain, the Job has one pod. A run that someone triggers
by hand on top of that is one more member of `Pipelines`, with the same commands and
directory; the proofs hold for any number of them. All chains
use one registry: the weekly DAG and the command line share a file store, and the
Kubernetes Job, whose manifest names an MLflow server of its own, stands in the
instance for one that is pointed at the same store.

### PredictionLog

A line is three bytes, two of JSON and the newline: enough for one that breaks off
within the JSON or right after it. Python buffers the line and `close()` hands it to
one `write(2)`, during which no other write comes between (`writer`) but a reader may
see part of it. `WriteFails` is a full disk: flushing fails, `close()` tries the rest
again, `_log_prediction` swallows the error. `Kill` ends the API with the requests in
it. `Begin`, `LoadReference`, `LoadPredictions` and `Generate` are `drift-report`;
the DAG's runs begin with `test -s`. The report reads the file at once, and every
outcome of the command has a value of `outcome`. `appended`, `due` and `broken` are
history variables.

### Dashboard

One session: `widgets` is what the browser shows, `shown` what this run of the script
read. Streamlit stops the script at its next access of the session state or `st` call
after a click; every such point is a boundary between two actions, and `Interrupt`
stands for the stop. There is none between `produce()` and the answer of `/predict`.
`Take` to `AppendResult` is the loop over `stream_one` and `get_producer`, `Trim` the
cut to `HISTORY_LIMIT`, `Clear` and `Rewind` the reset button, `Render` ends the run
and asks for another one while the box is checked. Several widgets changed at once
stand for changes whose reruns Streamlit coalesces. `cuts` and `halfMade` are history
variables.

## 3. Runs

| Run | Instance | Shows |
|---|---|---|
| `feature_stream` | 2 keys, 3 records, 1 tick, 1 crash, no materialize | the stream with crashes, failed pushes and Redis restarts, liveness included |
| `feature_materialize` | 2 keys with 2 values of `rest`, a dataset of 2 rows, sample sizes 1 and 2, 2 processes, 1 record of any key and `rest`, overflowing or malformed, 1 tick | the two write paths together, the shared parquet (443 428 states) |
| `serving` | 2 replicas, 2 clients, 2 versions, 2 column lists | serving over registrations, promotions, restarts (68 052 states) |
| `producer` | 5 rows, one invalid, queue of 2, 2 lost acks | accounting, termination |
| `consumer` | 3 messages of 4 kinds, 2 outside stops, limits none and 2 | loss bound, progress |
| `retraining` | weekly and daily DAG over one directory, a Job with its own; 3 CSVs, one replacement, one kill, two chains at a time | what is registered, evaluated and reported (496 000 states) |
| `retraining_repair` | the two DAGs, one candidate, two kills | chains end, torn files are repaired (39 390 states) |
| `prediction_log` | 2 requests, a DAG's report and a person's, 2 faults | the log and its readers, liveness included (43 878 states) |
| `dashboard` | 5 rows, one invalid, 2 servers, one without a broker, batch 2, limit 2, 4 clicks, 8 rows taken | one session, liveness included |
| `feature_collision` | 2 values of `rest`, features from `FeaturePipeline` | violation, finding 1 |
| `feature_crash_loop` | one overflowing value | violation, finding 2 |
| `serving_rotation` | 1 replica, 1 version | violation, finding 3 |

Why the bounds suffice. Three records reach a replay that overwrites, a failing push
between two good ones, and a record produced while a bounded run is ending. One tick
gives a replayed push a newer timestamp than the first; with none, the push is ignored:
both happen in `feature_stream`, and batch rows are always older than pushes
(`StreamEpoch`). Two processes and two sample sizes are what the parquet race takes: one
reads the other's larger or smaller sample. One record is enough for the two write
paths, because bounded runs of the worker go over it again, before, between and after
the batches' rows; with two values of `rest` it has a batch row's key and features of
its own, so that which of the two is served shows. The worker's crashes are left to
`feature_stream`; here it goes down by its bounded runs' ends and by the overflowing
record. Two versions are enough for a promotion in the middle of a start-up and for one
after it; two replicas for one that serves while the other starts; the older one may be
promoted after the newer, with replicas that restart before and after. Four kinds of
message and two stops make every order of store, handle, commit and stop; a third stop
repeats them, and `LossBounded` proves that no number of them adds anything.

In `retraining`, two chains at a time are what a mixture of two preparations, a
registration between another's registration and report, and one between `train` and
`evaluate` take; the CSV changes once, which gives files of two CSVs with different
columns; one of the CSVs cannot be trained on; the Job is killed after it registered and
retried. In `retraining_repair` the weekly DAG starts once and the daily one, which does
not train, again and again: one later run is what a repair takes. The two seeds differ
on every CSV, so that a missing `random_state` shows. Two faults in `prediction_log`
break a line and its second attempt, or break one line and kill another. Four clicks
make a reset within an interrupted loop, a change of servers within `get_producer`, and
a loop after both; a row index up to 8 wraps around the five rows.

Bounds that exist only for TLC, each a guard of its action: `MaxClock` (`Tick`),
`MaxTopic` (`Produce`), `MaxCrashes` (`WorkerCrash`), `MaxVersions` (`Register`),
`MaxRetries` (`BrokerAppends`), `MaxStops` (`Interrupted`, `Killed`), `MaxActive`
(`Begin`), `MaxChanges` (`ReplaceRaw`), `MaxAttempts` (`Start` of a pipeline that
trains), `MaxAborts` (`Abort`), `MaxFaults` (`OpenFails`, `WriteFails`, `Kill`),
`MaxClicks` (`Click`), `MaxRows` (`Take`).

Symmetry is used where it is sound: for processes, replicas, clients and column
lists, in runs without liveness. Deadlock is checked except in `TransactionProducer`,
a command that ends, in `Retraining`, where all starts may be used up, and in
`Dashboard`, where nobody need click.

### Fairness

* Worker: `WorkerStart`, `WorkerMap` and `WorkerExit` are weakly fair. The
  Deployment restarts its pod, a running source keeps polling. Nothing obliges
  anyone to produce, to materialize, to crash or to save.
* Producer: its loop is sequential code that waits only in `flush(10)`, which
  times out. The broker and librdkafka's callbacks are not fair.
* Consumer: the loop polls for ever, the commit thread ticks every few seconds,
  whoever runs it starts it again: weakly fair. `Raises` and `Finish` with a
  commit are strongly fair: the broker is not unreachable at every single close.
* Retraining: a running command goes on, and a failed Job is retried (`Step`, for each
  pipeline); a scheduled DAG starts again (`Start`, for `Scheduled` ones). A person need
  not start anything, and nobody need replace the CSV or kill a command.
* Prediction log: a thread in `append_prediction` and a started report go on. Requests,
  faults and reports need not come.
* Dashboard: the script's thread runs. Clicks and Streamlit's interruptions need not
  come.
* Serving has no liveness property and no fairness.

## 4. Properties

| Property | Says |
|---|---|
| `ServedFeaturesAreOwn` | a hit returns the features of the transaction asked for (violated: finding 1) |
| `NoUnexplainedGap` | each valid record the worker passed is readable, or a fault since explains why not |
| `SuccessServesCommonRows` | a materialize that exits 0 made the rows readable that every sample size in use takes in, whoever replaced its parquet or was killed |
| `StreamBeatsBatch` | a push reported OK is what lookups then get, and no batch row replaces a streamed one, in any order of the two paths |
| `WorkerPassesEveryRecord` | no record, malformed or failing, holds the worker up |
| `BoundedRunEnds` | a `--bounded` run ends under continued production |
| `TableSpec` | through lookups, the platform is the table of `OnlineFeatures` |
| `LoadedAsOne` | label, model and columns of a ready replica are one version's |
| `RestartNeverGoesBack` | no start-up resolves a version older than one a replica holds or a client was answered with |
| `CountsOnce` | a request is counted on at most one of `predict()`'s ways out |
| `GateSpec` | every score is one `ServingGate` allows: a promoted version, its columns, its label |
| `EveryRowAccountedFor` | a row the producer passed is skipped, published, reported or queued |
| `ProducerEnds` | the producer ends without the broker's help |
| `LossIsBounded` | lost messages are at most the stops that met a valid message in hand |
| `EveryMessagePassed` | the group's offset gets past every message |
| `HeldOut` | no model is selected, tested or scored on rows it was fitted to, as long as its files are of one CSV, whoever wrote them |
| `RegisteredIsServable` | a version has its model, its columns and some fraud, whatever was killed or mixed |
| `PrivateSplitsAreReadable` | a chain in a directory of its own never finds a split it cannot use |
| `OneVersionPerAttempt` | a retry registers again, but no attempt twice |
| `EvaluatesNoOlder` | `evaluate` may score another run's version, but none older than its own chain's |
| `ReportDescribesItsVersion` | the report names the version of the run it describes, whoever registers meanwhile |
| `ChainsEnd` | every chain of commands ends, whatever state the files are in |
| `TornSplitRepaired` | a file left torn is whole again after a later run of a DAG |
| `ReportIsComplete` | a report that renders has every prediction appended before it began |
| `UnparsableIsExplained` | a line that is not JSON is a failed, killed or unfinished write: lines do not mix |
| `CheckedHasRows` | after `test -s` the log is not empty |
| `AppendedLinesAreWhole` | a line whose append returned is in the log in one piece, whatever fails or is killed later |
| `AppendsEnd`, `ReportsEnd` | an append ends although another failed; a report ends whatever it reads |
| `HistoryInOrder` | the session's history is in stream order, whenever a reset or a loop is stopped |
| `MissingRowsWereCut` | a row missing from it is a loop that was broken off |
| `HistoryBounded` | it exceeds `HISTORY_LIMIT` only by what such loops added |
| `SentWhereShown` | rows are published where the field says, unless a click came between `get_producer`'s two assignments |
| `RowEnds` | neither a dead broker nor a dead API holds a row for ever |

`TypeOK` of each module with variables is checked in one passing run of it. Each
property has a mutant in its module (comments "Mutant: ...") that turns one action or
helper into a plausible bug and makes the property fail under the same configuration.

Some properties hold under conditions that the code does not enforce, and it matters
that they are there: `ServedFeaturesAreOwn` holds under `KeyIdentifiesFeatures` only
(theorem `OwnFeaturesServed`; finding 1), that a success serves its whole sample needs
equal sample sizes (theorem `SuccessIsServed`), `WorkerPassesEveryRecord` needs a topic
without overflowing records (finding 2), `HeldOut` speaks of files of one CSV (section
5), `SentWhereShown` excepts sessions whose producer was left half made (what happens in
those is in section 5), and `EveryRowAccountedFor` counts as accounted for what is still
queued when the producer ends. `RestartNeverGoesBack` is about a registry whose versions
are promoted and never taken out of Production; there it also says that promoting an
older version changes nothing (section 5).

## 5. Findings

1. **Key collision** (`entity_key.py:45`). Transactions that differ only in the
   three balances outside the hash share an online entry, although the features
   use those balances. `CollisionsAreInvisibleExactly` (section 6) says which
   differences a lookup can show.
2. **Crash loop** (`flink_job.py:80`, `schemas.py:37`). A record whose step is
   infinite escapes both exception handlers around deserialization; the job fails
   at the same record after each restart. The consumer gets past it
   (`EveryMessagePassed`), since it stored the offset first.
3. **Readiness** (`routers.py:57`). `/ready` answers 200 with `ready: false`; the
   Kubernetes probe reads the status, so not-ready replicas receive traffic
   (`RotationMeansLoaded`).

Seen while reading, with no run of its own:

* Overlapping `materialize` processes with different `--sample-size` share one parquet
  path (`cli.py:307`): one can report success without its rows, though the help text
  (`cli.py:514`) speaks of its own sample. What a success is still
  worth then is `SuccessServesCommonRows`.
* Promoting an older version does not take effect (`model_registry.py:88`: the highest
  version in the stage wins), although the README (lines 256-257) says to promote the
  version to serve and restart. `RestartNeverGoesBack` and its theorem show that this is
  so in every history of registrations, promotions and restarts: by promotion alone a
  rollout cannot be rolled back. The newer version has to leave the stage.
* What is still in librdkafka's queue when `flush(10)` gives up is lost with the process,
  and nothing reports it: the number `flush` returns is not read (`producer.py:83`).
* `prediction_requests_total` misses 503s of a not-ready replica, 422s of the request
  model and 500s (`routers.py:95`, `metrics.py:21`): `CountsOnce` bounds it from one
  side only.
* The producer's `sent` counts what was enqueued (`producer.py:75`), the docstring says
  published (`producer.py:51`).
* `_NOT_READY_STATE` probes `localhost:6379` instead of Feast's Redis (`app.py:44`), so
  `redis_connection_status` of a not-ready replica is about the wrong host.
* The weekly DAG's description has the order train, evaluate, register
  (`weekly_retraining.py:49`); `train` registers first, so a version exists before
  anything was evaluated.
* When the raw CSV is replaced between two overlapping `preprocess` runs, a training can
  read splits of both, and rows of its test split may then be rows it was fitted to.
  `HeldOut` therefore speaks of files of one CSV, and shows that nothing else is needed.
* A half-written line makes `drift-report` end with a `JSONDecodeError`, where
  `prediction_log.py:56` documents `PredictionLogError`; the line stays in the log, so
  every later report ends the same way.
* The manifest of the API gives the prediction log no volume: it does not survive its
  pod, and each replica has its own.
* A click between `get_producer`'s two assignments (`dashboard/app.py:58`, `:71`) leaves a
  session with a producer for one server under another's name.
* `HISTORY_LIMIT` (`dashboard/app.py:40`) is exceeded by loops that clicks break off.

## 6. Proofs

All theorems quantify over every value of the constants that satisfies the modules'
named assumptions (`VocabularyAssumption`, `PlatformAssumption`,
`ServiceAssumption`, `ProducerAssumption`, `ConsumerAssumption`,
`RetrainingAssumption`, `SplitAssumption`, `LogAssumption`, `DashboardAssumption`).

**FeaturePlatform_proofs.** `TypeCorrect` is inductive by itself. The other results
rest on one view of the steps: every step that changes the store is a push of some
transaction (`Pushes`; lemmas `WorkerPushes`, `BatchPushes`) or a restart, and
`AcceptProperties` says what a push can do whatever timestamp it carries.
* `GapsAreExplained`: no step uncovers a key (`CoveredStaysCovered`), the record just
  passed is covered, and a start has passed nothing.
* `OwnFeaturesServed`, under `KeyIdentifiesFeatures`: the inductive invariant is
  `Provenance` of the live store *and of the dump*; the property alone is not
  inductive because a restart copies the dump back.
* `CommonRowsServed`, for any sample sizes: `RunsAreOnTrack` speaks of the processes
  still at work, whose rows are covered or on their lists. Runs replace each other's
  parquet, so that success is worth only the rows every sample size takes in.
  `SuccessIsServed` is the case of equal sizes.
* `ImplementsTable`: step simulation. It also needs that the rows on a process's
  list are rows of the dataset (`TodoIsHistorical`).
* Timestamps, the one thing by which the store decides between the two paths:
  `TimestampsOnTrack` (nothing is stamped later than the clock, the dump is no newer than
  the live store) gives `DumpsAreOlder` and the lemma `PushTakesEffect`; that batches stamp
  before the stream's epoch gives `BatchSparesStreamed`; the two are
  `StreamedFeaturesWin`. `EntriesHaveASource` is what is left
  of `OwnFeaturesServed` without the assumption on keys: an entry may be another
  transaction's, but one path made all of it.
* `OverflowIsNeverPassed`: the crash loop of the run `crash_loop` for every topic. It
  is inductive with the types: a start goes back to the first record, and `map()` raises
  whenever it comes to this one.
* `BoundedRunsGetCloser`: the rank `StepsLeft`, the records up to the offset latest()
  gave and the exit. A bounded run stays inside it (`BoundedOnTrack`).

**FeaturePipeline_proofs.** Four facts about the functions, for any row.
`TransformersCommute`: the order of `DEFAULT_TRANSFORMERS` does not matter, since no
transformer reads a column another one writes. `RegistryIsSatisfied`:
`validate_features_present` never raises. `FeaturesComeFromSources`: a feature depends on
its `source_columns` only. `CollisionsAreInvisibleExactly`: when two rows of one entity
key have the same features.

**InferenceService_proofs.** One inductive invariant, `IInv`: types, what each phase
of start-up has loaded (`StartupOnTrack`), and that requests in scoring sit on ready
replicas (`RequestsOnTrack`). Stages are never taken back and columns never change,
so it survives registrations and promotions. From it follow `ServiceTypeCorrect`,
`LoadsAsOne` and, by step simulation, `ImplementsGate`. `RestartsNeverGoBack` adds
`AnswersFromProduction`: what replicas hold and what clients were answered with is in
Production for good (`ProductionGrows`), and the highest version there is taken.
`CountersCountOnce` adds that what a replica has in hand is finite (`CountersOnTrack`):
an answer takes from the hand at least what it adds to the counter. Three facts are about
failure: `NobodyIsForgotten` (a request is in some replica's hands exactly while it is
unanswered, through kills and restarts), and what remains true although
`RotationMeansLoaded` is violated: only replicas that ended their start-up are in
rotation or have requests (`OnlyStartedServe`), and those without a model refuse, never
score and never count (`NotLoadedOnlyRefuses`).

**TransactionConsumer_proofs.** `ConsumerTypeCorrect` contains
`committed <= stored <= position`. `LossBounded`: the property speaks of what is
committed, and a commit still to come can lose more, so `LossInv` counts the
unhandled messages up to `position` instead, with the message in hand apart.
`CommitsForward`: no stop, crash or start takes the group's offset back, and nothing
behind it is handed out again. `StopsAtItsMax`: `--max-messages` is never exceeded.

**TransactionProducer_proofs.** `ProducerTypeCorrect` needs
`sent + skipped = row` and that queued rows are rows the loop has been through, so
that adding one to the queue respects its limit. `RowsAccountedFor` follows by
cases. `RowsOnTheirWay` (rows in the queue, the topic and the reports are valid ones the loop
has come to, and none both waits and is reported) gives the conservation law
`ProducerMessagesAddUp`, which counts messages where `RowsAccountedFor` looks at rows, and
`OnlyValidRowsPublished`. `ProducerGetsCloser`: the rank `LoopLeft`.

**Retraining_proofs.** Six invariants, each relative to the ones before it.
* `Memory`: types, and what a pipeline has in memory at each step that uses it
  (`OnTrack`). Gives `RetrainingTypeCorrect` and `EvaluatesNothingOlder`. The lemma
  `OthersUntouched` says once that the rest of the world leaves a pipeline alone.
* `FramesCut`: every file is missing, torn or a part of the one cut of some CSV, and so
  is every frame in memory. Here the constant `random_state` is used.
* `RunsGood`: runs, versions and reports are made of such frames, their columns agree,
  and whoever registers does so with its model logged. Gives
  `ReportsDescribeTheirVersion` and `RegisteredAreServable`.
* `Private`, for a chain in a directory of its own: what is in the files is what it
  wrote, in one piece when it comes to read. Gives `PrivateSplitsCanBeRead`, and with
  the three before `ModelsAreHeldOut`, whose heart is `CutApart`: two parts of the cut
  of one CSV have no row in common, whoever cut them.
* `OncePerAttempt`: the versions of a pipeline, and one more while its chain can still
  register, are at most its starts. Gives `OneVersionForEachAttempt`, for which the
  property alone is not inductive. It uses that a chain trains once.
* `Candidates`: how many candidates a training has behind it at each of its steps, all
  fitted to the reading it holds. With `RunsGood` it gives `BestIsOfAll`. `VersionsAreKept`
  is the action property of the registry.

`ChainsGetCloser` is proved for any number of candidates and any chains. The rank
`ChainLeft` counts the commands left, each at its longest, and what the running one has
left (`CommandLeft`); that the latter never exceeds the longest (`CommandLeftBounds`)
needs `Candidates`.

**PredictionLog_proofs.** `WritesOnTrack`, whatever fails: the first byte of every
appended line is in the log, and a log that parses has a whole row wherever a line
begins, which is what `ReportsAreComplete` needs. `WholeLines`, as long as nothing
failed: the log is one line after the other, the last one cut where its writer is, so
that it parses whenever nobody writes; `UnparsableExplained` rests on that.
`ReadersOnTrack` keeps the log from being empty under a report that checked it. Gives
`LogTypeCorrect`, `ReportsAreComplete`, `UnparsableExplained` and `CheckedFindsRows`.
On top of it, whatever fails: `BytesStayInOrder`;
`AppendedStaysWhole`, inductive with the open line, which ends the log until its write
fails or is over (`OpenLineIsLast`); `ReportsShowServedRows`, the other side of
completeness; `TheLockIsHeldByAWriter`. The ranks `AppendLeft` and `ReportLeft` give
`AppendsGetCloser` and `ReportsGetCloser`.

**Dashboard_proofs.** `IInv` adds to the properties the row the loop has taken and not
yet appended (`HandIsLatest`: newer than the history, older than `row_index`), that from
each entry on the rows taken are in the history, in hand or cut off (`RowsAccountedFor`;
`MissingRowsWereCut` alone compares only two entries and is not inductive), and that the
producer's label is true unless it was left half made (`LabelIsTrue`). Gives
`DashboardTypeCorrect`, `HistoryKeepsOrder`, `RowsAreCutOnly`, `HistoryStaysBounded`
and `SendsWhereShown`. `ScriptGetsCloser`: the rank `ScriptLeft` of a whole run of the
script, its resets and its loop; a click may stop the run and never makes it longer.

**Liveness, the half that is proved.** A liveness property here is a rank that cannot go
down forever and fairness that does not let it rest. The first is a theorem, with no
bound on anything: `BoundedRunsGetCloser` (for `BoundedRunEnds`), `ProducerGetsCloser`
(`ProducerEnds`), `ChainsGetCloser` (`ChainsEnd`), `AppendsGetCloser` (`AppendsEnd`),
`ReportsGetCloser` (`ReportsEnd`), `ScriptGetsCloser` (`RowEnds`): each step of the actor
lowers its rank, and nobody else raises it. That the actor always has a step until it is
done is ENABLED, and stays with TLC. `WorkerPassesEveryRecord` and `EveryMessagePassed`
have no such rank, since a crash or a new start goes back; nor has `TornSplitRepaired`,
where the repair waits for another chain.

Only model-checked: the liveness properties themselves (`WorkerPassesEveryRecord`,
`BoundedRunEnds`, `ProducerEnds`, `EveryMessagePassed`, `ChainsEnd`,
`TornSplitRepaired`, `AppendsEnd`, `ReportsEnd`, `RowEnds`), which rest on fairness and
so on ENABLED, beyond the installed provers. Every invariant, both action
properties and both refinements that the passing runs check are proved. The violated properties are refuted by TLC and not
touched by proofs.

## 7. Not modelled

* pandas, scikit-learn, Evidently and MLflow's internals: how a model is fitted, what a
  metric or a drift statistic is, what a report looks like. Where their result matters it
  is a choice or a constant.
* `fraud-detection validate`, the data quality report and the model plots: files nobody
  reads back. `ingest` and the daily DAG's extract and validate tasks only read.
* The gauge that `/metrics` sets before it renders, the thread pool that the handlers
  share, and the race between the liveness probe and a start-up that waits for MLflow:
  the first is display, the other two are decided by numbers of seconds and of threads
  that are Starlette's, redis-py's and the kubelet's (listed as hazards with this note).
* Versions that leave the Production stage (archived, deleted, moved back): nothing in
  the repository does it, and the README's procedure only promotes. `LoadedAsOne`,
  `GateSpec` and `RestartNeverGoesBack` cover that procedure and not a registry from
  which versions are taken away.
* What Flink's schema does with a record without a value: the connector's business.
* In the dashboard: the wait for the worker after a publish, a missing CSV at start, and
  the metrics drawn from the history.
* SHA-256 collisions of the entity key, and floating point: amounts are whole numbers.
* Configuration, log formatting, images, Compose, CI, Terraform: data of the deployment;
  the probes, retries, volumes and replica counts that behaviour rests on are in the
  modules.
* One specification of everything at once. The parts meet at the topic, the store, the
  registry and the log, each of which has a module in which both of its sides act; what
  a composition would add, that a published transaction is answered in the end, needs
  fairness of brokers and of people that the code does not give.
