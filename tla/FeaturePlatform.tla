--------------------------- MODULE FeaturePlatform --------------------------
(***************************************************************************)
(* The real-time feature platform: the Kafka topic, the Flink worker that  *)
(* maps each record to a push into the online store (Feast over Redis),    *)
(* and the `materialize` jobs that fill the same store from a prefix of    *)
(* the raw dataset through one shared parquet file.                        *)
(***************************************************************************)
EXTENDS Transactions, Sequences

CONSTANTS
    Dataset,        \* the rows of the raw CSV, in file order
    SampleSizes,    \* the --sample-size values materialize is run with
    Jobs,           \* materialize processes (the daily DAG's, one run by hand)
    Missing,        \* Redis has no entry for a key
    StreamEpoch,    \* earliest wall-clock second, later than every dataset hour
    MaxClock,       \* bound: wall-clock seconds that pass
    MaxTopic,       \* bound: records in the topic
    MaxCrashes      \* bound: times the worker process dies

Entry == [features : FeatureVector, ts : Nat]
Streamed(seq) == {seq[i] : i \in DOMAIN seq} \cap Transaction
Historical == {Dataset[i] : i \in DOMAIN Dataset}

ASSUME PlatformAssumption ==
    /\ Dataset \in Seq(Transaction)
    /\ SampleSizes \subseteq 1 .. Len(Dataset)
    /\ Missing \notin Entry
    /\ Missing \notin FeatureVector
    /\ StreamEpoch \in Nat /\ \A k \in Key : StepOf[k] < StreamEpoch
    /\ MaxClock \in Nat /\ MaxTopic \in Nat /\ MaxCrashes \in Nat

VARIABLES
    topic,          \* the log of the `transactions` topic
    worker,         \* the Flink worker's process: "running" or "down"
    position,       \* records the running worker has mapped
    bounded,        \* the --bounded flag of this run of the worker
    stopAt,         \* the latest offset when it started
    online,         \* the online store: Key -> Entry or Missing
    snapshot,       \* Redis's last dump on its volume
    parquet,        \* rows in the offline FileSource, 0 before it is written
    job,            \* the materialize processes
    clock,          \* wall-clock seconds
    crashes,        \* how often the worker died
    gaps            \* history: keys whose push failed, or whose entry Redis lost,
                    \* and for which no row was accepted since

streamVars == <<topic, worker, position, bounded, stopAt, crashes>>
jobVars == <<parquet, job>>
vars == <<streamVars, jobVars, online, snapshot, clock, gaps>>

TypeOK ==
    /\ topic \in Seq(Message) /\ Len(topic) <= MaxTopic
    /\ worker \in {"running", "down"}
    /\ position \in 0 .. Len(topic)
    /\ bounded \in BOOLEAN
    /\ stopAt \in 0 .. Len(topic)
    /\ online \in [Key -> Entry \cup {Missing}]
    /\ snapshot \in [Key -> Entry \cup {Missing}]
    /\ parquet \in SampleSizes \cup {0}
    /\ job \in [Jobs -> [phase : {"idle", "built", "writing", "succeeded", "failed"},
                         sample : SampleSizes \cup {0},
                         todo : SUBSET Transaction]]
    /\ clock \in 0 .. MaxClock
    /\ crashes \in 0 .. MaxCrashes
    /\ gaps \in SUBSET Key

Init ==
    /\ topic = <<>>
    /\ worker = "down" /\ position = 0 /\ bounded = FALSE /\ stopAt = 0
    /\ online = [k \in Key |-> Missing]
    /\ snapshot = online
    /\ parquet = 0
    /\ job = [j \in Jobs |-> [phase |-> "idle", sample |-> 0, todo |-> {}]]
    /\ clock = 0
    /\ crashes = 0
    /\ gaps = {}

-----------------------------------------------------------------------------
(* The online store.  Feast keeps a row whose event_timestamp is not older *)
(* than the pushed one.                                                    *)

Readable(k) == online[k] # Missing

\* The store after it has been sent t's features with event_timestamp ts.
Accept(t, ts) ==
    LET k == ComputeEntityId(t)
    IN  IF Readable(k) /\ online[k].ts >= ts
        THEN online
        ELSE [online EXCEPT ![k] = [features |-> TransformOne(t), ts |-> ts]]

\* The event_timestamp of a streamed row: write_online stamps it with now().
Now == StreamEpoch + clock

\* Mutant: the batch stamps its rows with now(), too.
BatchTimestampNow(t) == Now

\* The event_timestamp of a batch row: DEFAULT_BASE_TIMESTAMP plus its step.
BatchTimestamp(t) == StepOf[t.key]

-----------------------------------------------------------------------------
(* The topic and the clock.                                                *)

Produce(m) ==
    /\ Len(topic) < MaxTopic
    /\ topic' = Append(topic, m)
    /\ UNCHANGED <<worker, position, bounded, stopAt, crashes, jobVars, online, snapshot, clock, gaps>>

Tick ==
    /\ clock < MaxClock
    /\ clock' = clock + 1
    /\ UNCHANGED <<streamVars, jobVars, online, snapshot, gaps>>

-----------------------------------------------------------------------------
(* The Flink worker: no checkpoint, so every start reads from earliest().  *)

\* Mutant: a start resumes at the end of the topic, as latest() would.
WorkerStartAtLatest ==
    /\ worker = "down"
    /\ worker' = "running"
    /\ position' = Len(topic)
    /\ bounded' \in BOOLEAN
    /\ stopAt' = Len(topic)
    /\ UNCHANGED <<topic, crashes, jobVars, online, snapshot, clock, gaps>>

WorkerStart ==
    /\ worker = "down"
    /\ worker' = "running"
    /\ position' = 0
    /\ bounded' \in BOOLEAN
    /\ stopAt' = Len(topic)
    /\ UNCHANGED <<topic, crashes, jobVars, online, snapshot, clock, gaps>>

\* The next record the source hands to map().
HasRecord ==
    /\ worker = "running"
    /\ position < (IF bounded THEN stopAt ELSE Len(topic))
Record == topic[position + 1]

\* Mutant: an invalid message is skipped twice.
SkipInvalidTwice ==
    /\ HasRecord /\ Record = Malformed
    /\ position' = position + 2
    /\ UNCHANGED <<topic, worker, bounded, stopAt, crashes, jobVars, online, snapshot, clock, gaps>>

\* map() returns "SKIPPED invalid message".
SkipInvalid ==
    /\ HasRecord /\ Record = Malformed
    /\ position' = position + 1
    /\ UNCHANGED <<topic, worker, bounded, stopAt, crashes, jobVars, online, snapshot, clock, gaps>>

\* map() catches InvalidTransactionError and nothing else around deserialization:
\* the job fails, env.execute() raises and the process ends.
MapRaises ==
    /\ HasRecord /\ Record \in Overflowing
    /\ worker' = "down"
    /\ UNCHANGED <<topic, position, bounded, stopAt, crashes, jobVars, online, snapshot, clock, gaps>>

\* map() returns "OK".
ComputeAndPush ==
    /\ HasRecord /\ Record \in Transaction
    /\ online' = Accept(Record, Now)
    /\ gaps' = gaps \ {ComputeEntityId(Record)}
    /\ position' = position + 1
    /\ UNCHANGED <<topic, worker, bounded, stopAt, crashes, jobVars, snapshot, clock>>

\* Mutant: the exception of a failed push ends the job.
PushFailureEndsJob ==
    /\ HasRecord /\ Record \in Transaction
    /\ worker' = "down"
    /\ UNCHANGED <<topic, position, bounded, stopAt, crashes, jobVars, online, snapshot, clock, gaps>>

\* Mutant: the store deletes the old row before it writes the new one.
PushFailsAfterDelete ==
    /\ HasRecord /\ Record \in Transaction
    /\ online' = [online EXCEPT ![ComputeEntityId(Record)] = Missing]
    /\ gaps' = gaps \cup {ComputeEntityId(Record)}
    /\ position' = position + 1
    /\ UNCHANGED <<topic, worker, bounded, stopAt, crashes, jobVars, snapshot, clock>>

\* map() catches the exception and returns "SKIPPED processing error".  An error
\* on the reply leaves the row in Redis, an error before it does not.
PushFails ==
    /\ HasRecord /\ Record \in Transaction
    /\ online' \in {online, Accept(Record, Now)}
    /\ gaps' = gaps \cup {ComputeEntityId(Record)}
    /\ position' = position + 1
    /\ UNCHANGED <<topic, worker, bounded, stopAt, crashes, jobVars, snapshot, clock>>

WorkerMap == SkipInvalid \/ MapRaises \/ ComputeAndPush \/ PushFails

\* Mutant: the job waits for the end of the topic, whatever it was at the start.
WorkerExitAtTopicEnd ==
    /\ worker = "running" /\ bounded /\ position = Len(topic)
    /\ worker' = "down"
    /\ UNCHANGED <<topic, position, bounded, stopAt, crashes, jobVars, online, snapshot, clock, gaps>>

\* env.execute() returns once a bounded source is exhausted.
WorkerExit ==
    /\ worker = "running" /\ bounded /\ ~HasRecord
    /\ worker' = "down"
    /\ UNCHANGED <<topic, position, bounded, stopAt, crashes, jobVars, online, snapshot, clock, gaps>>

\* The pod is evicted or killed.
WorkerCrash ==
    /\ worker = "running" /\ crashes < MaxCrashes
    /\ worker' = "down"
    /\ crashes' = crashes + 1
    /\ UNCHANGED <<topic, position, bounded, stopAt, jobVars, online, snapshot, clock, gaps>>

-----------------------------------------------------------------------------
(* fraud-detection materialize: sample -> parquet -> feast apply -> feast  *)
(* materialize.                                                            *)

\* Loads the first n rows and overwrites the one parquet file.
BuildOfflineSource(j, n) ==
    /\ job[j].phase \in {"idle", "succeeded", "failed"}
    /\ parquet' = n
    /\ job' = [job EXCEPT ![j] = [phase |-> "built", sample |-> n, todo |-> {}]]
    /\ UNCHANGED <<streamVars, online, snapshot, clock, gaps>>

\* Mutant: the window ends at the last hour of the sample, which feast leaves out.
InWindowShort(t, n) == \E i \in 1 .. n : BatchTimestamp(t) < BatchTimestamp(Dataset[i])

\* The window [base, base + (max step of the sample + 1) h).
InWindow(t, n) == \E i \in 1 .. n : BatchTimestamp(t) < BatchTimestamp(Dataset[i]) + 1

\* feast apply succeeded; feast materialize reads what the parquet holds now.
StartMaterialize(j) ==
    /\ job[j].phase = "built"
    /\ job' = [job EXCEPT ![j].phase = "writing",
                          ![j].todo = {t \in Historical :
                              /\ \E i \in 1 .. parquet : t = Dataset[i]
                              /\ InWindow(t, job[j].sample)}]
    /\ UNCHANGED <<streamVars, parquet, online, snapshot, clock, gaps>>

MaterializeRow(j) ==
    \E t \in job[j].todo :
        /\ job[j].phase = "writing"
        /\ online' = Accept(t, BatchTimestamp(t))
        /\ gaps' = gaps \ {ComputeEntityId(t)}
        /\ job' = [job EXCEPT ![j].todo = @ \ {t}]
        /\ UNCHANGED <<streamVars, parquet, snapshot, clock>>

\* Exit code 0, "materialize complete".
MaterializeSucceeds(j) ==
    /\ job[j].phase = "writing" /\ job[j].todo = {}
    /\ job' = [job EXCEPT ![j].phase = "succeeded"]
    /\ UNCHANGED <<streamVars, parquet, online, snapshot, clock, gaps>>

\* A FeastOperationError of apply or of materialize, its 120 s timeout included:
\* exit code 1, with the rows written so far left in the store.
MaterializeFails(j) ==
    /\ job[j].phase \in {"built", "writing"}
    /\ job' = [job EXCEPT ![j].phase = "failed", ![j].todo = {}]
    /\ UNCHANGED <<streamVars, parquet, online, snapshot, clock, gaps>>

-----------------------------------------------------------------------------
(* Redis.  It dumps to its volume now and then, and restarts from there.   *)

RedisSave ==
    /\ snapshot' = online
    /\ UNCHANGED <<streamVars, jobVars, online, clock, gaps>>

RedisRestart ==
    /\ online' = snapshot
    /\ gaps' = gaps \cup {k \in Key : Readable(k) /\ snapshot[k] = Missing}
    /\ UNCHANGED <<streamVars, jobVars, snapshot, clock>>

-----------------------------------------------------------------------------

Materialize(j) ==
    \/ \E n \in SampleSizes : BuildOfflineSource(j, n)
    \/ StartMaterialize(j)
    \/ MaterializeRow(j)
    \/ MaterializeSucceeds(j)
    \/ MaterializeFails(j)

Next ==
    \/ \E m \in Message : Produce(m)
    \/ Tick
    \/ WorkerStart \/ WorkerMap \/ WorkerExit \/ WorkerCrash
    \/ \E j \in Jobs : Materialize(j)
    \/ RedisSave \/ RedisRestart

\* Kubernetes restarts the worker's pod, and a running Flink source keeps
\* polling.  Nothing obliges anyone to produce, to materialize or to crash.
Fairness == WF_vars(WorkerStart) /\ WF_vars(WorkerMap) /\ WF_vars(WorkerExit)

Spec == Init /\ [][Next]_vars
FairSpec == Spec /\ Fairness

-----------------------------------------------------------------------------
(* Properties.                                                             *)

\* A lookup that hits returns the features of the transaction it was made for,
\* whichever of the two paths wrote them, however often records were replayed and
\* batches repeated (entity_key.py: the key's fields "together identify a
\* transaction").
ServedFeaturesAreOwn ==
    \A t \in Transaction :
        Readable(ComputeEntityId(t)) =>
            online[ComputeEntityId(t)].features = TransformOne(t)

\* A key a lookup finds, or a fault explains why not.
Covered(k) == Readable(k) \/ k \in gaps

\* Every valid record the running worker has passed is readable, or its push
\* failed, or Redis lost it, and nothing has written it since: a restart may not
\* resume beyond records it has not replayed.
NoUnexplainedGap ==
    \A i \in 1 .. position :
        topic[i] \in Transaction => Covered(ComputeEntityId(topic[i]))

\* A row that every sample size takes in.
Common(i) == \A n \in SampleSizes : i <= n

\* What exit code 0 of materialize is worth while other runs, with sample sizes of their
\* own, overwrite the one parquet file between its write and feast's read, or are killed
\* with part of their rows written: the common rows are readable, unless Redis lost the
\* entry afterwards.  The window comes from the run's own sample and its exclusive end
\* has to reach that sample's last hour.
SuccessServesCommonRows ==
    \A j \in Jobs :
        job[j].phase = "succeeded" =>
            \A i \in 1 .. job[j].sample :
                Common(i) => Covered(ComputeEntityId(Dataset[i]))

\* The two write paths reach one key with timestamps of two kinds, in any order, and the
\* streamed features win.  A push the worker reports as OK is what lookups then get,
\* unless the same key was pushed within the same second: the store's rule, which
\* silently ignores a row that is not newer, never drops it for a batch row, a replay or
\* a restored dump (write_online stamps rows with now(), batches with their hour).  And a
\* materialize that runs today, or again, over the history leaves alone what the stream
\* has written, whichever is later by the clock on the wall.
StreamBeatsBatch ==
    [][/\ ComputeAndPush =>
             LET k == ComputeEntityId(Record)
             IN  /\ online'[k] # Missing /\ online'[k].ts = Now
                 /\ online'[k].features = TransformOne(Record) \/ online'[k] = online[k]
       /\ \A j \in Jobs, k \in Key :
             MaterializeRow(j) /\ Readable(k) /\ online[k].ts >= StreamEpoch
                 => online'[k] = online[k]]_vars

\* The worker gets past every record that was ever produced, however often
\* pushes fail (flink_job.py: the job "should never let one bad/unlucky record take
\* the whole job down").  It does as long as no record overflows.
WorkerPassesEveryRecord ==
    \A n \in 1 .. MaxTopic : Len(topic) >= n ~> position >= n

\* A --bounded run ends although records keep arriving.
BoundedRunEnds == worker = "running" /\ bounded ~> worker = "down"

\* Seen through lookups, the platform is the table of OnlineFeatures: it never
\* serves features that were not computed from an ingested transaction.
Table == INSTANCE OnlineFeatures WITH
    ingested <- Historical \cup Streamed(topic),
    served <- [k \in Key |-> IF Readable(k) THEN online[k].features ELSE Missing],
    saved <- [k \in Key |-> IF snapshot[k] = Missing THEN Missing ELSE snapshot[k].features]
TableSpec == Table!Spec

=============================================================================
