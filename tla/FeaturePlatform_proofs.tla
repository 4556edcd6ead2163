----------------------- MODULE FeaturePlatform_proofs -----------------------
(***************************************************************************)
(* Proofs about the feature platform, for every dataset, topic length and  *)
(* number of materialize processes.                                        *)
(***************************************************************************)
EXTENDS FeaturePlatform, TLAPS

\* The store's type, and what a push does to it whatever timestamp it carries.
Store == [Key -> Entry \cup {Missing}]

\* A push keeps the store's type, leaves no key unreadable that was readable, and
\* makes the transaction's own key readable (FeastFeatureStore.write_online).
LEMMA AcceptProperties ==
    ASSUME online \in Store, NEW t \in Transaction, NEW ts \in Nat
    PROVE  /\ Accept(t, ts) \in Store
           /\ \A k \in Key : Readable(k) => Accept(t, ts)[k] # Missing
           /\ Accept(t, ts)[t.key] # Missing
           /\ \A k \in Key \ {t.key} : Accept(t, ts)[k] = online[k]
           /\ \/ Accept(t, ts) = online
              \/ Accept(t, ts)[t.key] = [features |-> FeatureOf[t], ts |-> ts]
<1>1. t.key \in Key /\ FeatureOf[t] \in FeatureVector
  BY VocabularyAssumption DEF Transaction
<1>2. [features |-> FeatureOf[t], ts |-> ts] \in Entry
  BY <1>1 DEF Entry
<1>3. [features |-> FeatureOf[t], ts |-> ts] # Missing
  BY <1>2, PlatformAssumption
<1> QED
  BY <1>1, <1>2, <1>3 DEF Accept, ComputeEntityId, TransformOne, Readable, Store

\* The record handed to map() is a message, and one of Streamed if it is a transaction.
LEMMA RecordIsTransaction ==
    ASSUME TypeOK, HasRecord
    PROVE  /\ position + 1 \in 1 .. Len(topic)
           /\ Record \in Message
           /\ Record \in Transaction => Record \in Streamed(topic)
BY DEF TypeOK, HasRecord, Record, Streamed

\* The event timestamps the two paths write are natural numbers.
LEMMA TimestampsAreNat ==
    ASSUME TypeOK
    PROVE  /\ Now \in Nat
           /\ \A t \in Transaction : BatchTimestamp(t) \in Nat
BY PlatformAssumption, VocabularyAssumption DEF TypeOK, Now, BatchTimestamp, Transaction

JobPhase == {"idle", "built", "writing", "succeeded", "failed"}
JobRecord == [phase : JobPhase, sample : SampleSizes \cup {0}, todo : SUBSET Transaction]

\* A process keeps its sample size through its phases.
LEMMA JobMoves ==
    ASSUME job \in [Jobs -> JobRecord], NEW j \in Jobs,
           NEW to \in JobPhase, NEW rest \in SUBSET Transaction
    PROVE  [job EXCEPT ![j].phase = to, ![j].todo = rest] \in [Jobs -> JobRecord]
<1> DEFINE moved == [job EXCEPT ![j].phase = to, ![j].todo = rest]
<1>1. job[j] \in JobRecord
  OBVIOUS
<1>2. moved[j] = [phase |-> to, sample |-> job[j].sample, todo |-> rest]
  BY <1>1 DEF JobRecord
<1>3. moved[j] \in JobRecord
  BY <1>1, <1>2 DEF JobRecord
<1>4. moved = [i \in Jobs |-> IF i = j THEN moved[j] ELSE job[i]]
  OBVIOUS
<1> HIDE DEF moved
<1>5. \A i \in Jobs : moved[i] \in JobRecord
  BY <1>3, <1>4
<1>6. moved \in [Jobs -> JobRecord]
  BY <1>4, <1>5
<1> QED  BY <1>6 DEF moved

\* Type correctness: positions stay within the topic, jobs within their phases.
THEOREM TypeCorrect == Spec => []TypeOK
<1>1. Init => TypeOK
  <2> SUFFICES ASSUME Init PROVE TypeOK
    OBVIOUS
  <2>1. bounded \in BOOLEAN
    BY DEF Init
  <2> QED  BY <2>1, PlatformAssumption DEF Init, TypeOK, Message
<1>2. TypeOK /\ [Next]_vars => TypeOK'
  <2> SUFFICES ASSUME TypeOK, [Next]_vars PROVE TypeOK'
    OBVIOUS
  <2> USE DEF vars, streamVars, jobVars
  <2>1. ASSUME NEW m \in Message, Produce(m) PROVE TypeOK'
    <3>1. /\ topic' \in Seq(Message) /\ Len(topic') = Len(topic) + 1
          /\ Len(topic) \in Nat /\ MaxTopic \in Nat
      BY <2>1, PlatformAssumption DEF Produce, TypeOK
    <3>2. Len(topic') <= MaxTopic /\ position \in 0 .. Len(topic') /\ stopAt \in 0 .. Len(topic')
      BY <2>1, <3>1 DEF Produce, TypeOK
    <3> QED  BY <2>1, <3>1, <3>2 DEF Produce, TypeOK
  <2>2. CASE Tick
    BY <2>2, PlatformAssumption DEF Tick, TypeOK
  <2>3. CASE WorkerStart
    BY <2>3 DEF WorkerStart, TypeOK
  <2>4. CASE SkipInvalid \/ MapRaises
    BY <2>4, RecordIsTransaction DEF SkipInvalid, MapRaises, TypeOK
  <2>5. CASE ComputeAndPush
    <3>1. position + 1 \in 1 .. Len(topic) /\ Record \in Transaction /\ Now \in Nat
      BY <2>5, RecordIsTransaction, TimestampsAreNat DEF ComputeAndPush
    <3>2. Accept(Record, Now) \in Store
      BY <3>1, AcceptProperties DEF TypeOK, Store
    <3>3. Record.key \in Key
      BY <3>1 DEF Transaction
    <3> QED
      BY <2>5, <3>1, <3>2, <3>3 DEF ComputeAndPush, TypeOK, Store, ComputeEntityId
  <2>6. CASE PushFails
    <3>1. position + 1 \in 1 .. Len(topic) /\ Record \in Transaction /\ Now \in Nat
      BY <2>6, RecordIsTransaction, TimestampsAreNat DEF PushFails
    <3>2. Accept(Record, Now) \in Store
      BY <3>1, AcceptProperties DEF TypeOK, Store
    <3>3. Record.key \in Key
      BY <3>1 DEF Transaction
    <3> QED
      BY <2>6, <3>1, <3>2, <3>3 DEF PushFails, TypeOK, Store, ComputeEntityId
  <2>7. CASE WorkerExit
    BY <2>7 DEF WorkerExit, TypeOK
  <2>8. CASE WorkerCrash
    BY <2>8, PlatformAssumption DEF WorkerCrash, TypeOK
  <2>9. ASSUME NEW j \in Jobs, Materialize(j) PROVE TypeOK'
    <3>1. ASSUME NEW n \in SampleSizes, BuildOfflineSource(j, n) PROVE TypeOK'
      BY <3>1 DEF BuildOfflineSource, TypeOK
    <3>2. CASE StartMaterialize(j)
      <4>1. Historical \subseteq Transaction
        BY PlatformAssumption DEF Historical
      <4>2. UNCHANGED <<streamVars, parquet, online, snapshot, clock, gaps>>
        BY <3>2 DEF StartMaterialize
      <4>3. job' \in [Jobs -> JobRecord]
        <5>1. PICK todo \in SUBSET Transaction :
                job' = [job EXCEPT ![j].phase = "writing", ![j].todo = todo]
          BY <3>2, <4>1 DEF StartMaterialize
        <5>2. job \in [Jobs -> JobRecord] /\ "writing" \in JobPhase
          BY DEF TypeOK, JobRecord, JobPhase
        <5> QED  BY <5>1, <5>2, JobMoves
      <4> QED  BY <4>2, <4>3 DEF streamVars, TypeOK, JobRecord, JobPhase
    <3>3. CASE MaterializeRow(j)
      <4>1. PICK t \in job[j].todo :
              /\ online' = Accept(t, BatchTimestamp(t))
              /\ gaps' = gaps \ {ComputeEntityId(t)}
              /\ job' = [job EXCEPT ![j].todo = @ \ {t}]
              /\ UNCHANGED <<streamVars, parquet, snapshot, clock>>
        BY <3>3 DEF MaterializeRow
      <4>2. t \in Transaction
        BY <4>1 DEF TypeOK
      <4>3. online' \in Store
        BY <4>1, <4>2, TimestampsAreNat, AcceptProperties DEF TypeOK, Store
      <4> QED  BY <4>1, <4>3 DEF TypeOK, Store
    <3>4. CASE MaterializeSucceeds(j)
      BY <3>4 DEF MaterializeSucceeds, TypeOK
    <3>5. CASE MaterializeFails(j)
      <4>1. UNCHANGED <<streamVars, parquet, online, snapshot, clock, gaps>>
        BY <3>5 DEF MaterializeFails
      <4>2. job' \in [Jobs -> JobRecord]
        <5>1. job' = [job EXCEPT ![j].phase = "failed", ![j].todo = {}]
          BY <3>5 DEF MaterializeFails
        <5>2. /\ job \in [Jobs -> JobRecord]
              /\ "failed" \in JobPhase /\ {} \in SUBSET Transaction
          BY DEF TypeOK, JobRecord, JobPhase
        <5> QED  BY <5>1, <5>2, JobMoves
      <4> QED  BY <4>1, <4>2 DEF streamVars, TypeOK, JobRecord, JobPhase
    <3> QED  BY <2>9, <3>1, <3>2, <3>3, <3>4, <3>5 DEF Materialize
  <2>10. CASE RedisSave
    BY <2>10 DEF RedisSave, TypeOK
  <2>11. CASE RedisRestart
    BY <2>11 DEF RedisRestart, TypeOK
  <2>12. CASE UNCHANGED vars
    BY <2>12 DEF TypeOK
  <2> QED
    BY <2>1, <2>2, <2>3, <2>4, <2>5, <2>6, <2>7, <2>8, <2>9, <2>10, <2>11, <2>12
    DEF Next, WorkerMap
<1> QED  BY <1>1, <1>2, PTL DEF Spec

-----------------------------------------------------------------------------
(* What the four safety results need of the steps: how each changes the    *)
(* store.  Every other step leaves `online` and `gaps` alone.              *)

\* A step that sends t to the store: the worker's map() or one batch row.
Pushes(t) ==
    /\ \E ts \in Nat : online' \in {online, Accept(t, ts)}
    /\ UNCHANGED snapshot
    /\ gaps \ {t.key} \subseteq gaps' /\ gaps' \subseteq gaps \cup {t.key}
    /\ t.key \in gaps' \/ online'[t.key] # Missing

\* The worker's step over a valid record is a push of that record.
LEMMA WorkerPushes ==
    ASSUME TypeOK, ComputeAndPush \/ PushFails
    PROVE  Record \in Transaction /\ Record \in Streamed(topic) /\ Pushes(Record)
<1>1. Record \in Transaction /\ Record \in Streamed(topic) /\ Now \in Nat
  BY RecordIsTransaction, TimestampsAreNat DEF ComputeAndPush, PushFails
<1>2. Accept(Record, Now)[Record.key] # Missing
  BY <1>1, AcceptProperties DEF TypeOK, Store
<1> QED
  BY <1>1, <1>2 DEF ComputeAndPush, PushFails, Pushes, ComputeEntityId

\* A batch row is a push of a transaction of the job's selection.
LEMMA BatchPushes ==
    ASSUME TypeOK, NEW j \in Jobs, MaterializeRow(j)
    PROVE  \E t \in job[j].todo :
              /\ t \in Transaction /\ Pushes(t)
              /\ online'[t.key] # Missing
              /\ job' = [job EXCEPT ![j].todo = @ \ {t}]
<1>1. PICK t \in job[j].todo :
        /\ online' = Accept(t, BatchTimestamp(t))
        /\ gaps' = gaps \ {ComputeEntityId(t)}
        /\ job' = [job EXCEPT ![j].todo = @ \ {t}]
        /\ UNCHANGED <<streamVars, parquet, snapshot, clock>>
  BY DEF MaterializeRow
<1>2. t \in Transaction /\ BatchTimestamp(t) \in Nat
  BY <1>1, TimestampsAreNat DEF TypeOK
<1>3. Accept(t, BatchTimestamp(t))[t.key] # Missing
  BY <1>2, AcceptProperties DEF TypeOK, Store
<1> QED
  BY <1>1, <1>2, <1>3 DEF Pushes, ComputeEntityId

\* A covered key stays covered over a push.
LEMMA PushKeepsCovered ==
    ASSUME TypeOK, NEW t \in Transaction, Pushes(t), NEW k \in Key, Covered(k)
    PROVE  Covered(k)'
<1>1. PICK ts \in Nat : online' \in {online, Accept(t, ts)}
  BY DEF Pushes
<1>2. Readable(k) => online'[k] # Missing
  <2>1. online \in Store
    BY DEF TypeOK, Store
  <2>2. Readable(k) => Accept(t, ts)[k] # Missing
    BY <2>1, AcceptProperties
  <2> QED  BY <1>1, <2>2 DEF Readable
<1>3. k # t.key /\ k \in gaps => k \in gaps'
  BY DEF Pushes
<1>4. k = t.key => k \in gaps' \/ online'[k] # Missing
  BY DEF Pushes
<1> QED  BY <1>2, <1>3, <1>4 DEF Covered, Readable

\* A covered key stays covered over a restart of Redis.
LEMMA RestartKeepsCovered ==
    ASSUME TypeOK, RedisRestart, NEW k \in Key, Covered(k)
    PROVE  Covered(k)'
BY DEF RedisRestart, Readable, Covered

\* The steps that can change the coverage of a key, or the records passed.
LEMMA CoverageSteps ==
    ASSUME [Next]_vars
    PROVE  \/ \E m \in Message : Produce(m)
           \/ WorkerStart \/ SkipInvalid \/ ComputeAndPush \/ PushFails
           \/ RedisRestart
           \/ \E j \in Jobs : MaterializeRow(j)
           \/ UNCHANGED <<topic, position, online, gaps>>
BY DEF Next, Tick, WorkerMap, MapRaises, WorkerExit, WorkerCrash, Materialize, RedisSave,
       BuildOfflineSource, StartMaterialize, MaterializeSucceeds, MaterializeFails,
       vars, streamVars, jobVars

\* No step uncovers a covered key.
LEMMA CoveredStaysCovered ==
    ASSUME TypeOK, [Next]_vars, NEW k \in Key, Covered(k)
    PROVE  Covered(k)'
<1>1. CASE ComputeAndPush \/ PushFails
  <2>1. PICK t \in Transaction : Pushes(t)
    BY <1>1, WorkerPushes
  <2> QED  BY <2>1, PushKeepsCovered
<1>2. ASSUME NEW j \in Jobs, MaterializeRow(j) PROVE Covered(k)'
  <2>1. PICK t \in Transaction : Pushes(t)
    BY <1>2, BatchPushes
  <2> QED  BY <2>1, PushKeepsCovered
<1>3. CASE RedisRestart
  BY <1>3, RestartKeepsCovered
<1>4. CASE UNCHANGED <<online, gaps>>
  BY <1>4 DEF Covered, Readable
<1>5. (\E m \in Message : Produce(m)) \/ WorkerStart \/ SkipInvalid
         => UNCHANGED <<online, gaps>>
  BY DEF Produce, WorkerStart, SkipInvalid
<1> QED  BY <1>1, <1>2, <1>3, <1>4, <1>5, CoverageSteps

-----------------------------------------------------------------------------
(* Nothing the worker has passed is unreadable without a reason.           *)

\* Holds for every topic and every schedule: no step uncovers a key, the record
\* the worker passes is covered, and a restart begins at the earliest offset.
THEOREM GapsAreExplained == Spec => []NoUnexplainedGap
<1>1. Init => NoUnexplainedGap
  BY DEF Init, NoUnexplainedGap
<1>2. TypeOK /\ NoUnexplainedGap /\ [Next]_vars => NoUnexplainedGap'
  <2> SUFFICES ASSUME TypeOK, NoUnexplainedGap, [Next]_vars,
                      NEW i \in 1 .. position', topic'[i] \in Transaction,
                      NEW k, k = topic'[i].key
               PROVE  Covered(k)'
    BY DEF NoUnexplainedGap, Covered, Readable, ComputeEntityId
  <2>1. ASSUME i \in 1 .. position, topic'[i] = topic[i] PROVE Covered(k)'
    <3>1. k \in Key /\ Covered(k)
      BY <2>1 DEF NoUnexplainedGap, ComputeEntityId, TypeOK, Message, Transaction
    <3> QED  BY <3>1, CoveredStaysCovered
  <2>2. CASE ComputeAndPush \/ PushFails
    <3>1. PICK t \in Transaction : t = Record /\ Pushes(t)
      BY <2>2, WorkerPushes
    <3>2. topic' = topic /\ position' = position + 1
      BY <2>2 DEF ComputeAndPush, PushFails
    <3>3. CASE i \in 1 .. position
      BY <2>1, <3>2, <3>3
    <3>4. CASE i = position + 1
      BY <3>1, <3>2, <3>4 DEF Pushes, Record, Readable, Covered
    <3> QED  BY <3>2, <3>3, <3>4 DEF TypeOK
  <2>3. CASE SkipInvalid
    <3>1. topic' = topic /\ position' = position + 1 /\ topic[position + 1] = Malformed
      BY <2>3 DEF SkipInvalid, Record
    <3> QED  BY <2>1, <3>1, VocabularyAssumption DEF TypeOK
  <2>4. ASSUME NEW m \in Message, Produce(m) PROVE Covered(k)'
    <3>1. i \in 1 .. position /\ topic'[i] = topic[i]
      BY <2>4 DEF Produce, TypeOK
    <3> QED  BY <3>1, <2>1
  <2>5. CASE WorkerStart
    BY <2>5 DEF WorkerStart
  <2>6. CASE UNCHANGED <<topic, position>>
    BY <2>6, <2>1
  <2>7. RedisRestart \/ (\E j \in Jobs : MaterializeRow(j)) => UNCHANGED <<topic, position>>
    BY DEF RedisRestart, MaterializeRow, streamVars
  <2> QED  BY <2>2, <2>3, <2>4, <2>5, <2>6, <2>7, CoverageSteps
<1> QED  BY <1>1, <1>2, TypeCorrect, PTL DEF Spec

-----------------------------------------------------------------------------
(* A lookup returns the transaction's own features.                        *)

\* Every entry of a store holds the features of some transaction with its key.
Provenance(store) ==
    \A k \in Key : store[k] # Missing =>
        \E t \in Transaction : t.key = k /\ store[k].features = FeatureOf[t]

\* A push keeps that, whichever path it comes from.
LEMMA PushKeepsProvenance ==
    ASSUME TypeOK, Provenance(online), NEW t \in Transaction, Pushes(t)
    PROVE  Provenance(online')
<1>1. PICK ts \in Nat : online' \in {online, Accept(t, ts)}
  BY DEF Pushes
<1>2. online \in Store
  BY DEF TypeOK, Store
<1>3. \A k \in Key \ {t.key} : Accept(t, ts)[k] = online[k]
  BY <1>2, AcceptProperties
<1>4. \/ Accept(t, ts) = online
      \/ Accept(t, ts)[t.key] = [features |-> FeatureOf[t], ts |-> ts]
  BY <1>2, AcceptProperties
<1>5. \/ online' = online
      \/ /\ online'[t.key].features = FeatureOf[t]
         /\ \A k \in Key \ {t.key} : online'[k] = online[k]
  BY <1>1, <1>3, <1>4
<1> QED  BY <1>5 DEF Provenance

\* With transactions that their key tells apart, a hit is never another
\* transaction's features: the dump and the live store both keep provenance, so
\* neither replays, nor repeated batches, nor a restart of Redis can break it.
THEOREM OwnFeaturesServed ==
    ASSUME KeyIdentifiesFeatures
    PROVE  Spec => []ServedFeaturesAreOwn
<1> DEFINE IInv == Provenance(online) /\ Provenance(snapshot)
<1>1. Init => IInv
  BY DEF Init, Provenance
<1>2. TypeOK /\ IInv /\ [Next]_vars => IInv'
  <2> SUFFICES ASSUME TypeOK, IInv, [Next]_vars
               PROVE  Provenance(online') /\ Provenance(snapshot')
    BY DEF Provenance
  <2>1. CASE ComputeAndPush \/ PushFails
    <3>1. PICK t \in Transaction : Pushes(t)
      BY <2>1, WorkerPushes
    <3> QED  BY <3>1, PushKeepsProvenance DEF Pushes
  <2>2. ASSUME NEW j \in Jobs, MaterializeRow(j)
        PROVE  Provenance(online') /\ Provenance(snapshot')
    <3>1. PICK t \in Transaction : Pushes(t)
      BY <2>2, BatchPushes
    <3> QED  BY <3>1, PushKeepsProvenance DEF Pushes
  <2>3. CASE RedisSave
    BY <2>3 DEF RedisSave
  <2>4. CASE RedisRestart
    BY <2>4 DEF RedisRestart
  <2>5. CASE UNCHANGED <<online, snapshot>>
    BY <2>5
  <2> QED
    BY <2>1, <2>2, <2>3, <2>4, <2>5
    DEF Next, Produce, Tick, WorkerMap, WorkerStart, SkipInvalid, MapRaises, WorkerExit,
        WorkerCrash, Materialize, BuildOfflineSource, StartMaterialize,
        MaterializeSucceeds, MaterializeFails, vars, streamVars, jobVars
<1>3. IInv => ServedFeaturesAreOwn
  BY KeyIdentifiesFeatures
  DEF Provenance, ServedFeaturesAreOwn, Readable, KeyIdentifiesFeatures,
      ComputeEntityId, TransformOne, Transaction
<1> QED  BY <1>1, <1>2, <1>3, TypeCorrect, PTL DEF Spec

-----------------------------------------------------------------------------
(* A materialize run that succeeded has made its sample readable.          *)

\* What a run owes at each of its phases; the middle part is what makes the
\* invariant inductive: an uncovered row of the sample is still to be written.
RunsAreOnTrack ==
    \A j \in Jobs :
        /\ job[j].phase = "built" => parquet \in SampleSizes /\ job[j].sample \in SampleSizes
        /\ job[j].phase = "writing" =>
              \A i \in 1 .. job[j].sample :
                  Common(i) => Covered(Dataset[i].key) \/ Dataset[i] \in job[j].todo
        /\ job[j].phase = "succeeded" =>
              \A i \in 1 .. job[j].sample : Common(i) => Covered(Dataset[i].key)

\* Rows of a sample are transactions of the dataset.
LEMMA SampleRows ==
    ASSUME NEW n \in SampleSizes \cup {0}, NEW i \in 1 .. n
    PROVE  /\ i \in 1 .. Len(Dataset)
           /\ Dataset[i] \in Transaction /\ Dataset[i] \in Historical
           /\ Dataset[i].key \in Key
<1>1. Dataset \in Seq(Transaction) /\ SampleSizes \subseteq 1 .. Len(Dataset)
  BY PlatformAssumption
<1>2. i \in 1 .. Len(Dataset)
  BY <1>1
<1>3. Dataset[i] \in Transaction /\ Dataset[i] \in Historical
  BY <1>1, <1>2 DEF Historical
<1> QED  BY <1>2, <1>3 DEF Transaction

\* The selection of a run holds the rows of its sample that the parquet holds: the
\* window's end is one hour past the sample's last step.
LEMMA SelectionHoldsSample ==
    ASSUME TypeOK, NEW j \in Jobs, StartMaterialize(j), parquet \in SampleSizes,
           NEW i \in 1 .. job[j].sample, Common(i)
    PROVE  Dataset[i] \in job'[j].todo
<1>1. job[j].sample \in SampleSizes \cup {0}
  BY DEF TypeOK
<1>2. Dataset[i] \in Transaction /\ Dataset[i] \in Historical
  BY <1>1, SampleRows
<1>3. BatchTimestamp(Dataset[i]) \in Nat
  BY <1>2, TimestampsAreNat
<1>4. InWindow(Dataset[i], job[j].sample)
  BY <1>3 DEF InWindow
<1>5. i \in 1 .. parquet
  BY <1>1, PlatformAssumption DEF Common
<1> QED  BY <1>2, <1>4, <1>5 DEF StartMaterialize, TypeOK

LEMMA RunsStayOnTrack == Spec => []RunsAreOnTrack
<1>1. Init => RunsAreOnTrack
  BY DEF Init, RunsAreOnTrack
<1>2. TypeOK /\ RunsAreOnTrack /\ [Next]_vars => RunsAreOnTrack'
  <2> SUFFICES ASSUME TypeOK, RunsAreOnTrack, [Next]_vars, NEW j \in Jobs
               PROVE  /\ job'[j].phase = "built" =>
                            parquet' \in SampleSizes /\ job'[j].sample \in SampleSizes
                      /\ job'[j].phase = "writing" =>
                            \A i \in 1 .. job'[j].sample : Common(i) =>
                                Covered(Dataset[i].key)' \/ Dataset[i] \in job'[j].todo
                      /\ job'[j].phase = "succeeded" =>
                            \A i \in 1 .. job'[j].sample :
                                Common(i) => Covered(Dataset[i].key)'
    BY DEF RunsAreOnTrack, Common
  <2> USE DEF vars, streamVars, jobVars
  <2>1. \A i \in 1 .. job[j].sample :
            Covered(Dataset[i].key) => Covered(Dataset[i].key)'
    <3>1. job[j].sample \in SampleSizes \cup {0}
      BY DEF TypeOK
    <3> TAKE i \in 1 .. job[j].sample
    <3>2. Dataset[i].key \in Key
      BY <3>1, SampleRows
    <3> QED  BY <3>2, CoveredStaysCovered
  <2>2. CASE job'[j] = job[j] /\ parquet' = parquet
    BY <2>1, <2>2 DEF RunsAreOnTrack
  <2>3. ASSUME NEW i \in Jobs, NEW n \in SampleSizes, BuildOfflineSource(i, n)
        PROVE  /\ parquet' \in SampleSizes
               /\ \/ job'[j] = job[j]
                  \/ job'[j].phase = "built" /\ job'[j].sample \in SampleSizes
    BY <2>3 DEF BuildOfflineSource, TypeOK
  <2>4. CASE StartMaterialize(j)
    <3>1. job[j].phase = "built" /\ job'[j].phase = "writing" /\ job'[j].sample = job[j].sample
      BY <2>4 DEF StartMaterialize, TypeOK
    <3>2. parquet \in SampleSizes
      BY <3>1 DEF RunsAreOnTrack
    <3> QED  BY <2>4, <3>1, <3>2, SelectionHoldsSample
  <2>5. CASE MaterializeRow(j)
    <3>1. PICK t \in job[j].todo :
              /\ t \in Transaction /\ online'[t.key] # Missing
              /\ job' = [job EXCEPT ![j].todo = @ \ {t}]
      BY <2>5, BatchPushes
    <3>2. /\ job[j].phase = "writing" /\ job'[j].phase = "writing"
          /\ job'[j].sample = job[j].sample
          /\ job'[j].todo = job[j].todo \ {t}
      BY <2>5, <3>1 DEF MaterializeRow, TypeOK
    <3>3. \A i \in 1 .. job[j].sample : Dataset[i] = t => Covered(Dataset[i].key)'
      BY <3>1 DEF Covered, Readable
    <3> QED  BY <2>1, <3>2, <3>3 DEF RunsAreOnTrack
  <2>6. CASE MaterializeSucceeds(j)
    <3>1. /\ job[j].phase = "writing" /\ job[j].todo = {}
          /\ job'[j].phase = "succeeded" /\ job'[j].sample = job[j].sample
      BY <2>6 DEF MaterializeSucceeds, TypeOK
    <3> QED  BY <2>1, <3>1 DEF RunsAreOnTrack
  <2>7. CASE MaterializeFails(j)
    BY <2>7 DEF MaterializeFails, TypeOK
  <2>8. ASSUME NEW i \in Jobs \ {j},
               \/ StartMaterialize(i) \/ MaterializeRow(i)
               \/ MaterializeSucceeds(i) \/ MaterializeFails(i)
        PROVE  job'[j] = job[j] /\ parquet' = parquet
    BY <2>8
    DEF StartMaterialize, MaterializeRow, MaterializeSucceeds, MaterializeFails, TypeOK
  <2>9. \/ UNCHANGED jobVars
        \/ \E i \in Jobs : Materialize(i)
    BY DEF Next, Produce, Tick, WorkerMap, WorkerStart, SkipInvalid, MapRaises, ComputeAndPush,
           PushFails, WorkerExit, WorkerCrash, RedisSave, RedisRestart
  <2>10. ASSUME NEW i \in Jobs, NEW n \in SampleSizes, BuildOfflineSource(i, n)
         PROVE  /\ job'[j].phase = "built" =>
                      parquet' \in SampleSizes /\ job'[j].sample \in SampleSizes
                /\ job'[j].phase = "writing" =>
                      \A k \in 1 .. job'[j].sample : Common(k) =>
                          Covered(Dataset[k].key)' \/ Dataset[k] \in job'[j].todo
                /\ job'[j].phase = "succeeded" =>
                      \A k \in 1 .. job'[j].sample : Common(k) => Covered(Dataset[k].key)'
    BY <2>1, <2>3, <2>10 DEF RunsAreOnTrack
  <2> QED
    BY <2>2, <2>4, <2>5, <2>6, <2>7, <2>8, <2>9, <2>10 DEF Materialize
<1> QED  BY <1>1, <1>2, TypeCorrect, PTL DEF Spec

\* What a successful materialize is worth whatever runs overlapped with it, with sample
\* sizes of their own: feast reads a parquet file that others may have replaced by then.
THEOREM CommonRowsServed == Spec => []SuccessServesCommonRows
<1>1. RunsAreOnTrack => SuccessServesCommonRows
  BY DEF RunsAreOnTrack, SuccessServesCommonRows, ComputeEntityId
<1> QED  BY <1>1, RunsStayOnTrack, PTL

\* A run that reported success has made every row of ITS sample readable.
SuccessMeansServed ==
    \A j \in Jobs :
        job[j].phase = "succeeded" =>
            \A i \in 1 .. job[j].sample : Covered(ComputeEntityId(Dataset[i]))

\* With one sample size for every run, those are all the rows: runs then overwrite the
\* shared parquet with the rows it already has.
THEOREM SuccessIsServed ==
    ASSUME \A m, n \in SampleSizes : m = n
    PROVE  Spec => []SuccessMeansServed
<1>1. TypeOK /\ SuccessServesCommonRows => SuccessMeansServed
  <2> SUFFICES ASSUME TypeOK, SuccessServesCommonRows, NEW j \in Jobs,
                      job[j].phase = "succeeded", NEW i \in 1 .. job[j].sample
               PROVE  Covered(ComputeEntityId(Dataset[i]))
    BY DEF SuccessMeansServed
  <2>1. job[j].sample \in SampleSizes /\ i <= job[j].sample
    <3>1. job[j].sample \in SampleSizes \cup {0} /\ SampleSizes \subseteq 1 .. Len(Dataset)
      BY PlatformAssumption DEF TypeOK
    <3> QED  BY <3>1, PlatformAssumption
  <2>2. \A n \in SampleSizes : n = job[j].sample
    BY <2>1
  <2>3. Common(i)
    BY <2>1, <2>2 DEF Common
  <2> QED  BY <2>3 DEF SuccessServesCommonRows
<1> QED  BY <1>1, CommonRowsServed, TypeCorrect, PTL

-----------------------------------------------------------------------------
\* The rows a run still has to write are rows of the dataset.
TodoIsHistorical == \A j \in Jobs : job[j].todo \subseteq Historical

LEMMA TodoStaysHistorical == Spec => []TodoIsHistorical
<1>1. Init => TodoIsHistorical
  BY DEF Init, TodoIsHistorical
<1>2. TypeOK /\ TodoIsHistorical /\ [Next]_vars => TodoIsHistorical'
  <2> SUFFICES ASSUME TypeOK, TodoIsHistorical, [Next]_vars, NEW j \in Jobs
               PROVE  job'[j].todo \subseteq Historical
    BY DEF TodoIsHistorical, Historical
  <2>1. ASSUME NEW i \in Jobs, Materialize(i) PROVE job'[j].todo \subseteq Historical
    <3>1. ASSUME NEW n \in SampleSizes, BuildOfflineSource(i, n)
          PROVE  job'[j].todo \subseteq Historical
      BY <3>1 DEF BuildOfflineSource, TypeOK, TodoIsHistorical
    <3>2. CASE StartMaterialize(i)
      BY <3>2 DEF StartMaterialize, TypeOK, TodoIsHistorical, Historical
    <3>3. CASE MaterializeRow(i)
      BY <3>3 DEF MaterializeRow, TypeOK, TodoIsHistorical
    <3>4. CASE MaterializeSucceeds(i) \/ MaterializeFails(i)
      BY <3>4 DEF MaterializeSucceeds, MaterializeFails, TypeOK, TodoIsHistorical
    <3> QED  BY <2>1, <3>1, <3>2, <3>3, <3>4 DEF Materialize
  <2>2. CASE UNCHANGED job
    BY <2>2 DEF TodoIsHistorical
  <2>3. \/ UNCHANGED job
        \/ \E i \in Jobs : Materialize(i)
    BY DEF Next, Produce, Tick, WorkerMap, WorkerStart, SkipInvalid, MapRaises, ComputeAndPush,
           PushFails, WorkerExit, WorkerCrash, RedisSave, RedisRestart,
           vars, streamVars, jobVars
  <2> QED  BY <2>1, <2>2, <2>3
<1> QED  BY <1>1, <1>2, TypeCorrect, PTL DEF Spec

-----------------------------------------------------------------------------
(* The platform implements the table of OnlineFeatures.                    *)

\* The table's view of a store.
View(store) == [k \in Key |-> IF store[k] = Missing THEN Missing ELSE store[k].features]

\* A push of an ingested transaction is a Publish of the table, or a stutter.
LEMMA PushPublishes ==
    ASSUME TypeOK, NEW t \in Transaction, Pushes(t), t \in Historical \cup Streamed(topic)
    PROVE  \/ View(online') = View(online)
           \/ View(online') = [View(online) EXCEPT ![t.key] = FeatureOf[t]]
<1>1. PICK ts \in Nat : online' \in {online, Accept(t, ts)}
  BY DEF Pushes
<1>2. online \in Store /\ t.key \in Key
  BY DEF TypeOK, Store, Transaction
<1>3. CASE online' = online
  BY <1>3
<1>4. CASE online' = Accept(t, ts) /\ online' # online
  <2>1. /\ online'[t.key] = [features |-> FeatureOf[t], ts |-> ts]
        /\ \A k \in Key \ {t.key} : online'[k] = online[k]
    BY <1>2, <1>4, AcceptProperties
  <2>2. Accept(t, ts)[t.key] # Missing
    BY <1>2, AcceptProperties
  <2>3. View(online')[t.key] = FeatureOf[t]
    BY <1>2, <1>4, <2>1, <2>2 DEF View
  <2>4. \A k \in Key \ {t.key} : View(online')[k] = View(online)[k]
    BY <2>1 DEF View
  <2> QED  BY <1>2, <2>3, <2>4 DEF View
<1> QED  BY <1>1, <1>3, <1>4

\* Every behaviour of the platform, seen through lookups, is one of the table:
\* topic, worker, jobs, timestamps and the shared parquet never show a reader
\* features of a transaction that was not ingested, and a restart of Redis returns
\* to a table it had dumped.
THEOREM ImplementsTable == Spec => TableSpec
<1> DEFINE
      T == Historical \cup Streamed(topic)
      AbstractStep ==
          \/ \E t \in Transaction :
                 \/ T' = T \cup {t} /\ UNCHANGED <<View(online), View(snapshot)>>
                 \/ /\ t \in T
                    /\ View(online)' = [View(online) EXCEPT ![t.key] = FeatureOf[t]]
                    /\ UNCHANGED <<T, View(snapshot)>>
          \/ View(snapshot)' = View(online) /\ UNCHANGED <<T, View(online)>>
          \/ View(online)' = View(snapshot) /\ UNCHANGED <<T, View(snapshot)>>
<1>1. Init => Table!Init
  <2>1. Streamed(<<>>) = {}
    BY DEF Streamed
  <2> QED  BY <2>1 DEF Init, Table!Init, Readable
<1>2. TypeOK /\ TodoIsHistorical /\ [Next]_vars
        => AbstractStep \/ UNCHANGED <<T, View(online), View(snapshot)>>
  <2> SUFFICES ASSUME TypeOK, TodoIsHistorical, [Next]_vars
               PROVE  AbstractStep \/ UNCHANGED <<T, View(online), View(snapshot)>>
    OBVIOUS
  <2> USE DEF vars, streamVars, jobVars
  <2>1. ASSUME NEW m \in Message, Produce(m)
        PROVE  AbstractStep \/ UNCHANGED <<T, View(online), View(snapshot)>>
    <3>1. Streamed(Append(topic, m)) = Streamed(topic) \cup ({m} \cap Transaction)
      <4>1. /\ DOMAIN Append(topic, m) = DOMAIN topic \cup {Len(topic) + 1}
            /\ \A i \in DOMAIN topic : Append(topic, m)[i] = topic[i]
            /\ Append(topic, m)[Len(topic) + 1] = m
        BY DEF TypeOK
      <4> QED  BY <4>1, Zenon DEF Streamed
    <3>2. T' = T \cup ({m} \cap Transaction) /\ UNCHANGED <<View(online), View(snapshot)>>
      BY <2>1, <3>1 DEF Produce, View
    <3> QED  BY <3>2 DEF Message
  <2>2. ASSUME NEW t \in Transaction, t \in T, Pushes(t), UNCHANGED topic
        PROVE  AbstractStep \/ UNCHANGED <<T, View(online), View(snapshot)>>
    <3>1. UNCHANGED <<T, View(snapshot)>>
      BY <2>2 DEF Pushes, View, Streamed
    <3>2. View(online)' = View(online')
      BY DEF View
    <3> QED  BY <2>2, <3>1, <3>2, PushPublishes
  <2>3. CASE ComputeAndPush \/ PushFails
    <3>1. PICK t \in Transaction : t \in Streamed(topic) /\ Pushes(t)
      BY <2>3, WorkerPushes
    <3> QED  BY <2>2, <2>3, <3>1 DEF ComputeAndPush, PushFails
  <2>4. ASSUME NEW j \in Jobs, MaterializeRow(j)
        PROVE  AbstractStep \/ UNCHANGED <<T, View(online), View(snapshot)>>
    <3>1. PICK t \in job[j].todo : t \in Transaction /\ Pushes(t)
      BY <2>4, BatchPushes
    <3> QED  BY <2>2, <2>4, <3>1 DEF MaterializeRow, TodoIsHistorical
  <2>5. CASE RedisSave
    BY <2>5 DEF RedisSave, View, Streamed
  <2>6. CASE RedisRestart
    BY <2>6 DEF RedisRestart, View, Streamed
  <2>7. CASE UNCHANGED <<topic, online, snapshot>>
    BY <2>7 DEF View, Streamed
  <2> QED
    BY <2>1, <2>3, <2>4, <2>5, <2>6, <2>7
    DEF Next, Tick, WorkerMap, WorkerStart, SkipInvalid, MapRaises, WorkerExit, WorkerCrash,
        Materialize, BuildOfflineSource, StartMaterialize, MaterializeSucceeds,
        MaterializeFails
<1>3. AbstractStep => Table!Next
  <2> SUFFICES ASSUME AbstractStep PROVE Table!Next
    OBVIOUS
  <2> USE DEF View, Readable
  <2>1. CASE \E t \in Transaction :
                 T' = T \cup {t} /\ UNCHANGED <<View(online), View(snapshot)>>
    <3>1. PICK t \in Transaction :
              T' = T \cup {t} /\ UNCHANGED <<View(online), View(snapshot)>>
      BY <2>1
    <3>2. Table!Ingest(t)
      BY <3>1 DEF Table!Ingest
    <3> QED  BY <3>2 DEF Table!Next, Table!Transaction, Transaction
  <2>2. CASE \E t \in Transaction :
                 /\ t \in T
                 /\ View(online)' = [View(online) EXCEPT ![t.key] = FeatureOf[t]]
                 /\ UNCHANGED <<T, View(snapshot)>>
    <3>1. PICK t \in Transaction :
              /\ t \in T
              /\ View(online)' = [View(online) EXCEPT ![t.key] = FeatureOf[t]]
              /\ UNCHANGED <<T, View(snapshot)>>
      BY <2>2
    <3>2. Table!Publish(t)
      BY <3>1 DEF Table!Publish
    <3> QED  BY <3>2 DEF Table!Next, Table!Transaction, Transaction
  <2>3. CASE View(snapshot)' = View(online) /\ UNCHANGED <<T, View(online)>>
    BY <2>3, Zenon DEF Table!Next, Table!Save
  <2>4. CASE View(online)' = View(snapshot) /\ UNCHANGED <<T, View(snapshot)>>
    BY <2>4, Zenon DEF Table!Next, Table!Recover
  <2> QED  BY <2>1, <2>2, <2>3, <2>4
<1>4. UNCHANGED <<T, View(online), View(snapshot)>>
        => UNCHANGED <<Historical \cup Streamed(topic),
                       [k \in Key |-> IF Readable(k) THEN online[k].features ELSE Missing],
                       [k \in Key |-> IF snapshot[k] = Missing THEN Missing
                                      ELSE snapshot[k].features]>>
  BY DEF View, Readable
<1> QED
  BY <1>1, <1>2, <1>3, <1>4, TypeCorrect, TodoStaysHistorical, PTL
  DEF Spec, TableSpec, Table!Spec

-----------------------------------------------------------------------------
(* What an overflowing record does, for every topic.                       *)

\* No run of the worker gets past a record that overflows.
NoRunPassesAnOverflow ==
    \A i \in 1 .. Len(topic) : topic[i] \in Overflowing => position < i

\* The crash loop is not an accident of the instance TLC looks at: whatever else is in
\* the topic, wherever the first overflowing record is, and however often Kubernetes
\* starts the worker again, map() raises there and the records behind it are never
\* mapped (flink_job.py, to_int64 without a range check).
THEOREM OverflowIsNeverPassed == Spec => []NoRunPassesAnOverflow
<1>1. Init => NoRunPassesAnOverflow
  BY DEF Init, NoRunPassesAnOverflow
<1>2. TypeOK /\ NoRunPassesAnOverflow /\ [Next]_vars => NoRunPassesAnOverflow'
  <2> SUFFICES ASSUME TypeOK, NoRunPassesAnOverflow, [Next]_vars,
                      NEW i \in 1 .. Len(topic'), topic'[i] \in Overflowing
               PROVE  position' < i
    BY DEF NoRunPassesAnOverflow
  <2>0. Len(topic) \in Nat /\ position \in 0 .. Len(topic)
    BY DEF TypeOK
  <2>1. ASSUME NEW m \in Message, Produce(m) PROVE position' < i
    <3>1. /\ Len(topic') = Len(topic) + 1 /\ position' = position
          /\ \A j \in 1 .. Len(topic) : topic'[j] = topic[j]
      BY <2>1 DEF Produce, TypeOK
    <3>2. CASE i \in 1 .. Len(topic)
      BY <3>1, <3>2 DEF NoRunPassesAnOverflow
    <3>3. CASE i = Len(topic) + 1
      BY <2>0, <3>1, <3>3
    <3> QED  BY <2>0, <3>1, <3>2, <3>3
  <2>2. CASE WorkerStart
    BY <2>2 DEF WorkerStart
  <2>3. CASE SkipInvalid \/ ComputeAndPush \/ PushFails
    <3>1. /\ topic' = topic /\ position' = position + 1
          /\ topic[position + 1] \notin Overflowing
      BY <2>3, VocabularyAssumption
      DEF SkipInvalid, ComputeAndPush, PushFails, Record, Message
    <3>2. position < i /\ i # position + 1
      BY <3>1 DEF NoRunPassesAnOverflow
    <3> QED  BY <2>0, <3>1, <3>2
  <2>4. CASE UNCHANGED <<topic, position>>
    BY <2>4 DEF NoRunPassesAnOverflow
  <2>5. RedisRestart \/ (\E j \in Jobs : MaterializeRow(j)) => UNCHANGED <<topic, position>>
    BY DEF RedisRestart, MaterializeRow, streamVars
  <2> QED  BY <2>1, <2>2, <2>3, <2>4, <2>5, CoverageSteps
<1> QED  BY <1>1, <1>2, TypeCorrect, PTL DEF Spec

-----------------------------------------------------------------------------
(* A bounded run: each step takes it closer to its end.                    *)

\* The steps a bounded run has left: the records up to stopAt and its exit.
StepsLeft == IF worker = "running" /\ bounded THEN stopAt - position + 1 ELSE 0

\* What a bounded run has not passed lies before the offset it stops at.
BoundedOnTrack ==
    worker = "running" /\ bounded => position <= stopAt

\* The half of BoundedRunEnds that a proof can reach: a step of the worker brings a
\* bounded run closer to its end, and nobody who produces, materializes or restarts
\* Redis moves that end away, however fast records arrive (Flink's latest() is looked
\* up once, when the job starts).
THEOREM BoundedRunsGetCloser ==
    Spec => [][worker = "running" /\ bounded =>
                  /\ StepsLeft' <= StepsLeft
                  /\ WorkerMap \/ WorkerExit => StepsLeft' < StepsLeft]_vars
<1>1. Init => BoundedOnTrack
  BY DEF Init, BoundedOnTrack
<1>2. TypeOK /\ BoundedOnTrack /\ [Next]_vars => BoundedOnTrack'
  <2> SUFFICES ASSUME TypeOK, BoundedOnTrack, [Next]_vars PROVE BoundedOnTrack'
    OBVIOUS
  <2>1. CASE WorkerStart
    BY <2>1 DEF WorkerStart, BoundedOnTrack, TypeOK
  <2>2. CASE SkipInvalid \/ ComputeAndPush \/ PushFails
    <3>1. /\ UNCHANGED <<worker, bounded, stopAt>> /\ position' = position + 1
          /\ bounded => position < stopAt
      BY <2>2 DEF SkipInvalid, ComputeAndPush, PushFails, HasRecord
    <3>2. position \in Nat /\ stopAt \in Nat
      BY DEF TypeOK
    <3> QED  BY <3>1, <3>2 DEF BoundedOnTrack
  <2>3. CASE worker' = "down"
    BY <2>3 DEF BoundedOnTrack
  <2>4. CASE UNCHANGED <<worker, position, bounded, stopAt>>
    BY <2>4 DEF BoundedOnTrack
  <2> QED
    BY <2>1, <2>2, <2>3, <2>4
    DEF Next, Produce, Tick, WorkerMap, MapRaises, WorkerExit, WorkerCrash, Materialize,
        BuildOfflineSource, StartMaterialize, MaterializeRow, MaterializeSucceeds,
        MaterializeFails, RedisSave, RedisRestart, vars, streamVars, jobVars
<1>3. TypeOK /\ BoundedOnTrack /\ [Next]_vars
        => [worker = "running" /\ bounded =>
               /\ StepsLeft' <= StepsLeft
               /\ WorkerMap \/ WorkerExit => StepsLeft' < StepsLeft]_vars
  <2> SUFFICES ASSUME TypeOK, BoundedOnTrack, Next, worker = "running", bounded
               PROVE  /\ StepsLeft' <= StepsLeft
                      /\ WorkerMap \/ WorkerExit => StepsLeft' < StepsLeft
    BY DEF vars, streamVars, jobVars, StepsLeft, TypeOK
  <2>0. /\ StepsLeft \in Nat /\ StepsLeft = stopAt - position + 1 /\ StepsLeft > 0
        /\ position \in Nat /\ stopAt \in Nat
    BY DEF StepsLeft, BoundedOnTrack, TypeOK
  <2>1. CASE SkipInvalid \/ ComputeAndPush \/ PushFails
    <3>1. UNCHANGED <<worker, bounded, stopAt>> /\ position' = position + 1
      BY <2>1 DEF SkipInvalid, ComputeAndPush, PushFails
    <3>2. StepsLeft' = stopAt - (position + 1) + 1
      BY <3>1 DEF StepsLeft
    <3> QED  BY <2>0, <3>2
  <2>2. CASE worker' = "down"
    <3>1. StepsLeft' = 0
      BY <2>2 DEF StepsLeft
    <3> QED  BY <2>0, <3>1
  <2>3. CASE UNCHANGED <<worker, position, bounded, stopAt>>
    <3>1. StepsLeft' = StepsLeft
      BY <2>3 DEF StepsLeft
    <3>2. ~(WorkerMap \/ WorkerExit)
      BY <2>0, <2>3
      DEF WorkerMap, SkipInvalid, MapRaises, ComputeAndPush, PushFails, WorkerExit
    <3> QED  BY <2>0, <3>1, <3>2
  <2> QED
    BY <2>1, <2>2, <2>3
    DEF Next, Produce, Tick, WorkerStart, WorkerMap, MapRaises, WorkerExit, WorkerCrash,
        Materialize, BuildOfflineSource, StartMaterialize, MaterializeRow,
        MaterializeSucceeds, MaterializeFails, RedisSave, RedisRestart, streamVars, jobVars
<1> QED  BY <1>1, <1>2, <1>3, TypeCorrect, PTL DEF Spec

-----------------------------------------------------------------------------
(* Timestamps: what the rule of the online store, which keeps the newer    *)
(* row, does to the two paths.                                             *)

\* No entry of a store is newer than the wall clock.
NothingFromTheFuture(store) ==
    \A k \in Key : store[k] # Missing => store[k].ts <= Now

\* What Redis would return to is no newer than what it serves.
DumpIsOlder ==
    \A k \in Key : snapshot[k] # Missing =>
        Readable(k) /\ snapshot[k].ts <= online[k].ts

\* The timestamps of a typed store are numbers.
LEMMA StoreTimestamps ==
    ASSUME NEW store \in Store, NEW k \in Key, store[k] # Missing
    PROVE  store[k] \in Entry /\ store[k].ts \in Nat
<1>1. store[k] \in Entry
  BY DEF Store
<1> QED  BY <1>1 DEF Entry

\* A push never takes an entry back, and the entry of its key is at least as new as it.
LEMMA AcceptIsNewer ==
    ASSUME online \in Store, NEW t \in Transaction, NEW ts \in Nat
    PROVE  /\ \A k \in Key : Readable(k) =>
                  Accept(t, ts)[k] # Missing /\ online[k].ts <= Accept(t, ts)[k].ts
           /\ Accept(t, ts)[t.key].ts >= ts
           /\ \/ Accept(t, ts)[t.key] = [features |-> FeatureOf[t], ts |-> ts]
              \/ Readable(t.key) /\ Accept(t, ts) = online
<1>1. t.key \in Key
  BY DEF Transaction
<1>2. \A k \in Key : Readable(k) => online[k].ts \in Nat
  BY StoreTimestamps DEF Readable
<1>3. CASE Readable(t.key) /\ online[t.key].ts >= ts
  <2>1. Accept(t, ts) = online
    BY <1>3 DEF Accept, ComputeEntityId
  <2> QED  BY <1>1, <1>2, <1>3, <2>1 DEF Readable
<1>4. CASE ~(Readable(t.key) /\ online[t.key].ts >= ts)
  <2>1. Accept(t, ts) = [online EXCEPT ![t.key] = [features |-> FeatureOf[t], ts |-> ts]]
    BY <1>4 DEF Accept, ComputeEntityId, TransformOne
  <2>2. Accept(t, ts)[t.key] = [features |-> FeatureOf[t], ts |-> ts]
    BY <1>1, <2>1 DEF Store
  <2>3. \A k \in Key : Readable(k) =>
            Accept(t, ts)[k] # Missing /\ online[k].ts <= Accept(t, ts)[k].ts
    <3> TAKE k \in Key
    <3> HAVE Readable(k)
    <3>1. CASE k = t.key
      BY <1>2, <1>4, <2>2, <3>1, AcceptProperties
    <3>2. CASE k # t.key
      BY <1>2, <2>1, <3>2 DEF Readable, Store
    <3> QED  BY <3>1, <3>2
  <2> QED  BY <2>2, <2>3
<1> QED  BY <1>3, <1>4

\* A push at a time that is not in the future.
PushesBy(t) == \E ts \in Nat : ts <= Now /\ online' \in {online, Accept(t, ts)}

\* What the steps do to the two stores and to the clock.
LEMMA StoreSteps ==
    ASSUME TypeOK, [Next]_vars
    PROVE  \/ \E t \in Transaction : PushesBy(t) /\ UNCHANGED <<snapshot, clock>>
           \/ RedisSave \/ RedisRestart
           \/ UNCHANGED <<online, snapshot>> /\ clock' \in {clock, clock + 1}
<1>1. CASE ComputeAndPush \/ PushFails
  <2>1. Record \in Transaction /\ Now \in Nat /\ online' \in {online, Accept(Record, Now)}
    BY <1>1, TimestampsAreNat DEF ComputeAndPush, PushFails
  <2> QED  BY <1>1, <2>1 DEF PushesBy, ComputeAndPush, PushFails
<1>2. ASSUME NEW j \in Jobs, MaterializeRow(j)
      PROVE  \E t \in Transaction : PushesBy(t) /\ UNCHANGED <<snapshot, clock>>
  <2>1. PICK t \in job[j].todo :
          /\ online' = Accept(t, BatchTimestamp(t))
          /\ UNCHANGED <<streamVars, parquet, snapshot, clock>>
    BY <1>2 DEF MaterializeRow
  <2>2. t \in Transaction /\ t.key \in Key /\ BatchTimestamp(t) \in Nat
    BY <2>1, TimestampsAreNat DEF TypeOK, Transaction
  <2>3. BatchTimestamp(t) <= Now
    BY <2>2, PlatformAssumption DEF BatchTimestamp, Now, TypeOK
  <2> QED  BY <2>1, <2>2, <2>3 DEF PushesBy
<1>3. CASE UNCHANGED <<online, snapshot>> /\ clock' \in {clock, clock + 1}
  BY <1>3
<1> QED
  BY <1>1, <1>2, <1>3
  DEF Next, Produce, Tick, WorkerMap, WorkerStart, SkipInvalid, MapRaises, WorkerExit,
      WorkerCrash, Materialize, BuildOfflineSource, StartMaterialize,
      MaterializeSucceeds, MaterializeFails, RedisSave, RedisRestart, vars, streamVars, jobVars

TimestampsOnTrack ==
    NothingFromTheFuture(online) /\ NothingFromTheFuture(snapshot) /\ DumpIsOlder

LEMMA TimestampsStayOnTrack == Spec => []TimestampsOnTrack
<1>1. Init => TimestampsOnTrack
  BY DEF Init, TimestampsOnTrack, NothingFromTheFuture, DumpIsOlder
<1>2. TypeOK /\ TimestampsOnTrack /\ [Next]_vars => TimestampsOnTrack'
  <2> SUFFICES ASSUME TypeOK, TimestampsOnTrack, [Next]_vars PROVE TimestampsOnTrack'
    OBVIOUS
  <2> USE DEF TimestampsOnTrack
  <2>0. online \in Store /\ snapshot \in Store /\ Now \in Nat
    BY TimestampsAreNat DEF TypeOK, Store
  <2>1. ASSUME NEW t \in Transaction, PushesBy(t), UNCHANGED <<snapshot, clock>>
        PROVE  TimestampsOnTrack'
    <3>1. PICK ts \in Nat : ts <= Now /\ online' \in {online, Accept(t, ts)}
      BY <2>1 DEF PushesBy
    <3>2. \A k \in Key : Readable(k) => online'[k] # Missing /\ online[k].ts <= online'[k].ts
      <4>1. \A k \in Key : Readable(k) => online[k].ts \in Nat
        BY <2>0, StoreTimestamps DEF Readable
      <4>2. \A k \in Key : Readable(k) =>
                Accept(t, ts)[k] # Missing /\ online[k].ts <= Accept(t, ts)[k].ts
        BY <2>0, <3>1, AcceptIsNewer
      <4>3. CASE online' = online
        BY <4>1, <4>3 DEF Readable
      <4>4. CASE online' = Accept(t, ts)
        BY <4>2, <4>4
      <4> QED  BY <3>1, <4>3, <4>4
    <3>3. Now' = Now
      BY <2>1 DEF Now
    <3>4. NothingFromTheFuture(online)'
      <4> SUFFICES ASSUME NEW k \in Key, online'[k] # Missing PROVE online'[k].ts <= Now
        BY <3>3 DEF NothingFromTheFuture
      <4>1. CASE online'[k] = online[k]
        BY <4>1 DEF NothingFromTheFuture
      <4>2. CASE online'[k] # online[k]
        <5>1. online' = Accept(t, ts) /\ online' # online
          BY <3>1, <4>2
        <5>2. k = t.key /\ Accept(t, ts)[t.key] = [features |-> FeatureOf[t], ts |-> ts]
          BY <2>0, <4>2, <5>1, AcceptProperties
        <5> QED  BY <3>1, <5>1, <5>2
      <4> QED  BY <4>1, <4>2
    <3>5. DumpIsOlder'
      <4> SUFFICES ASSUME NEW k \in Key, snapshot[k] # Missing
                   PROVE  online'[k] # Missing /\ snapshot[k].ts <= online'[k].ts
        BY <2>1 DEF DumpIsOlder, Readable
      <4>1. Readable(k) /\ snapshot[k].ts <= online[k].ts
        BY DEF DumpIsOlder
      <4>2. online'[k] # Missing /\ online[k].ts <= online'[k].ts
        BY <3>2, <4>1
      <4>3. online' \in Store
        <5>1. Accept(t, ts) \in Store
          BY <2>0, <3>1, AcceptProperties
        <5> QED  BY <2>0, <3>1, <5>1
      <4>4. snapshot[k].ts \in Nat /\ online[k].ts \in Nat /\ online'[k].ts \in Nat
        BY <2>0, <4>1, <4>2, <4>3, StoreTimestamps DEF Readable
      <4> QED  BY <4>1, <4>2, <4>4
    <3> QED  BY <2>1, <3>3, <3>4, <3>5 DEF NothingFromTheFuture
  <2>2. CASE RedisSave
    <3>1. \A k \in Key : online[k] # Missing => online[k].ts \in Nat
      BY <2>0, StoreTimestamps
    <3> QED  BY <2>2, <3>1 DEF RedisSave, NothingFromTheFuture, DumpIsOlder, Readable, Now
  <2>3. CASE RedisRestart
    <3>1. \A k \in Key : snapshot[k] # Missing => snapshot[k].ts \in Nat
      BY <2>0, StoreTimestamps
    <3> QED  BY <2>3, <3>1 DEF RedisRestart, NothingFromTheFuture, DumpIsOlder, Readable, Now
  <2>4. CASE UNCHANGED <<online, snapshot>> /\ clock' \in {clock, clock + 1}
    <3>1. Now <= Now' /\ Now' \in Nat
      <4>1. clock \in Nat /\ StreamEpoch \in Nat
        BY PlatformAssumption DEF TypeOK
      <4>2. Now' = StreamEpoch + clock \/ Now' = StreamEpoch + (clock + 1)
        BY <2>4 DEF Now
      <4> QED  BY <4>1, <4>2 DEF Now
    <3>2. \A k \in Key : /\ online[k] # Missing => online[k].ts \in Nat
                         /\ snapshot[k] # Missing => snapshot[k].ts \in Nat
      BY <2>0, StoreTimestamps
    <3>3. NothingFromTheFuture(online)' /\ NothingFromTheFuture(snapshot)'
      BY <2>0, <2>4, <3>1, <3>2 DEF NothingFromTheFuture
    <3> QED  BY <2>4, <3>3 DEF DumpIsOlder, Readable
  <2> QED  BY <2>1, <2>2, <2>3, <2>4, StoreSteps
<1> QED  BY <1>1, <1>2, TypeCorrect, PTL DEF Spec

\* The worker never reports a push OK that readers of the key cannot see.
LEMMA PushTakesEffect ==
    ASSUME TypeOK, TimestampsOnTrack, ComputeAndPush
    PROVE  LET k == ComputeEntityId(Record)
           IN  /\ online'[k] # Missing /\ online'[k].ts = Now
               /\ online'[k].features = TransformOne(Record) \/ online'[k] = online[k]
<1> SUFFICES ASSUME NEW k, k = Record.key
             PROVE  /\ online'[k] # Missing /\ online'[k].ts = Now
                    /\ online'[k].features = FeatureOf[Record] \/ online'[k] = online[k]
  BY DEF ComputeEntityId, TransformOne
<1>1. /\ Record \in Transaction /\ Now \in Nat /\ online \in Store /\ k \in Key
      /\ online' = Accept(Record, Now)
  BY RecordIsTransaction, TimestampsAreNat DEF ComputeAndPush, TypeOK, Store, Transaction
<1>2. online'[k] # Missing /\ online'[k].ts >= Now
  BY <1>1, AcceptProperties, AcceptIsNewer
<1>3. CASE online'[k] = [features |-> FeatureOf[Record], ts |-> Now]
  BY <1>1, <1>2, <1>3
<1>4. CASE Readable(k) /\ online' = online
  <2>1. online[k].ts <= Now /\ online[k].ts \in Nat
    BY <1>1, <1>4, StoreTimestamps DEF TimestampsOnTrack, NothingFromTheFuture, Readable
  <2> QED  BY <1>1, <1>2, <1>4, <2>1
<1> QED  BY <1>1, <1>3, <1>4, AcceptIsNewer

\* Whatever was pushed, replayed and materialized since the last dump, what a restart of
\* Redis goes back to is key by key no newer than what lookups got until then: it can
\* lose rows, and it never serves one that is newer than what it replaces.
THEOREM DumpsAreOlder == Spec => []DumpIsOlder
<1>1. TimestampsOnTrack => DumpIsOlder
  BY DEF TimestampsOnTrack
<1> QED  BY <1>1, TimestampsStayOnTrack, PTL

-----------------------------------------------------------------------------
(* Where an entry comes from, whether or not keys tell transactions apart. *)

\* An entry's timestamp tells the path that wrote it: an hour of the simulation is a
\* batch's and the features are those of a row of the dataset, a second of the wall
\* clock is the worker's and they are those of a record in the topic.
Sourced(store) ==
    \A k \in Key : store[k] # Missing =>
        \/ /\ store[k].ts = StepOf[k]
           /\ \E t \in Historical : t.key = k /\ store[k].features = FeatureOf[t]
        \/ /\ store[k].ts >= StreamEpoch
           /\ \E t \in Streamed(topic) : t.key = k /\ store[k].features = FeatureOf[t]

LEMMA StreamedGrows ==
    ASSUME TypeOK, [Next]_vars PROVE Streamed(topic) \subseteq Streamed(topic')
<1>1. ASSUME NEW m \in Message, Produce(m) PROVE Streamed(topic) \subseteq Streamed(topic')
  <2>1. /\ DOMAIN topic \subseteq DOMAIN topic'
        /\ \A i \in DOMAIN topic : topic'[i] = topic[i]
    BY <1>1 DEF Produce, TypeOK
  <2> QED  BY <2>1 DEF Streamed
<1>2. UNCHANGED topic \/ \E m \in Message : Produce(m)
  BY CoverageSteps DEF WorkerStart, SkipInvalid, ComputeAndPush, PushFails, RedisRestart,
     MaterializeRow, streamVars
<1> QED  BY <1>1, <1>2 DEF Streamed

\* A push keeps a store's entries sourced, if the pushed row is.
LEMMA PushKeepsSourced ==
    ASSUME TypeOK, [Next]_vars, Sourced(online), NEW t \in Transaction, NEW ts \in Nat,
           online' \in {online, Accept(t, ts)},
           \/ t \in Historical /\ ts = StepOf[t.key]
           \/ t \in Streamed(topic) /\ ts >= StreamEpoch
    PROVE  Sourced(online)'
<1>1. online \in Store
  BY DEF TypeOK, Store
<1>2. SUFFICES ASSUME NEW k \in Key, online'[k] # Missing
               PROVE  \/ /\ online'[k].ts = StepOf[k]
                         /\ \E u \in Historical : u.key = k /\ online'[k].features = FeatureOf[u]
                      \/ /\ online'[k].ts >= StreamEpoch
                         /\ \E u \in Streamed(topic') :
                               u.key = k /\ online'[k].features = FeatureOf[u]
  BY DEF Sourced, Streamed
<1>3. CASE online'[k] = online[k]
  BY <1>2, <1>3, StreamedGrows DEF Sourced
<1>4. CASE online'[k] # online[k]
  <2>1. k = t.key /\ online'[k] = [features |-> FeatureOf[t], ts |-> ts]
    BY <1>1, <1>4, AcceptProperties
  <2> QED  BY <2>1, StreamedGrows
<1> QED  BY <1>3, <1>4

\* Holds without any assumption on keys: replays, repeated batches, dumps and restarts
\* never mix the two paths, and never make up features (write_online and materialize are
\* the only writers, and each stamps its rows its own way).
EntriesAreSourced == Sourced(online) /\ Sourced(snapshot)

\* Redis and its dump hold nothing but what one of the two paths computed.
THEOREM EntriesHaveASource == Spec => []EntriesAreSourced
<1>1. Init => EntriesAreSourced
  BY DEF Init, EntriesAreSourced, Sourced
<1>2. TypeOK /\ TodoIsHistorical /\ EntriesAreSourced /\ [Next]_vars => EntriesAreSourced'
  <2> SUFFICES ASSUME TypeOK, TodoIsHistorical, EntriesAreSourced, [Next]_vars
               PROVE  Sourced(online)' /\ Sourced(snapshot)'
    BY DEF EntriesAreSourced
  <2> USE DEF EntriesAreSourced
  <2>1. UNCHANGED snapshot => Sourced(snapshot)'
    BY StreamedGrows DEF Sourced, Streamed
  <2>2. UNCHANGED online => Sourced(online)'
    BY StreamedGrows DEF Sourced, Streamed
  <2>3. CASE ComputeAndPush \/ PushFails
    <3>1. /\ Record \in Transaction /\ Record \in Streamed(topic) /\ Now \in Nat
          /\ online' \in {online, Accept(Record, Now)} /\ UNCHANGED snapshot
      BY <2>3, RecordIsTransaction, TimestampsAreNat DEF ComputeAndPush, PushFails
    <3>2. Now >= StreamEpoch
      BY PlatformAssumption DEF Now, TypeOK
    <3> QED  BY <2>1, <3>1, <3>2, PushKeepsSourced
  <2>4. ASSUME NEW j \in Jobs, MaterializeRow(j) PROVE Sourced(online)' /\ Sourced(snapshot)'
    <3>1. PICK t \in job[j].todo :
            online' = Accept(t, BatchTimestamp(t)) /\ UNCHANGED snapshot
      BY <2>4 DEF MaterializeRow
    <3>2. t \in Transaction /\ t \in Historical /\ BatchTimestamp(t) \in Nat
      BY <3>1, TimestampsAreNat DEF TypeOK, TodoIsHistorical
    <3> QED  BY <2>1, <3>1, <3>2, PushKeepsSourced DEF BatchTimestamp
  <2>5. CASE RedisSave
    BY <2>5 DEF RedisSave, Sourced, streamVars
  <2>6. CASE RedisRestart
    BY <2>6 DEF RedisRestart, Sourced, streamVars
  <2>7. CASE UNCHANGED <<online, snapshot>>
    BY <2>1, <2>2, <2>7
  <2> QED
    BY <2>3, <2>4, <2>5, <2>6, <2>7
    DEF Next, Produce, Tick, WorkerMap, WorkerStart, SkipInvalid, MapRaises, WorkerExit,
        WorkerCrash, Materialize, BuildOfflineSource, StartMaterialize,
        MaterializeSucceeds, MaterializeFails, vars, streamVars, jobVars
<1> QED  BY <1>1, <1>2, TypeCorrect, TodoStaysHistorical, PTL DEF Spec

\* materialize does not undo the worker, in whatever order the two write.
LEMMA BatchSparesStreamed ==
    ASSUME TypeOK, NEW j \in Jobs, NEW k \in Key, MaterializeRow(j),
           Readable(k), online[k].ts >= StreamEpoch
    PROVE  online'[k] = online[k]
<1>1. PICK t \in job[j].todo : online' = Accept(t, BatchTimestamp(t))
  BY DEF MaterializeRow
<1>2. /\ t \in Transaction /\ t.key \in Key /\ online \in Store
      /\ BatchTimestamp(t) \in Nat /\ BatchTimestamp(t) < StreamEpoch
  BY <1>1, TimestampsAreNat, PlatformAssumption DEF TypeOK, Store, Transaction, BatchTimestamp
<1>3. CASE k # t.key
  BY <1>1, <1>2, <1>3 DEF Accept, ComputeEntityId, Store
<1>4. CASE k = t.key
  <2>1. online[k].ts \in Nat
    BY <1>2, StoreTimestamps DEF Readable
  <2>2. online[k].ts >= BatchTimestamp(t)
    BY <1>2, <2>1, PlatformAssumption
  <2> QED  BY <1>1, <1>4, <2>2 DEF Accept, ComputeEntityId
<1> QED  BY <1>3, <1>4

\* Streamed features win over batch ones, for any keys, jobs, datasets and clocks
\* (FeastFeatureStore.write_online and cli._cmd_materialize write the one store).
THEOREM StreamedFeaturesWin == Spec => StreamBeatsBatch
<1> DEFINE Push == ComputeAndPush =>
                       LET k == ComputeEntityId(Record)
                       IN  /\ online'[k] # Missing /\ online'[k].ts = Now
                           /\ \/ online'[k].features = TransformOne(Record)
                              \/ online'[k] = online[k]
           Batch == \A j \in Jobs, k \in Key :
                        MaterializeRow(j) /\ Readable(k) /\ online[k].ts >= StreamEpoch
                            => online'[k] = online[k]
<1>1. TypeOK /\ TimestampsOnTrack /\ [Next]_vars => [Push /\ Batch]_vars
  BY PushTakesEffect, BatchSparesStreamed
<1> QED  BY <1>1, TypeCorrect, TimestampsStayOnTrack, PTL DEF Spec, StreamBeatsBatch

=============================================================================
