------------------------------ MODULE Retraining -----------------------------
(***************************************************************************)
(* fraud-detection preprocess, train and evaluate, as the Airflow DAGs,    *)
(* the Kubernetes Job and people chain them: the three split files of a    *)
(* processed directory, MLflow's runs, and the versions of the one         *)
(* registered model.  The daily and the weekly DAG start at the same       *)
(* midnight every week and write the same directory.                       *)
(***************************************************************************)
EXTENDS Naturals, Sequences, FiniteSets

CONSTANTS
    Row,            \* rows a raw CSV can have
    Fraud,          \* rows with isFraud = 1
    Type,           \* values of the `type` column
    TypeOf,         \* ... and the value of each row
    Csv,            \* contents of the raw CSV
    Splittable,     \* contents that load and that train_test_split can stratify
    FirstCsv,       \* what it holds at first
    Seed,           \* values of random_state
    RandomState,    \* the one stratified_split uses
    SplitWith,      \* train_test_split, twice: Csv and Seed to the rows of each part
    Pipelines,      \* DAGs, Jobs, people
    Commands,       \* the commands each one chains
    DirOf,          \* the processed directory each one uses
    Ephemeral,      \* pipelines that start in a new pod, with an empty directory
    Retries,        \* how often a failed chain is started over
    Scheduled,      \* the pipelines that start again and again
    NumSpecs,       \* candidate models of one training
    MaxActive,      \* bound: chains that run at the same time
    MaxChanges,     \* bound: times the raw CSV is replaced
    MaxAttempts,    \* bound: starts of each pipeline that trains, its retries apart
    MaxAborts       \* bound: commands that are killed or raise

Part == {"train", "validation", "test"}
File == <<"train", "validation", "test">>       \* in the order they are written and read
Dir == {DirOf[p] : p \in Pipelines}
Command == {"preprocess", "train", "evaluate"}

\* A split file's contents; the CSV it was cut from is there for the properties.
Frame == [csv : Csv \union {{}}, rows : SUBSET Row, columns : SUBSET Type]
Absent == [csv |-> {}, rows |-> {}, columns |-> {}]     \* no file
Torn == [csv |-> {}, rows |-> Row, columns |-> {}]      \* not a whole parquet file

ASSUME RetrainingAssumption ==
    /\ TypeOf \in [Row -> Type]
    /\ Csv \subseteq SUBSET Row
    /\ Splittable \subseteq Csv /\ {} \notin Splittable
    /\ FirstCsv \in Splittable /\ FirstCsv \cap Fraud # {}
    /\ RandomState \in Seed
    /\ Commands \in [Pipelines -> Seq(Command)]
    /\ \A p \in Pipelines :
          /\ Len(Commands[p]) > 0
          /\ \A i, j \in 1..Len(Commands[p]) :
                Commands[p][i] = "train" /\ Commands[p][j] = "train" => i = j
    /\ Ephemeral \subseteq Pipelines
    /\ \A p \in Ephemeral, q \in Pipelines : DirOf[p] = DirOf[q] => p = q
    /\ Retries \in [Pipelines -> Nat] /\ Scheduled \subseteq Pipelines
    /\ NumSpecs \in Nat \ {0}
    /\ MaxActive \in Nat /\ MaxChanges \in Nat /\ MaxAttempts \in [Pipelines -> Nat] /\ MaxAborts \in Nat

\* train_test_split deals each row to one part, and every part has its share of the fraud.
ASSUME SplitAssumption ==
    /\ SplitWith \in [Splittable \X Seed -> [Part -> SUBSET Row]]
    /\ \A c \in Splittable, s \in Seed, a, b \in Part :
          /\ SplitWith[<<c, s>>][a] \subseteq c
          /\ a # b => SplitWith[<<c, s>>][a] \cap SplitWith[<<c, s>>][b] = {}
          /\ c \cap Fraud # {} => SplitWith[<<c, s>>][a] \cap Fraud # {}

VARIABLES
    raw,        \* the raw CSV
    splits,     \* the three files of each processed directory
    registry,   \* the run each version of the model was registered from
    step,       \* of each pipeline: the command it is at,
    phase,      \* ... what it does next in it,
    file,       \* ... the split file it is at, 1 to 3,
    held,       \* ... the splits in memory,
    mixed,      \* ... whether another frame went into the file it has open,
    runs,       \* ... the MLflow runs of this training,
    best,       \* ... the best of them, 0 for none,
    version,    \* ... the version it registered, 0 for none,
    evaluated,  \* ... the version it evaluates, 0 for none,
    report,     \* ... its model report,
    attempts,   \* ... how often it was started to train,
    left,       \* ... the retries it has left
    misread,    \* the pipelines that found a split they could not use
    aborts,     \* commands killed so far
    changes     \* replacements of the raw CSV so far

inputs == <<raw, changes>>
memory == <<file, held, mixed, runs, best>>
outcome == <<version, evaluated, report>>
control == <<attempts, left, aborts>>
vars == <<inputs, splits, registry, step, phase, memory, outcome, control, misread>>

Columns(c) == {TypeOf[r] : r \in c}     \* get_dummies over the whole CSV

\* assert_trainable, after the CSV loaded and before it is split.
Trainable(c) == c \in Splittable /\ c \cap Fraud # {}

\* Mutant: get_dummies after the split.
EncodeAfterSplit(c, s) ==
    [part \in Part |->
        [csv |-> c, rows |-> SplitWith[<<c, s>>][part],
         columns |-> Columns(SplitWith[<<c, s>>][part])]]

StratifiedSplit(c, s) ==
    [part \in Part |->
        [csv |-> c, rows |-> SplitWith[<<c, s>>][part], columns |-> Columns(c)]]

NoData == [part \in Part |-> Absent]

\* An MLflow run: what it was fitted and scored on, feature_names.json, whether
\* log_model is through, and whose it is.
Run == [frames : [Part -> Frame], names : SUBSET Type, model : BOOLEAN,
        by : Pipelines]

Ended == {"idle", "succeeded", "failed"}
Phase == Ended \union {"load", "truncate", "fill", "read", "fit", "log",
                       "register", "report", "resolve", "score"}

Doing(p) == Commands[p][step[p]]
FirstPhase(c) == IF c = "preprocess" THEN "load" ELSE "read"

TypeOK ==
    /\ raw \in Csv /\ changes \in 0..MaxChanges
    /\ splits \in [Dir -> [Part -> Frame \union {Torn}]]
    /\ registry \in Seq(Run)
    /\ step \in [Pipelines -> Nat \ {0}]
    /\ \A p \in Pipelines : step[p] <= Len(Commands[p])
    /\ phase \in [Pipelines -> Phase] /\ file \in [Pipelines -> 1..3]
    /\ held \in [Pipelines -> [Part -> Frame]] /\ mixed \in [Pipelines -> BOOLEAN]
    /\ runs \in [Pipelines -> Seq(Run)] /\ best \in [Pipelines -> Nat]
    /\ version \in [Pipelines -> 0..Len(registry)]
    /\ evaluated \in [Pipelines -> 0..Len(registry)]
    /\ report \in [Pipelines -> SUBSET [version : 1..Len(registry), best : Run]]
    /\ attempts \in [Pipelines -> Nat] /\ left \in [Pipelines -> Nat]
    /\ misread \subseteq Pipelines /\ aborts \in 0..MaxAborts

Init ==
    /\ raw = FirstCsv /\ changes = 0
    /\ splits = [d \in Dir |-> NoData]
    /\ registry = <<>>
    /\ step = [p \in Pipelines |-> 1] /\ phase = [p \in Pipelines |-> "idle"]
    /\ file = [p \in Pipelines |-> 1] /\ held = [p \in Pipelines |-> NoData]
    /\ mixed = [p \in Pipelines |-> FALSE] /\ runs = [p \in Pipelines |-> <<>>]
    /\ best = [p \in Pipelines |-> 0]
    /\ version = [p \in Pipelines |-> 0] /\ evaluated = [p \in Pipelines |-> 0]
    /\ report = [p \in Pipelines |-> {}]
    /\ attempts = [p \in Pipelines |-> 0] /\ left = [p \in Pipelines |-> 0]
    /\ misread = {} /\ aborts = 0
-----------------------------------------------------------------------------
\* Chains of commands.

\* Someone, or a download, puts another CSV in place.
ReplaceRaw(c) ==
    /\ changes < MaxChanges /\ c # raw
    /\ raw' = c /\ changes' = changes + 1
    /\ UNCHANGED <<splits, registry, step, phase, memory, outcome, control, misread>>

Trains(p) == \E i \in 1..Len(Commands[p]) : Commands[p][i] = "train"

\* A process is gone with its memory.
Exit(p) ==
    /\ file' = [file EXCEPT ![p] = 1] /\ held' = [held EXCEPT ![p] = NoData]
    /\ mixed' = [mixed EXCEPT ![p] = FALSE]
    /\ runs' = [runs EXCEPT ![p] = <<>>] /\ best' = [best EXCEPT ![p] = 0]

\* The chain is over.
Leave(p, how) ==
    /\ Exit(p)
    /\ phase' = [phase EXCEPT ![p] = how] /\ step' = [step EXCEPT ![p] = 1]
    /\ version' = [version EXCEPT ![p] = 0] /\ evaluated' = [evaluated EXCEPT ![p] = 0]

\* The first command of the chain; a new pod has no files.
Begin(p) ==
    /\ Cardinality({q \in Pipelines : phase[q] \notin Ended}) < MaxActive
    /\ phase' = [phase EXCEPT ![p] = FirstPhase(Commands[p][1])]
    /\ splits' = IF p \in Ephemeral THEN [splits EXCEPT ![DirOf[p]] = NoData] ELSE splits
    /\ attempts' = [attempts EXCEPT ![p] = IF Trains(p) THEN @ + 1 ELSE @]
    /\ UNCHANGED <<inputs, registry, step, memory, outcome, aborts, misread>>

\* The next interval of a DAG, a new Job, a person.
Start(p) ==
    /\ phase[p] \in Ended /\ (phase[p] = "failed" => left[p] = 0)
    /\ Trains(p) => attempts[p] < MaxAttempts[p]
    /\ left' = [left EXCEPT ![p] = Retries[p]]
    /\ Begin(p)

\* The Job's backoffLimit: another pod.
Retry(p) ==
    /\ phase[p] = "failed" /\ left[p] > 0
    /\ left' = [left EXCEPT ![p] = @ - 1]
    /\ Begin(p)

\* The command returns 0, and the next one starts.
EndCommand(p) ==
    /\ IF step[p] < Len(Commands[p])
          THEN /\ Exit(p)
               /\ step' = [step EXCEPT ![p] = @ + 1]
               /\ phase' = [phase EXCEPT ![p] = FirstPhase(Commands[p][step[p] + 1])]
               /\ UNCHANGED <<version, evaluated>>
          ELSE Leave(p, "succeeded")
    /\ UNCHANGED <<inputs, control, misread>>

\* The command returns 1 or raises: the chain stops there.
Fail(p) ==
    /\ Leave(p, "failed")
    /\ UNCHANGED <<inputs, splits, registry, report, attempts, left>>

\* mem_limit, a full disk, MLflow unreachable: before or after any step.
Abort(p) ==
    /\ phase[p] \notin Ended /\ aborts < MaxAborts
    /\ aborts' = aborts + 1
    /\ Fail(p)
    /\ UNCHANGED misread
-----------------------------------------------------------------------------
\* preprocess

\* Mutant: no random_state.
LoadRawAnySeed(p) ==
    /\ phase[p] = "load"
    /\ \/ /\ Trainable(raw)
          /\ \E s \in Seed : held' = [held EXCEPT ![p] = StratifiedSplit(raw, s)]
          /\ phase' = [phase EXCEPT ![p] = "truncate"]
          /\ UNCHANGED <<inputs, splits, registry, step, file, mixed, runs, best,
                         outcome, control, misread>>
       \/ /\ ~Trainable(raw)
          /\ Fail(p) /\ UNCHANGED <<aborts, misread>>

\* Mutant: nothing to do when the files are there.
LoadRawUnlessPresent(p) ==
    /\ phase[p] = "load"
    /\ \/ /\ \E part \in Part : splits[DirOf[p]][part] = Absent
          /\ Trainable(raw)
          /\ held' = [held EXCEPT ![p] = StratifiedSplit(raw, RandomState)]
          /\ phase' = [phase EXCEPT ![p] = "truncate"]
          /\ UNCHANGED <<inputs, splits, registry, step, file, mixed, runs, best,
                         outcome, control, misread>>
       \/ /\ \A part \in Part : splits[DirOf[p]][part] # Absent
          /\ EndCommand(p) /\ UNCHANGED <<splits, registry, report>>

\* load_paysim_csv, assert_trainable, preprocess and stratified_split.
LoadRaw(p) ==
    /\ phase[p] = "load"
    /\ \/ /\ Trainable(raw)
          /\ held' = [held EXCEPT ![p] = StratifiedSplit(raw, RandomState)]
          /\ phase' = [phase EXCEPT ![p] = "truncate"]
          /\ UNCHANGED <<inputs, splits, registry, step, file, mixed, runs, best, outcome,
                         control, misread>>
       \/ /\ ~Trainable(raw)
          /\ Fail(p) /\ UNCHANGED <<aborts, misread>>

Current(p) == File[file[p]]

\* Those who have the same file open.
Rivals(p) ==
    {q \in Pipelines \ {p} :
        DirOf[q] = DirOf[p] /\ phase[q] = "fill" /\ file[q] = file[p]}

Differ(p, q) == held[p][Current(p)] # held[q][Current(p)]

\* to_parquet opens the file, which empties it under whoever is writing it.
Truncate(p) ==
    /\ phase[p] = "truncate"
    /\ splits' = [splits EXCEPT ![DirOf[p]][Current(p)] = Torn]
    /\ mixed' = [q \in Pipelines |->
                    IF q = p THEN \E r \in Rivals(p) : Differ(p, r)
                             ELSE mixed[q] \/ (q \in Rivals(p) /\ Differ(p, q))]
    /\ phase' = [phase EXCEPT ![p] = "fill"]
    /\ UNCHANGED <<inputs, registry, step, file, held, runs, best, outcome, control,
                   misread>>

\* ... and closes it.  Two writers of the same frame write the same bytes, and the
\* one that closes last leaves them whole.
Fill(p) ==
    /\ phase[p] = "fill"
    /\ \E content \in {held[p][Current(p)]} \union
                      (IF mixed[p] \/ Rivals(p) # {} THEN {Torn} ELSE {}) :
          splits' = [splits EXCEPT ![DirOf[p]][Current(p)] = content]
    /\ IF file[p] < 3
          THEN /\ file' = [file EXCEPT ![p] = @ + 1]
               /\ mixed' = [mixed EXCEPT ![p] = FALSE]
               /\ phase' = [phase EXCEPT ![p] = "truncate"]
               /\ UNCHANGED <<inputs, step, held, runs, best, version, evaluated,
                              control, misread>>
          ELSE EndCommand(p)
    /\ UNCHANGED <<registry, report>>
-----------------------------------------------------------------------------
\* load_dataset, of train and evaluate

\* Missing, not a parquet file, or no column for a type that train.parquet has.
Readable(p, frame) ==
    /\ frame \notin {Absent, Torn}
    /\ file[p] = 3 =>
          /\ held[p]["train"].columns \subseteq held[p]["validation"].columns
          /\ held[p]["train"].columns \subseteq frame.columns

\* Mutant: waits for a file it cannot use.
ReadSplitWaiting(p) ==
    LET frame == splits[DirOf[p]][Current(p)]
    IN /\ phase[p] = "read"
       /\ Readable(p, frame)
       /\ held' = [held EXCEPT ![p][Current(p)] = frame]
       /\ IF file[p] < 3
             THEN file' = [file EXCEPT ![p] = @ + 1] /\ UNCHANGED phase
             ELSE /\ phase' = [phase EXCEPT ![p] =
                                  IF Doing(p) = "train" THEN "fit" ELSE "resolve"]
                  /\ UNCHANGED file
       /\ UNCHANGED <<inputs, splits, registry, step, mixed, runs, best, outcome,
                      control, misread>>

ReadSplit(p) ==
    LET frame == splits[DirOf[p]][Current(p)]
    IN /\ phase[p] = "read"
       /\ \/ /\ Readable(p, frame)
             /\ held' = [held EXCEPT ![p][Current(p)] = frame]
             /\ IF file[p] < 3
                   THEN file' = [file EXCEPT ![p] = @ + 1] /\ UNCHANGED phase
                   ELSE /\ phase' = [phase EXCEPT ![p] =
                                        IF Doing(p) = "train" THEN "fit" ELSE "resolve"]
                        /\ UNCHANGED file
             /\ UNCHANGED <<inputs, splits, registry, step, mixed, runs, best, outcome,
                            control, misread>>
          \/ /\ ~Readable(p, frame)
             /\ misread' = misread \union {p}
             /\ Fail(p) /\ UNCHANGED aborts
-----------------------------------------------------------------------------
\* train

\* One candidate: start_run, fit, metrics, log_dict(feature_names.json).
Fit(p) ==
    /\ phase[p] = "fit"
    /\ runs' = [runs EXCEPT ![p] = Append(@,
                  [frames |-> held[p], names |-> held[p]["train"].columns,
                   model |-> FALSE, by |-> p])]
    /\ phase' = [phase EXCEPT ![p] = "log"]
    /\ UNCHANGED <<inputs, splits, registry, step, file, held, mixed, best, outcome,
                   control, misread>>

\* Mutant: log_model after the first candidate only.
LogModelOfFirst(p) ==
    /\ phase[p] = "log"
    /\ runs' = [runs EXCEPT ![p][1].model = TRUE]
    /\ phase' = [phase EXCEPT ![p] = IF Len(runs[p]) < NumSpecs THEN "fit" ELSE "register"]
    /\ UNCHANGED <<inputs, splits, registry, step, file, held, mixed, best, outcome,
                   control, misread>>

\* Mutant: log_model(..., registered_model_name=...).
LogAndRegisterModel(p) ==
    /\ phase[p] = "log"
    /\ runs' = [runs EXCEPT ![p][Len(runs[p])].model = TRUE]
    /\ registry' = Append(registry, [runs[p][Len(runs[p])] EXCEPT !.model = TRUE])
    /\ phase' = [phase EXCEPT ![p] = IF Len(runs[p]) < NumSpecs THEN "fit" ELSE "register"]
    /\ UNCHANGED <<inputs, splits, step, file, held, mixed, best, outcome, control, misread>>

\* log_model, the last thing a run does.
LogModel(p) ==
    /\ phase[p] = "log"
    /\ runs' = [runs EXCEPT ![p][Len(runs[p])].model = TRUE]
    /\ phase' = [phase EXCEPT ![p] = IF Len(runs[p]) < NumSpecs THEN "fit" ELSE "register"]
    /\ UNCHANGED <<inputs, splits, registry, step, file, held, mixed, best, outcome,
                   control, misread>>

\* The version is the next number; the best by validation score may be any.
RegisterBest(p) ==
    /\ phase[p] = "register"
    /\ \E i \in 1..Len(runs[p]) :
          /\ best' = [best EXCEPT ![p] = i]
          /\ registry' = Append(registry, runs[p][i])
    /\ version' = [version EXCEPT ![p] = Len(registry) + 1]
    /\ phase' = [phase EXCEPT ![p] = "report"]
    /\ UNCHANGED <<inputs, splits, step, file, held, mixed, runs, evaluated, report,
                   control, misread>>

\* render_model_report: a version, and the run it says is the best.
ModelReport(p, v) == [version |-> v, best |-> runs[p][best[p]]]

\* Mutant: the report looks the version up again.
WriteReportOfLatest(p) ==
    /\ phase[p] = "report"
    /\ report' = [report EXCEPT ![p] = {ModelReport(p, Len(registry))}]
    /\ EndCommand(p)
    /\ UNCHANGED <<splits, registry>>

\* Mutant: the report names the version to come.
WriteReportOfNext(p) ==
    /\ phase[p] = "report"
    /\ report' = [report EXCEPT ![p] = {ModelReport(p, version[p] + 1)}]
    /\ EndCommand(p)
    /\ UNCHANGED <<splits, registry>>

\* plot_model_comparison and the report.
WriteReport(p) ==
    /\ phase[p] = "report"
    /\ report' = [report EXCEPT ![p] = {ModelReport(p, version[p])}]
    /\ EndCommand(p)
    /\ UNCHANGED <<splits, registry>>
-----------------------------------------------------------------------------
\* evaluate

\* Mutant: the first of search_model_versions.
SomeVersion == IF Len(registry) = 0 THEN 0 ELSE 1

LatestVersion == Len(registry)      \* max by int(version)

Resolve(p) ==
    /\ phase[p] = "resolve"
    /\ \/ /\ LatestVersion > 0
          /\ evaluated' = [evaluated EXCEPT ![p] = LatestVersion]
          /\ phase' = [phase EXCEPT ![p] = "score"]
          /\ UNCHANGED <<inputs, splits, registry, step, memory, version, report,
                         control, misread>>
       \/ LatestVersion = 0 /\ Fail(p) /\ UNCHANGED <<aborts, misread>>

\* load_model and predict: an estimator refuses columns it was not fitted with.
Scores(p) ==
    LET model == registry[evaluated[p]]
    IN model.model /\ model.frames["train"].columns = held[p]["train"].columns

Score(p) ==
    /\ phase[p] = "score"
    /\ \/ Scores(p) /\ EndCommand(p) /\ UNCHANGED <<splits, registry, report>>
       \/ ~Scores(p) /\ Fail(p) /\ UNCHANGED <<aborts, misread>>
-----------------------------------------------------------------------------
Step(p) ==
    \/ Retry(p) \/ LoadRaw(p) \/ Truncate(p) \/ Fill(p) \/ ReadSplit(p)
    \/ Fit(p) \/ LogModel(p) \/ RegisterBest(p) \/ WriteReport(p)
    \/ Resolve(p) \/ Score(p)

Next ==
    \/ \E c \in Csv : ReplaceRaw(c)
    \/ \E p \in Pipelines : Start(p) \/ Step(p) \/ Abort(p)

Spec ==
    /\ Init /\ [][Next]_vars
    /\ \A p \in Pipelines : WF_vars(Step(p))
    /\ \A p \in Scheduled : WF_vars(Start(p))
-----------------------------------------------------------------------------
\* Properties.

SelfContained(p) ==     \* reads only what it wrote itself
    /\ \A q \in Pipelines : DirOf[q] = DirOf[p] => q = p
    /\ Commands[p][1] = "preprocess"
OneCsv(frames) == \A a, b \in Part : frames[a].csv = frames[b].csv

\* Rows a model is tested or selected on are not rows it was fitted to, whichever runs of
\* preprocess its three files are from, as long as those saw one CSV: the fixed
\* random_state of stratified_split makes their splits the same.  What a
\* chain wrote to a directory of its own is of one CSV.
HeldOut ==
    /\ \A v \in DOMAIN registry :
          LET frames == registry[v].frames
          IN /\ OneCsv(frames) =>
                   \A a, b \in Part : a # b => frames[a].rows \cap frames[b].rows = {}
             /\ \A p \in Pipelines : registry[v].by = p /\ SelfContained(p) => OneCsv(frames)
    /\ \A p \in Pipelines :
          phase[p] = "score" =>
              LET fitted == registry[evaluated[p]].frames["train"]
              IN fitted.csv = held[p]["test"].csv =>
                     fitted.rows \cap held[p]["test"].rows = {}

\* What is in the registry can be loaded and served, whatever was killed on the way: its
\* run logged the model, feature_names.json is what the model was fitted with, in all
\* three splits, and fraud was among it.
RegisteredIsServable ==
    \A v \in DOMAIN registry :
        LET run == registry[v]
        IN /\ run.model
           /\ run.names = run.frames["train"].columns
           /\ \A part \in Part : run.names \subseteq run.frames[part].columns
           /\ run.frames["train"].rows \cap Fraud # {}

\* Commands that chain in a directory of their own can read what preprocess left there.
PrivateSplitsAreReadable ==
    \A p \in Pipelines : SelfContained(p) => p \notin misread

\* A retry registers again, but no attempt registers twice.
OneVersionPerAttempt ==
    \A p \in Pipelines :
        Cardinality({v \in DOMAIN registry : registry[v].by = p}) <= attempts[p]

\* evaluate does not score a version older than the one its chain registered.
EvaluatesNoOlder ==
    \A p \in Pipelines : phase[p] = "score" => evaluated[p] >= version[p]

\* The report of train names the version that holds the run it calls the best, whoever
\* registered in between.
ReportDescribesItsVersion ==
    \A p \in Pipelines :
        \A r \in report[p] : registry[r.version] = r.best /\ r.best.by = p

\* Whatever state the files are in, a chain of commands ends.
ChainsEnd == \A p \in Pipelines : phase[p] \notin Ended ~> phase[p] \in Ended

\* A file that killed or overlapping commands left torn is whole again after some later
\* run of a DAG, unless the raw CSV cannot be split.
TornSplitRepaired ==
    \A d \in {DirOf[p] : p \in Scheduled}, part \in Part :
        splits[d][part] = Torn
            ~> splits[d][part] # Torn \/ ~Trainable(raw)
=============================================================================
