-------------------------- MODULE InferenceService --------------------------
(***************************************************************************)
(* Serving: the MLflow registry, the API replicas that load a Production   *)
(* version once at start-up, the Kubernetes readiness probe, and           *)
(* POST /predict.                                                          *)
(***************************************************************************)
EXTENDS Naturals, Sequences, FiniteSets

CONSTANTS
    Replicas,       \* pods of the api Deployment
    Clients,        \* callers of POST /predict, each with one request
    Columns,        \* values of feature_names.json
    NoColumns,      \* a replica that has not read it
    NoAnswer,       \* a client without a score
    MaxVersions     \* bound: versions that are registered

Versions == 1 .. MaxVersions
Answer == [label : Versions, model : Versions, columns : Columns]

ASSUME ServiceAssumption ==
    /\ MaxVersions \in Nat
    /\ NoColumns \notin Columns
    /\ NoAnswer \notin Answer

VARIABLES
    registry,       \* the registered versions, in order: their run's columns, their stage
    replica,        \* what each replica's start-up has loaded, and how far it got
    rotation,       \* the replicas the Service sends requests to
    redis,          \* "up", "refusing" connections, or "silent" (packets are dropped)
    waiting,        \* per replica, the requests that reached it
    scoring,        \* per replica, the requests whose features were read
    status,         \* the HTTP status each client got
    answer,         \* the score each client got
    received,       \* per replica process, the /predict requests it got
    counted         \* ... and its prediction_requests_total, over all outcomes

requestVars == <<waiting, scoring, status, answer, received, counted>>
vars == <<registry, replica, rotation, redis, requestVars>>

Loading == {"starting", "resolved", "modelLoaded", "columnsLoaded"}
Serving(r) == replica[r].phase \in {"ready", "notReady"}

Version == [columns : Columns, stage : {"None", "Production"}]
Process == [phase : Loading \cup {"ready", "notReady"},
            label : 0 .. MaxVersions,           \* production.version
            model : 0 .. MaxVersions,           \* the version whose model was loaded
            columns : Columns \cup {NoColumns}]

TypeOK ==
    /\ registry \in Seq(Version)
    /\ Len(registry) <= MaxVersions
    /\ replica \in [Replicas -> Process]
    /\ rotation \in SUBSET Replicas
    /\ redis \in {"up", "refusing", "silent"}
    /\ waiting \in [Replicas -> SUBSET Clients]
    /\ scoring \in [Replicas -> SUBSET Clients]
    /\ status \in [Clients -> {"none", "sent", "200", "422", "500", "503", "reset"}]
    /\ answer \in [Clients -> Answer \cup {NoAnswer}]
    /\ received \in [Replicas -> Nat]
    /\ counted \in [Replicas -> Nat]

Booting ==
    [phase |-> "starting", label |-> 0, model |-> 0, columns |-> NoColumns]

Init ==
    /\ registry = <<>>
    /\ replica = [r \in Replicas |-> Booting]
    /\ rotation = {}
    /\ redis = "up"
    /\ waiting = [r \in Replicas |-> {}]
    /\ scoring = [r \in Replicas |-> {}]
    /\ status = [c \in Clients |-> "none"]
    /\ answer = [c \in Clients |-> NoAnswer]
    /\ received = [r \in Replicas |-> 0]
    /\ counted = [r \in Replicas |-> 0]

-----------------------------------------------------------------------------
(* The registry.                                                           *)

\* fraud-detection train registers its best run, and does not promote it.
Register(s) ==
    /\ Len(registry) < MaxVersions
    /\ registry' = Append(registry, [columns |-> s, stage |-> "None"])
    /\ UNCHANGED <<replica, rotation, redis, requestVars>>

\* A human moves version v to Production, as the README says: the versions that
\* are there already are not archived.
Promote(v) ==
    /\ registry' = [registry EXCEPT ![v].stage = "Production"]
    /\ UNCHANGED <<replica, rotation, redis, requestVars>>

InProduction == {v \in DOMAIN registry : registry[v].stage = "Production"}

\* Mutant: the highest registered version, promoted or not, as evaluate takes it.
LatestVersion == Len(registry)

\* Mutant: the lowest version of the stage.
OldestProductionVersion == CHOOSE v \in InProduction : \A w \in InProduction : v <= w

\* get_latest_versions(stages=["Production"])[0]: the highest version of the stage.
ProductionVersion == CHOOSE v \in InProduction : \A w \in InProduction : v >= w

-----------------------------------------------------------------------------
(* load_app_state, one dependency at a time.                               *)

Load(r, from, to) ==
    /\ replica[r].phase = from
    /\ replica' = [replica EXCEPT ![r] = to]
    /\ UNCHANGED <<registry, rotation, redis, requestVars>>

\* resolve_production_model: the one place that asks the registry for the stage.
Resolve(r) ==
    /\ InProduction # {}
    /\ Load(r, "starting", [replica[r] EXCEPT !.phase = "resolved", !.label = ProductionVersion])

\* Mutant: load_model("models:/name/Production"), which asks for the stage again.
LoadModelOfStage(r) ==
    Load(r, "resolved", [replica[r] EXCEPT !.phase = "modelLoaded", !.model = ProductionVersion])

\* load_model(production.uri), and the uri names the version.
LoadModel(r) ==
    Load(r, "resolved", [replica[r] EXCEPT !.phase = "modelLoaded", !.model = replica[r].label])

\* load_feature_names(production.run_id).
LoadFeatureNames(r) ==
    Load(r, "modelLoaded", [replica[r] EXCEPT !.phase = "columnsLoaded",
                                              !.columns = registry[replica[r].label].columns])

\* Mutant: ready before the columns are there.
ConnectFeastEarly(r) == Load(r, "modelLoaded", [replica[r] EXCEPT !.phase = "ready"])

\* FeastFeatureStore(...) and online_store_address(); Redis may well be down.
ConnectFeast(r) == Load(r, "columnsLoaded", [replica[r] EXCEPT !.phase = "ready"])

\* Any exception, no version in Production included: _NOT_READY_STATE, for good.
StartupFails(r) ==
    \E p \in Loading : Load(r, p, [Booting EXCEPT !.phase = "notReady"])

\* The process ends and a new one starts: a rollout, an eviction, an operator.
\* Its open connections are reset and its counters start over.
Restart(r) ==
    /\ replica' = [replica EXCEPT ![r] = Booting]
    /\ rotation' = rotation \ {r}
    /\ status' = [c \in Clients |->
                     IF c \in waiting[r] \cup scoring[r] THEN "reset" ELSE status[c]]
    /\ waiting' = [waiting EXCEPT ![r] = {}]
    /\ scoring' = [scoring EXCEPT ![r] = {}]
    /\ received' = [received EXCEPT ![r] = 0]
    /\ counted' = [counted EXCEPT ![r] = 0]
    /\ UNCHANGED <<registry, redis, answer>>

-----------------------------------------------------------------------------
(* Redis and the readiness probe.                                          *)

RedisChanges ==
    /\ redis' \in {"up", "refusing", "silent"} \ {redis}
    /\ UNCHANGED <<registry, replica, rotation, requestVars>>

\* redis_reachable's connect hangs: only a loaded replica probes Feast's Redis, the
\* _NOT_READY_STATE probes its own pod's localhost, which refuses at once.
ProbeHangs(r) == replica[r].phase = "ready" /\ redis = "silent"

\* GET /ready answers 200 whatever the body says, so the probe succeeds, unless
\* the route's one-second connect to a silent Redis outlasts the kubelet's second.
ReadinessProbe(r) ==
    /\ Serving(r)
    /\ \/ rotation' = rotation \cup {r}
       \/ ProbeHangs(r) /\ rotation' = rotation \ {r}
    /\ UNCHANGED <<registry, replica, redis, requestVars>>

-----------------------------------------------------------------------------
(* POST /predict.                                                          *)

\* The Service hands the client's request to a replica.
Route(c, r) ==
    /\ status[c] = "none" /\ r \in rotation
    /\ status' = [status EXCEPT ![c] = "sent"]
    /\ waiting' = [waiting EXCEPT ![r] = @ \cup {c}]
    /\ received' = [received EXCEPT ![r] = @ + 1]
    /\ UNCHANGED <<registry, replica, rotation, redis, scoring, answer, counted>>

\* The response s to a request of stage `from`, and how many outcomes it counts.
Respond(c, r, s, n) ==
    /\ status' = [status EXCEPT ![c] = s]
    /\ waiting' = [waiting EXCEPT ![r] = @ \ {c}]
    /\ scoring' = [scoring EXCEPT ![r] = @ \ {c}]
    /\ counted' = [counted EXCEPT ![r] = @ + n]
    /\ UNCHANGED <<registry, replica, rotation, redis, received>>

\* get_prediction_service raises before the handler runs.
RejectNotReady(c, r) ==
    /\ c \in waiting[r] /\ replica[r].phase = "notReady"
    /\ Respond(c, r, "503", 0)
    /\ UNCHANGED answer

\* A body TransactionRequest does not accept never reaches the handler, and one it
\* accepts has all that transaction_from_dict asks for: the handler's own 422, the
\* one that counts an invalid_request, is dead code behind this one.
RejectInvalid(c, r) ==
    /\ c \in waiting[r]
    /\ Respond(c, r, "422", 0)
    /\ UNCHANGED answer

\* Mutant: the handler counts a request when it has its features, too.
ReadFeaturesCounting(c, r) ==
    /\ c \in waiting[r] /\ replica[r].phase = "ready" /\ redis = "up"
    /\ waiting' = [waiting EXCEPT ![r] = @ \ {c}]
    /\ scoring' = [scoring EXCEPT ![r] = @ \cup {c}]
    /\ counted' = [counted EXCEPT ![r] = @ + 1]
    /\ UNCHANGED <<registry, replica, rotation, redis, status, answer, received>>

\* read_online returns features.
ReadFeatures(c, r) ==
    /\ c \in waiting[r] /\ replica[r].phase = "ready" /\ redis = "up"
    /\ waiting' = [waiting EXCEPT ![r] = @ \ {c}]
    /\ scoring' = [scoring EXCEPT ![r] = @ \cup {c}]
    /\ UNCHANGED <<registry, replica, rotation, redis, status, answer, received, counted>>

\* read_online raises FeatureStoreError: no entry, or a RedisError.
FeaturesUnavailable(c, r) ==
    /\ c \in waiting[r] /\ replica[r].phase = "ready"
    /\ Respond(c, r, "503", 1)
    /\ UNCHANGED answer

\* Any other exception of Feast or of the model leaves the handler as a 500.
HandlerFails(c, r) ==
    /\ c \in waiting[r] \cup scoring[r] /\ replica[r].phase = "ready"
    /\ Respond(c, r, "500", 0)
    /\ UNCHANGED answer

\* Score the row in the replica's columns, with its model, under its label.
Predict(c, r) ==
    /\ c \in scoring[r]
    /\ answer' = [answer EXCEPT ![c] = [label |-> replica[r].label, model |-> replica[r].model,
                                        columns |-> replica[r].columns]]
    /\ Respond(c, r, "200", 1)

-----------------------------------------------------------------------------

Startup(r) ==
    Resolve(r) \/ LoadModel(r) \/ LoadFeatureNames(r) \/ ConnectFeast(r) \/ StartupFails(r)

Handle(c, r) ==
    \/ RejectNotReady(c, r) \/ RejectInvalid(c, r) \/ ReadFeatures(c, r)
    \/ FeaturesUnavailable(c, r) \/ HandlerFails(c, r) \/ Predict(c, r)

Next ==
    \/ \E s \in Columns : Register(s)
    \/ \E v \in DOMAIN registry : Promote(v)
    \/ RedisChanges
    \/ \E r \in Replicas : Startup(r) \/ Restart(r) \/ ReadinessProbe(r)
    \/ \E c \in Clients, r \in Replicas : Route(c, r) \/ Handle(c, r)

Spec == Init /\ [][Next]_vars

-----------------------------------------------------------------------------
(* Properties.                                                             *)

\* The label a replica answers with, the model it scores with and the columns it
\* orders its rows by come from one version, whatever was registered or promoted
\* while its start-up was loading them (load_feature_names: "or the model silently
\* scores garbage").
LoadedAsOne ==
    \A r \in Replicas :
        replica[r].phase = "ready" =>
            /\ replica[r].label \in InProduction
            /\ replica[r].model = replica[r].label
            /\ replica[r].columns = registry[replica[r].label].columns

\* A start-up never resolves a version older than one that some replica holds or that
\* some client has a score of, over restarts of all of them.  A rollout by promotion so
\* goes one way: promoting a newer version and restarting serves it, promoting an older
\* one changes nothing (get_latest_versions gives the highest version of the stage).
RestartNeverGoesBack ==
    [][\A r \in Replicas :
          Resolve(r) =>
              /\ \A q \in Replicas : replica[q].label <= replica'[r].label
              /\ \A c \in Clients :
                    answer[c] # NoAnswer => answer[c].label <= replica'[r].label]_vars

\* Every score is one the gate of ServingGate lets through, although a replica
\* outlives the registry state it read and requests outlive replicas.
Gate == INSTANCE ServingGate WITH
    columnsOf <- [v \in DOMAIN registry |-> registry[v].columns],
    production <- InProduction
GateSpec == Gate!Spec

\* ADR-0007: /ready and /health are "the standard liveness/readiness split", by
\* which Kubernetes sends requests to the replicas that are ready, and to no other.
RotationMeansLoaded == \A r \in rotation : replica[r].phase = "ready"

\* prediction_requests_total counts an outcome, not an arrival, and each at most once:
\* it stays behind the requests a replica got by those it still has in hand, also over
\* restarts, where both begin again.  (How far behind is not bounded: see Respond.)
CountsOnce ==
    \A r \in Replicas : counted[r] + Cardinality(waiting[r] \cup scoring[r]) <= received[r]

=============================================================================
