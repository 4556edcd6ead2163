---------------------- MODULE InferenceService_proofs -----------------------
(***************************************************************************)
(* Proofs about serving, for any number of replicas, clients, column lists *)
(* and versions.                                                           *)
(***************************************************************************)
EXTENDS InferenceService, TLAPS, WellFoundedInduction, FiniteSetTheorems

\* A non-empty set of numbers below a bound has a greatest element.
LEMMA Greatest ==
    ASSUME NEW n \in Nat, NEW S \in SUBSET (1 .. n), S # {}
    PROVE  \E v \in S : \A w \in S : v >= w
<1> DEFINE Below == {d \in Nat : \E v \in S : d = n - v}
<1>1. Below \subseteq Nat /\ Below # {}
  <2>1. PICK v \in S : TRUE
    OBVIOUS
  <2>2. n - v \in Below
    BY <2>1
  <2> QED  BY <2>2
<1>2. PICK d \in Below : \A e \in Below : ~ (<<e, d>> \in OpToRel(<, Nat))
  BY <1>1, NatLessThanWellFounded, WFMin
<1>3. \A e \in Below : ~ (e < d)
  BY <1>1, <1>2 DEF OpToRel
<1>4. PICK v \in S : d = n - v
  BY <1>2
<1> QED
  BY <1>3, <1>4

\* What resolve_production_model returns: a version in Production, and the highest
\* of those.
LEMMA ProductionVersionProperties ==
    ASSUME TypeOK, InProduction # {}
    PROVE  /\ ProductionVersion \in InProduction
           /\ ProductionVersion \in 1 .. Len(registry)
           /\ \A v \in InProduction : ProductionVersion >= v
<1>1. Len(registry) \in Nat /\ InProduction \subseteq 1 .. Len(registry)
  BY DEF TypeOK, InProduction
<1>2. \E v \in InProduction : \A w \in InProduction : v >= w
  BY <1>1, Greatest
<1> QED
  BY <1>1, <1>2 DEF ProductionVersion

-----------------------------------------------------------------------------
(* The inductive invariant: how far a start-up has got determines what it  *)
(* has loaded, and a request in hand is unanswered and in one place.       *)

Resolved == {"resolved", "modelLoaded", "columnsLoaded", "ready"}

StartupOnTrack ==
    \A r \in Replicas :
        /\ replica[r].phase \in Resolved => replica[r].label \in InProduction
        /\ replica[r].phase \notin Resolved => replica[r].label = 0
        /\ replica[r].phase \in {"modelLoaded", "columnsLoaded", "ready"} =>
               replica[r].model = replica[r].label
        /\ replica[r].phase \in {"columnsLoaded", "ready"} =>
               replica[r].columns = registry[replica[r].label].columns

InHand(r) == waiting[r] \cup scoring[r]

RequestsOnTrack ==
    /\ \A r \in Replicas : scoring[r] # {} => replica[r].phase = "ready"
    /\ \A r \in Replicas : \A c \in InHand(r) : status[c] = "sent"
    /\ \A c \in Clients : status[c] \in {"none", "sent"} => answer[c] = NoAnswer
    /\ \A r, q \in Replicas : InHand(r) \cap InHand(q) # {} => r = q

IInv == TypeOK /\ StartupOnTrack /\ RequestsOnTrack

LEMMA InitIInv == Init => IInv
<1> SUFFICES ASSUME Init PROVE IInv
  OBVIOUS
<1>1. TypeOK
  <2>1. Booting \in Process /\ registry \in Seq(Version) /\ Len(registry) = 0
    BY ServiceAssumption DEF Init, Booting, Process, Loading
  <2> QED  BY <2>1, ServiceAssumption DEF Init, TypeOK
<1>2. StartupOnTrack /\ RequestsOnTrack
  BY DEF Init, StartupOnTrack, RequestsOnTrack, Booting, Resolved, InHand
<1> QED  BY <1>1, <1>2 DEF IInv

\* What a replica answers a request with whose features it has read.
ScoreOf(r) ==
    [label |-> replica[r].label, model |-> replica[r].model, columns |-> replica[r].columns]

LEMMA ScoreIsAnAnswer ==
    ASSUME TypeOK, StartupOnTrack, NEW r \in Replicas, replica[r].phase = "ready"
    PROVE  ScoreOf(r) \in Answer
<1>1. replica[r].label \in InProduction
  BY DEF StartupOnTrack, Resolved
<1>2. /\ replica[r].label \in 1 .. Len(registry)
      /\ replica[r].model = replica[r].label
      /\ replica[r].columns = registry[replica[r].label].columns
  BY <1>1 DEF StartupOnTrack, Resolved, InProduction, TypeOK
<1>3. registry[replica[r].label] \in Version /\ replica[r].label \in Versions
  BY <1>2, ServiceAssumption DEF TypeOK, Versions
<1> QED  BY <1>2, <1>3 DEF Answer, Version, ScoreOf

\* Type correctness is preserved, given what start-ups have loaded.
LEMMA TypeStep == ASSUME IInv, [Next]_vars PROVE TypeOK'
<1> USE DEF vars, requestVars
<1>0. TypeOK /\ StartupOnTrack /\ RequestsOnTrack /\ MaxVersions \in Nat /\ NoAnswer \notin Answer
  BY ServiceAssumption DEF IInv
<1>1. ASSUME NEW s \in Columns, Register(s) PROVE TypeOK'
  <2>1. /\ registry' \in Seq(Version)
        /\ Len(registry') = Len(registry) + 1 /\ Len(registry) \in Nat
        /\ Len(registry') <= MaxVersions
    <3>1. [columns |-> s, stage |-> "None"] \in Version
      BY DEF Version
    <3> QED  BY <1>0, <1>1, <3>1 DEF Register, TypeOK
  <2> QED  BY <1>0, <1>1, <2>1 DEF Register, TypeOK
<1>2. ASSUME NEW v \in DOMAIN registry, Promote(v) PROVE TypeOK'
  <2>1. /\ registry' \in Seq(Version)
        /\ Len(registry') = Len(registry)
    <3>1. [registry[v] EXCEPT !.stage = "Production"] \in Version
      <4>1. registry[v] \in Version
        BY <1>0, <1>2 DEF TypeOK
      <4> QED  BY <4>1 DEF Version
    <3> QED  BY <1>0, <1>2, <3>1 DEF Promote, TypeOK
  <2> QED  BY <1>0, <1>2, <2>1 DEF Promote, TypeOK
<1>3. CASE RedisChanges
  BY <1>0, <1>3 DEF RedisChanges, TypeOK
<1>4. ASSUME NEW r \in Replicas, Startup(r) PROVE TypeOK'
  <2>0. replica[r] \in Process
    BY <1>0 DEF TypeOK
  <2>1. CASE Resolve(r)
    <3>1. ProductionVersion \in 0 .. MaxVersions
      BY <1>0, <2>1, ProductionVersionProperties DEF Resolve, TypeOK
    <3>2. [replica[r] EXCEPT !.phase = "resolved", !.label = ProductionVersion] \in Process
      BY <2>0, <3>1 DEF Process, Loading
    <3> QED  BY <1>0, <2>1, <3>2 DEF Resolve, Load, TypeOK
  <2>2. CASE LoadModel(r)
    <3>1. [replica[r] EXCEPT !.phase = "modelLoaded", !.model = replica[r].label] \in Process
      BY <2>0 DEF Process, Loading
    <3> QED  BY <1>0, <2>2, <3>1 DEF LoadModel, Load, TypeOK
  <2>3. CASE LoadFeatureNames(r)
    <3>1. replica[r].label \in DOMAIN registry
      BY <1>0, <2>3 DEF LoadFeatureNames, Load, StartupOnTrack, Resolved, InProduction
    <3>2. registry[replica[r].label].columns \in Columns
      <4>1. registry[replica[r].label] \in Version
        BY <1>0, <3>1 DEF TypeOK
      <4> QED  BY <4>1 DEF Version
    <3>3. [replica[r] EXCEPT !.phase = "columnsLoaded",
                             !.columns = registry[replica[r].label].columns] \in Process
      BY <2>0, <3>2 DEF Process, Loading
    <3> QED  BY <1>0, <2>3, <3>3 DEF LoadFeatureNames, Load, TypeOK
  <2>4. CASE ConnectFeast(r)
    <3>1. [replica[r] EXCEPT !.phase = "ready"] \in Process
      BY <2>0 DEF Process
    <3> QED  BY <1>0, <2>4, <3>1 DEF ConnectFeast, Load, TypeOK
  <2>5. CASE StartupFails(r)
    <3>1. [Booting EXCEPT !.phase = "notReady"] \in Process
      BY <1>0 DEF Process, Booting, Loading
    <3> QED  BY <1>0, <2>5, <3>1 DEF StartupFails, Load, TypeOK
  <2> QED  BY <1>4, <2>1, <2>2, <2>3, <2>4, <2>5 DEF Startup
<1>5. ASSUME NEW r \in Replicas, Restart(r) PROVE TypeOK'
  <2>1. Booting \in Process
    BY <1>0 DEF Process, Booting, Loading
  <2> QED  BY <1>0, <1>5, <2>1 DEF Restart, TypeOK
<1>6. ASSUME NEW r \in Replicas, ReadinessProbe(r) PROVE TypeOK'
  BY <1>0, <1>6 DEF ReadinessProbe, TypeOK
<1>8. ASSUME NEW c \in Clients, NEW r \in Replicas, Route(c, r) PROVE TypeOK'
  BY <1>0, <1>8 DEF Route, TypeOK
<1>9. ASSUME NEW c \in Clients, NEW r \in Replicas, Handle(c, r) PROVE TypeOK'
  <2> USE DEF Respond
  <2>1. CASE RejectNotReady(c, r)
    BY <1>0, <2>1 DEF RejectNotReady, TypeOK
  <2>2. CASE RejectInvalid(c, r)
    BY <1>0, <2>2 DEF RejectInvalid, TypeOK
  <2>3. CASE ReadFeatures(c, r)
    BY <1>0, <2>3 DEF ReadFeatures, TypeOK
  <2>4. CASE FeaturesUnavailable(c, r)
    BY <1>0, <2>4 DEF FeaturesUnavailable, TypeOK
  <2>5. CASE HandlerFails(c, r)
    BY <1>0, <2>5 DEF HandlerFails, TypeOK
  <2>6. CASE Predict(c, r)
    <3>1. ScoreOf(r) \in Answer
      BY <1>0, <2>6, ScoreIsAnAnswer DEF Predict, RequestsOnTrack
    <3> QED  BY <1>0, <2>6, <3>1 DEF Predict, ScoreOf, TypeOK
  <2> QED  BY <1>9, <2>1, <2>2, <2>3, <2>4, <2>5, <2>6 DEF Handle
<1>10. CASE UNCHANGED vars
  BY <1>0, <1>10 DEF TypeOK
<1> QED
  BY <1>1, <1>2, <1>3, <1>4, <1>5, <1>6, <1>8, <1>9, <1>10 DEF Next

\* Versions are numbered in order and stay in Production once they are there: what
\* a replica has loaded stays what its label names.
LEMMA StartupStep == ASSUME IInv, [Next]_vars PROVE StartupOnTrack'
<1> USE DEF vars, requestVars
<1>0. TypeOK /\ StartupOnTrack
  BY DEF IInv
<1>1. ASSUME NEW s \in Columns, Register(s) PROVE StartupOnTrack'
  <2>1. /\ Len(registry) \in Nat
        /\ Len(registry') = Len(registry) + 1
        /\ \A v \in 1 .. Len(registry) : registry'[v] = registry[v]
        /\ registry'[Len(registry) + 1].stage = "None"
    BY <1>0, <1>1 DEF Register, TypeOK
  <2>2. /\ InProduction \subseteq 1 .. Len(registry)
        /\ InProduction' = InProduction
    BY <1>0, <1>1, <2>1 DEF InProduction, Register, TypeOK
  <2> QED  BY <1>0, <1>1, <2>1, <2>2 DEF Register, StartupOnTrack, Resolved
<1>2. ASSUME NEW v \in DOMAIN registry, Promote(v) PROVE StartupOnTrack'
  <2>1. /\ DOMAIN registry' = DOMAIN registry
        /\ \A w \in DOMAIN registry :
              /\ registry'[w].columns = registry[w].columns
              /\ registry'[w].stage = (IF w = v THEN "Production" ELSE registry[w].stage)
    <3>1. \A w \in DOMAIN registry : registry[w] \in Version
      BY <1>0 DEF TypeOK
    <3> QED  BY <1>0, <1>2, <3>1 DEF Promote, TypeOK, Version
  <2>2. InProduction' = InProduction \cup {v}
    BY <1>2, <2>1 DEF InProduction
  <2>3. InProduction \subseteq DOMAIN registry
    BY DEF InProduction
  <2> QED  BY <1>0, <1>2, <2>1, <2>2, <2>3 DEF Promote, StartupOnTrack, Resolved
<1>3. ASSUME NEW r \in Replicas, Startup(r) \/ Restart(r) PROVE StartupOnTrack'
  <2>0. replica[r] \in Process /\ replica \in [Replicas -> Process]
    BY <1>0 DEF TypeOK
  <2>1. CASE Resolve(r)
    <3>1. ProductionVersion \in InProduction
      BY <1>0, <2>1, ProductionVersionProperties DEF Resolve
    <3> QED  BY <1>0, <2>0, <2>1, <3>1 DEF Resolve, Load, StartupOnTrack, InProduction, Process, Resolved
  <2>2. CASE LoadModel(r)
    BY <1>0, <2>0, <2>2 DEF LoadModel, Load, StartupOnTrack, InProduction, Process, Resolved
  <2>3. CASE LoadFeatureNames(r)
    BY <1>0, <2>0, <2>3 DEF LoadFeatureNames, Load, StartupOnTrack, InProduction, Process, Resolved
  <2>4. CASE ConnectFeast(r)
    BY <1>0, <2>0, <2>4 DEF ConnectFeast, Load, StartupOnTrack, InProduction, Process, Resolved
  <2>5. CASE StartupFails(r)
    BY <1>0, <2>0, <2>5 DEF StartupFails, Load, Booting, StartupOnTrack, InProduction, Resolved
  <2>6. CASE Restart(r)
    BY <1>0, <2>0, <2>6 DEF Restart, Booting, StartupOnTrack, InProduction, Resolved
  <2> QED  BY <1>3, <2>1, <2>2, <2>3, <2>4, <2>5, <2>6 DEF Startup
<1>4. CASE UNCHANGED <<registry, replica>>
  BY <1>0, <1>4 DEF StartupOnTrack, InProduction
<1>5. ASSUME NEW r \in Replicas, ReadinessProbe(r)
      PROVE  UNCHANGED <<registry, replica>>
  BY <1>5 DEF ReadinessProbe
<1>6. ASSUME NEW c \in Clients, NEW r \in Replicas, Route(c, r) \/ Handle(c, r)
      PROVE  UNCHANGED <<registry, replica>>
  BY <1>6 DEF Route, Handle, RejectNotReady, RejectInvalid, ReadFeatures, FeaturesUnavailable,
              HandlerFails, Predict, Respond
<1>7. CASE RedisChanges
  BY <1>4, <1>7 DEF RedisChanges
<1> QED
  BY <1>1, <1>2, <1>3, <1>4, <1>5, <1>6, <1>7 DEF Next

\* A request in hand is unanswered and in the hand of one replica, whatever restarts.
LEMMA RequestStep == ASSUME IInv, [Next]_vars PROVE RequestsOnTrack'
<1> USE DEF vars, requestVars
<1>0. TypeOK /\ RequestsOnTrack
  BY DEF IInv
<1>1. CASE UNCHANGED <<replica, waiting, scoring, status, answer>>
  BY <1>0, <1>1 DEF RequestsOnTrack, InHand
<1>2. ASSUME NEW r \in Replicas, Startup(r) PROVE RequestsOnTrack'
  <2>1. /\ replica[r].phase # "ready"
        /\ \A q \in Replicas : q # r => replica'[q] = replica[q]
        /\ UNCHANGED <<waiting, scoring, status, answer>>
    BY <1>0, <1>2 DEF Startup, Resolve, LoadModel, LoadFeatureNames, ConnectFeast, StartupFails,
                      Load, Loading, TypeOK
  <2> QED  BY <1>0, <2>1 DEF RequestsOnTrack, InHand
<1>3. ASSUME NEW r \in Replicas, Restart(r) PROVE RequestsOnTrack'
  <2>1. /\ \A q \in Replicas : q # r => /\ replica'[q] = replica[q]
                                     /\ waiting'[q] = waiting[q]
                                     /\ scoring'[q] = scoring[q]
        /\ waiting'[r] = {} /\ scoring'[r] = {}
        /\ \A c \in Clients : status'[c] = IF c \in InHand(r) THEN "reset" ELSE status[c]
        /\ answer' = answer
    BY <1>0, <1>3 DEF Restart, TypeOK, InHand
  <2>2. \A q \in Replicas : InHand(q) \subseteq Clients
    BY <1>0 DEF TypeOK, InHand
  <2> QED  BY <1>0, <2>1, <2>2 DEF RequestsOnTrack, InHand
<1>4. ASSUME NEW c \in Clients, NEW r \in Replicas, Route(c, r) PROVE RequestsOnTrack'
  BY <1>0, <1>4 DEF Route, RequestsOnTrack, InHand, TypeOK
<1>5. ASSUME NEW c \in Clients, NEW r \in Replicas, ReadFeatures(c, r) PROVE RequestsOnTrack'
  BY <1>0, <1>5 DEF ReadFeatures, RequestsOnTrack, InHand, TypeOK
<1>6. ASSUME NEW c \in Clients, NEW r \in Replicas, NEW s, NEW n, c \in InHand(r),
             Respond(c, r, s, n), s \notin {"none", "sent"},
             \A d \in Clients \ {c} : answer'[d] = answer[d]
      PROVE  RequestsOnTrack'
  <2>1. /\ replica' = replica
        /\ \A q \in Replicas : waiting'[q] = (IF q = r THEN waiting[q] \ {c} ELSE waiting[q])
        /\ \A q \in Replicas : scoring'[q] = (IF q = r THEN scoring[q] \ {c} ELSE scoring[q])
        /\ \A d \in Clients : status'[d] = (IF d = c THEN s ELSE status[d])
    BY <1>0, <1>6 DEF Respond, TypeOK
  <2>2. \A q \in Replicas : c \notin InHand(q)'
    BY <1>0, <1>6, <2>1 DEF RequestsOnTrack, InHand
  <2>3. \A q \in Replicas : InHand(q)' \subseteq InHand(q) /\ InHand(q) \subseteq Clients
    BY <1>0, <2>1 DEF InHand, TypeOK
  <2>4. \A q \in Replicas : scoring'[q] # {} => replica'[q].phase = "ready"
    BY <1>0, <2>1 DEF RequestsOnTrack
  <2>5. \A q \in Replicas : \A d \in InHand(q)' : status'[d] = "sent"
    BY <1>0, <2>1, <2>2, <2>3 DEF RequestsOnTrack
  <2>6. \A d \in Clients : status'[d] \in {"none", "sent"} => answer'[d] = NoAnswer
    BY <1>0, <1>6, <2>1 DEF RequestsOnTrack
  <2>7. \A p, q \in Replicas : InHand(p)' \cap InHand(q)' # {} => p = q
    BY <1>0, <2>3 DEF RequestsOnTrack
  <2> QED  BY <2>4, <2>5, <2>6, <2>7 DEF RequestsOnTrack
<1>7. ASSUME NEW c \in Clients, NEW r \in Replicas, Handle(c, r) PROVE RequestsOnTrack'
  <2>1. CASE RejectNotReady(c, r)
    BY <1>6, <2>1 DEF RejectNotReady, InHand
  <2>2. CASE RejectInvalid(c, r)
    BY <1>6, <2>2 DEF RejectInvalid, InHand
  <2>3. CASE ReadFeatures(c, r)
    BY <1>5, <2>3
  <2>4. CASE FeaturesUnavailable(c, r)
    BY <1>6, <2>4 DEF FeaturesUnavailable, InHand
  <2>5. CASE HandlerFails(c, r)
    BY <1>6, <2>5 DEF HandlerFails, InHand
  <2>6. CASE Predict(c, r)
    <3>1. \A d \in Clients \ {c} : answer'[d] = answer[d]
      BY <1>0, <2>6 DEF Predict, TypeOK
    <3> QED  BY <1>6, <2>6, <3>1 DEF Predict, InHand
  <2> QED  BY <1>7, <2>1, <2>2, <2>3, <2>4, <2>5, <2>6 DEF Handle
<1> QED
  BY <1>1, <1>2, <1>3, <1>4, <1>7
  DEF Next, Register, Promote, RedisChanges, ReadinessProbe

-----------------------------------------------------------------------------

LEMMA Invariance == Spec => []IInv
<1>1. IInv /\ [Next]_vars => IInv'
  BY TypeStep, StartupStep, RequestStep DEF IInv
<1> QED  BY InitIInv, <1>1, PTL DEF Spec

\* Type correctness, which needs the invariant: a replica that lacked its columns
\* could not score (api/app.py, api/prediction_service.py).
THEOREM ServiceTypeCorrect == Spec => []TypeOK
<1>1. IInv => TypeOK
  BY DEF IInv
<1> QED  BY Invariance, <1>1, PTL

\* A ready replica's label, model and columns are one promoted version's
\* (app.load_app_state, model_registry.load_feature_names).
THEOREM LoadsAsOne == Spec => []LoadedAsOne
<1>1. IInv => LoadedAsOne
  BY DEF IInv, StartupOnTrack, Resolved, LoadedAsOne
<1> QED  BY Invariance, <1>1, PTL

\* What the counter's property rests on: a request in hand is one of finitely many.
CountersOnTrack ==
    \A r \in Replicas :
        /\ IsFiniteSet(InHand(r))
        /\ counted[r] + Cardinality(InHand(r)) <= received[r]

LEMMA CounterStep ==
    ASSUME TypeOK, CountersOnTrack, [Next]_vars PROVE CountersOnTrack'
<1> USE DEF vars, requestVars
<1>t. /\ counted \in [Replicas -> Nat] /\ received \in [Replicas -> Nat]
      /\ waiting \in [Replicas -> SUBSET Clients] /\ scoring \in [Replicas -> SUBSET Clients]
  BY DEF TypeOK
<1>f. \A q \in Replicas : Cardinality(InHand(q)) \in Nat
  BY FS_CardinalityType DEF CountersOnTrack
<1>1. CASE UNCHANGED <<waiting, scoring, received, counted>>
  BY <1>1 DEF CountersOnTrack, InHand
<1>2. ASSUME NEW r \in Replicas, Restart(r) PROVE CountersOnTrack'
  <2>1. InHand(r)' = {} /\ counted'[r] = 0 /\ received'[r] = 0
    BY <1>t, <1>2 DEF Restart, InHand
  <2>2. \A q \in Replicas \ {r} :
            InHand(q)' = InHand(q) /\ counted'[q] = counted[q] /\ received'[q] = received[q]
    BY <1>t, <1>2 DEF Restart, InHand
  <2> QED  BY <2>1, <2>2, FS_EmptySet DEF CountersOnTrack
<1>3. ASSUME NEW c \in Clients, NEW r \in Replicas, Route(c, r) PROVE CountersOnTrack'
  <2>1. InHand(r)' = InHand(r) \cup {c} /\ counted' = counted /\ received'[r] = received[r] + 1
    BY <1>t, <1>3 DEF Route, InHand
  <2>2. \A q \in Replicas \ {r} : InHand(q)' = InHand(q) /\ received'[q] = received[q]
    BY <1>t, <1>3 DEF Route, InHand
  <2>3. /\ IsFiniteSet(InHand(r) \cup {c})
        /\ Cardinality(InHand(r) \cup {c}) <= Cardinality(InHand(r)) + 1
    <3>1. IsFiniteSet(InHand(r)) /\ Cardinality(InHand(r)) \in Nat
      BY <1>f DEF CountersOnTrack
    <3>2. /\ IsFiniteSet(InHand(r) \cup {c})
          /\ Cardinality(InHand(r) \cup {c}) =
                IF c \in InHand(r) THEN Cardinality(InHand(r)) ELSE Cardinality(InHand(r)) + 1
      BY <3>1, FS_AddElement
    <3> QED  BY <3>1, <3>2
  <2>4. Cardinality(InHand(r) \cup {c}) \in Nat
    BY <2>3, FS_CardinalityType
  <2>5. counted'[r] + Cardinality(InHand(r)') <= received'[r]
    BY <1>t, <1>f, <2>1, <2>3, <2>4 DEF CountersOnTrack
  <2> QED  BY <2>1, <2>2, <2>3, <2>5 DEF CountersOnTrack
\* An answer takes one request out of the hand and counts one outcome at most.
<1>4. ASSUME NEW c \in Clients, NEW r \in Replicas, NEW s, NEW n \in {0, 1}, c \in InHand(r),
             Respond(c, r, s, n)
      PROVE  CountersOnTrack'
  <2>1. InHand(r)' = InHand(r) \ {c} /\ received' = received /\ counted'[r] = counted[r] + n
    BY <1>t, <1>4 DEF Respond, InHand
  <2>2. \A q \in Replicas \ {r} : InHand(q)' = InHand(q) /\ counted'[q] = counted[q]
    BY <1>t, <1>4 DEF Respond, InHand
  <2>3. /\ IsFiniteSet(InHand(r) \ {c})
        /\ Cardinality(InHand(r) \ {c}) = Cardinality(InHand(r)) - 1
    BY <1>4, FS_RemoveElement DEF CountersOnTrack
  <2>4. counted'[r] + Cardinality(InHand(r)') <= received'[r]
    BY <1>t, <1>f, <2>1, <2>3 DEF CountersOnTrack
  <2> QED  BY <2>1, <2>2, <2>3, <2>4 DEF CountersOnTrack
<1>5. ASSUME NEW c \in Clients, NEW r \in Replicas, ReadFeatures(c, r) PROVE CountersOnTrack'
  <2>1. \A q \in Replicas : InHand(q)' = InHand(q)
    BY <1>t, <1>5 DEF ReadFeatures, InHand
  <2> QED  BY <1>5, <2>1 DEF ReadFeatures, CountersOnTrack
<1>6. ASSUME NEW c \in Clients, NEW r \in Replicas, Handle(c, r) PROVE CountersOnTrack'
  <2>1. CASE RejectNotReady(c, r)
    BY <1>4, <2>1 DEF RejectNotReady, InHand
  <2>2. CASE RejectInvalid(c, r)
    BY <1>4, <2>2 DEF RejectInvalid, InHand
  <2>3. CASE ReadFeatures(c, r)
    BY <1>5, <2>3
  <2>4. CASE FeaturesUnavailable(c, r)
    BY <1>4, <2>4 DEF FeaturesUnavailable, InHand
  <2>5. CASE HandlerFails(c, r)
    BY <1>4, <2>5 DEF HandlerFails, InHand
  <2>6. CASE Predict(c, r)
    BY <1>4, <2>6 DEF Predict, InHand
  <2> QED  BY <1>6, <2>1, <2>2, <2>3, <2>4, <2>5, <2>6 DEF Handle
<1> QED
  BY <1>1, <1>2, <1>3, <1>6
  DEF Next, Startup, Resolve, LoadModel, LoadFeatureNames, ConnectFeast, StartupFails, Load,
      Register, Promote, RedisChanges, ReadinessProbe

\* No request is counted twice, nor before it has its answer (metrics.py, routers.py).
THEOREM CountersCountOnce == Spec => []CountsOnce
<1>1. Init => CountersOnTrack
  BY FS_EmptySet DEF Init, CountersOnTrack, InHand
<1>2. TypeOK /\ CountersOnTrack /\ [Next]_vars => CountersOnTrack'
  BY CounterStep
<1>3. CountersOnTrack => CountsOnce
  BY DEF CountersOnTrack, CountsOnce, InHand
<1> QED  BY ServiceTypeCorrect, <1>1, <1>2, <1>3, PTL DEF Spec

\* Serving implements ServingGate: start-ups, restarts, probes and the states in
\* which replicas disagree show a caller nothing but scores of one promoted version.
THEOREM ImplementsGate == Spec => GateSpec
<1> DEFINE
      Trained == [v \in DOMAIN registry |-> registry[v].columns]
      Quiet == UNCHANGED <<Trained, InProduction, answer>>
<1>1. Init => Gate!Init
  <2> SUFFICES ASSUME Init PROVE Gate!Init
    OBVIOUS
  <2>1. DOMAIN registry = {}
    BY DEF Init
  <2>2. Trained = <<>> /\ InProduction = {}
    BY <2>1 DEF InProduction
  <2> QED  BY <2>2 DEF Init, Gate!Init
<1>2. IInv /\ [Next]_vars => Gate!Next \/ Quiet
  <2> SUFFICES ASSUME IInv, [Next]_vars PROVE Gate!Next \/ Quiet
    OBVIOUS
  <2> USE DEF vars, requestVars
  <2>0. TypeOK /\ StartupOnTrack /\ RequestsOnTrack
    BY DEF IInv
  <2>1. ASSUME NEW s \in Columns, Register(s) PROVE Gate!Next
    <3>1. /\ DOMAIN registry = 1 .. Len(registry) /\ Len(registry) \in Nat
          /\ DOMAIN registry' = 1 .. Len(registry) + 1
          /\ \A v \in 1 .. Len(registry) : registry'[v] = registry[v]
          /\ registry'[Len(registry) + 1] = [columns |-> s, stage |-> "None"]
      BY <2>0, <2>1 DEF Register, TypeOK
    <3>2. InProduction' = InProduction
      BY <3>1 DEF InProduction
    <3>3. /\ Trained \in Seq(Columns) /\ Len(Trained) = Len(registry)
      <4>1. \A v \in 1 .. Len(registry) : registry[v] \in Version
        BY <2>0 DEF TypeOK
      <4>2. \A v \in 1 .. Len(registry) : registry[v].columns \in Columns
        BY <4>1 DEF Version
      <4> QED  BY <3>1, <4>2
    <3>4. Trained' = Append(Trained, s)
      <4>1. Trained' = [v \in 1 .. Len(registry) + 1 |-> registry'[v].columns]
        BY <3>1
      <4>2. /\ Append(Trained, s) \in Seq(Columns)
            /\ Len(Append(Trained, s)) = Len(registry) + 1
            /\ \A v \in 1 .. Len(registry) : Append(Trained, s)[v] = Trained[v]
            /\ Append(Trained, s)[Len(registry) + 1] = s
        BY <3>3
      <4>3. \A v \in 1 .. Len(registry) : Trained[v] = registry[v].columns
        BY <3>1
      <4> QED  BY <3>1, <4>1, <4>2, <4>3
    <3>5. Gate!Register(s)
      BY <2>1, <3>2, <3>4 DEF Register, Gate!Register
    <3> QED  BY <3>5 DEF Gate!Next
  <2>2. ASSUME NEW v \in DOMAIN registry, Promote(v) PROVE Gate!Next
    <3>1. /\ DOMAIN registry' = DOMAIN registry
          /\ \A w \in DOMAIN registry :
                /\ registry'[w].columns = registry[w].columns
                /\ registry'[w].stage = (IF w = v THEN "Production" ELSE registry[w].stage)
      <4>1. \A w \in DOMAIN registry : registry[w] \in Version
        BY <2>0 DEF TypeOK
      <4> QED  BY <2>0, <2>2, <4>1 DEF Promote, TypeOK, Version
    <3>2. InProduction' = InProduction \cup {v}
      BY <2>2, <3>1 DEF InProduction
    <3>3. Trained' = Trained
      BY <3>1
    <3>4. Gate!Promote(v)
      BY <2>2, <3>2, <3>3 DEF Promote, Gate!Promote
    <3> QED  BY <2>2, <3>4 DEF Gate!Next
  <2>3. CASE UNCHANGED <<registry, answer>>
    BY <2>3 DEF InProduction
  <2>4. ASSUME NEW c \in Clients, NEW r \in Replicas, Predict(c, r) PROVE Gate!Next
    <3>1. answer[c] = NoAnswer /\ replica[r].phase = "ready"
      BY <2>0, <2>4 DEF Predict, RequestsOnTrack, InHand
    <3>2. /\ replica[r].label \in InProduction
          /\ replica[r].model = replica[r].label
          /\ replica[r].columns = registry[replica[r].label].columns
      BY <2>0, <3>1 DEF StartupOnTrack, Resolved
    <3>3. replica[r].label \in DOMAIN registry
      BY <3>2 DEF InProduction
    <3>4. registry' = registry /\ InProduction' = InProduction /\ Trained' = Trained
      BY <2>4 DEF Predict, Respond, InProduction
    <3>5. Gate!Score(c, replica[r].label)
      BY <2>4, <3>1, <3>2, <3>3, <3>4 DEF Predict, Gate!Score
    <3> QED  BY <3>3, <3>5 DEF Gate!Next
  <2>5. ASSUME NEW c \in Clients, NEW r \in Replicas, Handle(c, r) PROVE Gate!Next \/ Quiet
    BY <2>3, <2>4, <2>5
    DEF Handle, RejectNotReady, RejectInvalid, ReadFeatures, FeaturesUnavailable, HandlerFails,
        Respond
  <2>6. ASSUME NEW r \in Replicas, \/ Startup(r) \/ Restart(r) \/ ReadinessProbe(r)
                                   \/ \E c \in Clients : Route(c, r)
        PROVE  Gate!Next \/ Quiet
    BY <2>3, <2>6
    DEF Startup, Resolve, LoadModel, LoadFeatureNames, ConnectFeast, StartupFails, Load, Restart,
        ReadinessProbe, Route
  <2>7. CASE RedisChanges \/ UNCHANGED vars
    BY <2>3, <2>7 DEF RedisChanges
  <2> QED  BY <2>1, <2>2, <2>5, <2>6, <2>7 DEF Next
<1> QED
  BY Invariance, <1>1, <1>2, PTL DEF Spec, GateSpec, Gate!Spec

-----------------------------------------------------------------------------
(* What a caller can rely on while replicas start, fail and restart.       *)

Final == {"200", "422", "500", "503", "reset"}

\* The response s of replica r to client c, which only a score has an answer with.
Responds(c, r, s) ==
    /\ c \in InHand(r) /\ s \in Final \ {"reset"}
    /\ status' = [status EXCEPT ![c] = s]
    /\ waiting' = [waiting EXCEPT ![r] = @ \ {c}]
    /\ scoring' = [scoring EXCEPT ![r] = @ \ {c}]
    /\ answer' = IF s = "200" THEN [answer EXCEPT ![c] = ScoreOf(r)] ELSE answer
    /\ s \in {"200", "500"} => replica[r].phase = "ready"
    /\ replica[r].phase # "ready" => UNCHANGED counted
    /\ UNCHANGED <<replica, rotation>>

\* What the steps do to the requests.
LEMMA RequestSteps ==
    ASSUME IInv, [Next]_vars
    PROVE  \/ \E c \in Clients, r \in Replicas :
                  Route(c, r) \/ ReadFeatures(c, r) \/ \E s \in Final : Responds(c, r, s)
           \/ \E r \in Replicas : Restart(r)
           \/ UNCHANGED <<waiting, scoring, status, answer>>
<1> USE DEF vars, requestVars
<1>1. ASSUME NEW c \in Clients, NEW r \in Replicas, Handle(c, r)
      PROVE  ReadFeatures(c, r) \/ \E s \in Final : Responds(c, r, s)
  <2> USE DEF Respond, Responds, Final, InHand
  <2>1. CASE RejectNotReady(c, r)
    <3>1. counted' = [counted EXCEPT ![r] = @ + 0]
      BY <2>1 DEF RejectNotReady
    <3>2. counted' = counted
      BY <3>1 DEF IInv, TypeOK
    <3> QED  BY <2>1, <3>2 DEF RejectNotReady
  <2>2. CASE RejectInvalid(c, r)
    <3>1. counted' = [counted EXCEPT ![r] = @ + 0]
      BY <2>2 DEF RejectInvalid
    <3>2. counted' = counted
      BY <3>1 DEF IInv, TypeOK
    <3> QED  BY <2>2, <3>2 DEF RejectInvalid
  <2>3. CASE FeaturesUnavailable(c, r)
    BY <2>3 DEF FeaturesUnavailable
  <2>4. CASE HandlerFails(c, r)
    BY <2>4 DEF HandlerFails
  <2>5. CASE Predict(c, r)
    <3>1. replica[r].phase = "ready"
      BY <2>5 DEF Predict, IInv, RequestsOnTrack
    <3> QED  BY <2>5, <3>1 DEF Predict, ScoreOf
  <2> QED  BY <1>1, <2>1, <2>2, <2>3, <2>4, <2>5 DEF Handle
<1> QED
  BY <1>1
  DEF Next, Register, Promote, RedisChanges, Startup, Resolve, LoadModel, LoadFeatureNames,
      ConnectFeast, StartupFails, Load, ReadinessProbe

\* A version stays in the stage once a human has put it there.
LEMMA ProductionGrows ==
    ASSUME IInv, [Next]_vars PROVE InProduction \subseteq InProduction'
<1>0. TypeOK
  BY DEF IInv
<1>1. ASSUME NEW s \in Columns, Register(s) PROVE InProduction \subseteq InProduction'
  <2>1. /\ DOMAIN registry \subseteq DOMAIN registry'
        /\ \A v \in DOMAIN registry : registry'[v] = registry[v]
    BY <1>0, <1>1 DEF Register, TypeOK
  <2> QED  BY <2>1 DEF InProduction
<1>2. ASSUME NEW v \in DOMAIN registry, Promote(v) PROVE InProduction \subseteq InProduction'
  <2>1. \A w \in DOMAIN registry : registry[w] \in Version
    BY <1>0 DEF TypeOK
  <2>2. /\ DOMAIN registry' = DOMAIN registry
        /\ \A w \in DOMAIN registry :
              registry'[w].stage = (IF w = v THEN "Production" ELSE registry[w].stage)
    BY <1>0, <1>2, <2>1 DEF Promote, TypeOK, Version
  <2> QED  BY <2>2 DEF InProduction
<1>3. ASSUME NEW c \in Clients, NEW r \in Replicas, Route(c, r) \/ Handle(c, r)
      PROVE  UNCHANGED registry
  BY <1>3 DEF Route, Handle, RejectNotReady, RejectInvalid, ReadFeatures, FeaturesUnavailable,
              HandlerFails, Predict, Respond
<1>4. ASSUME NEW r \in Replicas, Startup(r) \/ Restart(r) \/ ReadinessProbe(r)
      PROVE  UNCHANGED registry
  BY <1>4 DEF Startup, Resolve, LoadModel, LoadFeatureNames, ConnectFeast, StartupFails, Load,
              Restart, ReadinessProbe
<1>5. RedisChanges \/ UNCHANGED vars => UNCHANGED registry
  BY DEF RedisChanges, vars
<1>6. UNCHANGED registry => InProduction \subseteq InProduction'
  BY DEF InProduction
<1> QED  BY <1>1, <1>2, <1>3, <1>4, <1>5, <1>6 DEF Next

\* Every score a client has is labelled with a version that is still in Production.
AnswersFromProduction == \A c \in Clients : answer[c] # NoAnswer => answer[c].label \in InProduction

LEMMA AnswersStayInProduction == Spec => []AnswersFromProduction
<1>1. Init => AnswersFromProduction
  BY DEF Init, AnswersFromProduction
<1>2. IInv /\ AnswersFromProduction /\ [Next]_vars => AnswersFromProduction'
  <2> SUFFICES ASSUME IInv, AnswersFromProduction, [Next]_vars PROVE AnswersFromProduction'
    OBVIOUS
  <2>0. TypeOK /\ StartupOnTrack /\ InProduction \subseteq InProduction'
    BY ProductionGrows DEF IInv
  <2>1. CASE UNCHANGED answer
    BY <2>0, <2>1 DEF AnswersFromProduction
  <2>2. ASSUME NEW c \in Clients, NEW r \in Replicas, NEW s \in Final, Responds(c, r, s)
        PROVE  AnswersFromProduction'
    <3>1. CASE s = "200"
      <4>1. replica[r].label \in InProduction
        BY <2>0, <2>2, <3>1 DEF Responds, StartupOnTrack, Resolved
      <4>2. \A d \in Clients : answer'[d] = IF d = c THEN ScoreOf(r) ELSE answer[d]
        BY <2>0, <2>2, <3>1 DEF Responds, TypeOK
      <4>3. ScoreOf(r).label = replica[r].label
        BY DEF ScoreOf
      <4> QED  BY <2>0, <4>1, <4>2, <4>3 DEF AnswersFromProduction
    <3> QED  BY <2>1, <2>2, <3>1 DEF Responds
  <2> QED  BY <2>1, <2>2, RequestSteps DEF Route, ReadFeatures, Restart
<1> QED  BY <1>1, <1>2, Invariance, PTL DEF Spec

\* Promotion goes one way, for any number of replicas, clients and versions
\* (model_registry.resolve_production_model takes the highest version of the stage).
THEOREM RestartsNeverGoBack == Spec => RestartNeverGoesBack
<1>1. IInv /\ AnswersFromProduction /\ [Next]_vars
        => [\A r \in Replicas :
               Resolve(r) =>
                   /\ \A q \in Replicas : replica[q].label <= replica'[r].label
                   /\ \A c \in Clients :
                         answer[c] # NoAnswer => answer[c].label <= replica'[r].label]_vars
  <2> SUFFICES ASSUME IInv, AnswersFromProduction, NEW r \in Replicas, Resolve(r)
               PROVE  /\ \A q \in Replicas : replica[q].label <= replica'[r].label
                      /\ \A c \in Clients :
                            answer[c] # NoAnswer => answer[c].label <= replica'[r].label
    OBVIOUS
  <2>0. TypeOK /\ StartupOnTrack
    BY DEF IInv
  <2>1. /\ ProductionVersion \in 1 .. Len(registry) /\ Len(registry) \in Nat
        /\ \A v \in InProduction : v \in 1 .. Len(registry) /\ ProductionVersion >= v
    BY <2>0, ProductionVersionProperties DEF Resolve, InProduction, TypeOK
  <2>2. replica'[r].label = ProductionVersion
    <3>1. replica[r] \in Process
      BY <2>0 DEF TypeOK
    <3> QED  BY <2>0, <3>1 DEF Resolve, Load, TypeOK, Process
  <2>3. ASSUME NEW q \in Replicas PROVE replica[q].label <= ProductionVersion
    <3>1. replica[q].label \in InProduction \/ replica[q].label = 0
      BY <2>0 DEF StartupOnTrack
    <3> QED  BY <2>1, <3>1
  <2>4. ASSUME NEW c \in Clients, answer[c] # NoAnswer PROVE answer[c].label <= ProductionVersion
    <3>1. answer[c].label \in InProduction
      BY <2>4 DEF AnswersFromProduction
    <3> QED  BY <2>1, <3>1
  <2> QED  BY <2>2, <2>3, <2>4
<1> QED  BY <1>1, Invariance, AnswersStayInProduction, PTL DEF Spec, RestartNeverGoesBack

\* A request somebody is waiting on is in the hand of a replica, and a 200 is the one
\* response that carries a score.
NobodyForgotten ==
    /\ \A c \in Clients : status[c] = "sent" <=> \E r \in Replicas : c \in InHand(r)
    /\ \A c \in Clients : status[c] = "200" <=> answer[c] # NoAnswer

\* Whatever is killed and restarted, no request is left that no process knows of: each
\* is in hand, or was answered, or its connection was reset.
THEOREM NobodyIsForgotten == Spec => []NobodyForgotten
<1>1. Init => NobodyForgotten
  BY DEF Init, NobodyForgotten, InHand
<1>2. IInv /\ NobodyForgotten /\ [Next]_vars => NobodyForgotten'
  <2> SUFFICES ASSUME IInv, NobodyForgotten, [Next]_vars PROVE NobodyForgotten'
    OBVIOUS
  <2>0. /\ TypeOK /\ StartupOnTrack /\ RequestsOnTrack
        /\ \A r \in Replicas : InHand(r) \subseteq Clients
    BY DEF IInv, TypeOK, InHand
  <2>1. ASSUME NEW c \in Clients, NEW r \in Replicas, Route(c, r) PROVE NobodyForgotten'
    <3>1. /\ \A d \in Clients : status'[d] = IF d = c THEN "sent" ELSE status[d]
          /\ \A q \in Replicas : InHand(q)' = IF q = r THEN InHand(q) \cup {c} ELSE InHand(q)
          /\ status[c] = "none" /\ answer' = answer
      BY <2>0, <2>1 DEF Route, TypeOK, InHand
    <3> QED  BY <3>1 DEF NobodyForgotten
  <2>2. ASSUME NEW c \in Clients, NEW r \in Replicas, ReadFeatures(c, r) PROVE NobodyForgotten'
    <3>1. /\ \A q \in Replicas : InHand(q)' = InHand(q)
          /\ UNCHANGED <<status, answer>>
      BY <2>0, <2>2 DEF ReadFeatures, TypeOK, InHand
    <3> QED  BY <3>1 DEF NobodyForgotten
  <2>3. ASSUME NEW c \in Clients, NEW r \in Replicas, NEW s \in Final, Responds(c, r, s)
        PROVE  NobodyForgotten'
    <3>1. /\ \A d \in Clients : status'[d] = IF d = c THEN s ELSE status[d]
          /\ \A q \in Replicas : InHand(q)' = IF q = r THEN InHand(q) \ {c} ELSE InHand(q)
          /\ c \in InHand(r) /\ s # "sent"
      BY <2>0, <2>3 DEF Responds, TypeOK, InHand, Final
    <3>2. \A q \in Replicas : c \notin InHand(q)'
      BY <2>0, <3>1 DEF RequestsOnTrack
    <3>3. \A d \in Clients : status'[d] = "sent" <=> \E q \in Replicas : d \in InHand(q)'
      BY <3>1, <3>2 DEF NobodyForgotten
    <3>4. s = "200" => scoring[r] # {} \/ waiting[r] # {}
      BY <3>1 DEF InHand
    <3>5. s = "200" => ScoreOf(r) # NoAnswer
      <4>1. s = "200" => replica[r].phase = "ready"
        BY <2>3 DEF Responds
      <4>2. replica[r].phase = "ready" => ScoreOf(r) \in Answer
        BY <2>0, ScoreIsAnAnswer
      <4> QED  BY <4>1, <4>2, ServiceAssumption
    <3>6. status[c] = "sent" /\ answer[c] = NoAnswer
      BY <2>0, <3>1 DEF RequestsOnTrack
    <3>7. /\ s = "200" => answer'[c] = ScoreOf(r)
          /\ s # "200" => answer'[c] = answer[c]
          /\ \A d \in Clients \ {c} : answer'[d] = answer[d]
      BY <2>0, <2>3 DEF Responds, TypeOK
    <3>8. \A d \in Clients : status'[d] = "200" <=> answer'[d] # NoAnswer
      BY <3>1, <3>5, <3>6, <3>7 DEF NobodyForgotten
    <3> QED  BY <3>3, <3>8 DEF NobodyForgotten
  <2>4. ASSUME NEW r \in Replicas, Restart(r) PROVE NobodyForgotten'
    <3>1. /\ \A d \in Clients : status'[d] = IF d \in InHand(r) THEN "reset" ELSE status[d]
          /\ \A q \in Replicas : InHand(q)' = IF q = r THEN {} ELSE InHand(q)
          /\ answer' = answer
      BY <2>0, <2>4 DEF Restart, TypeOK, InHand
    <3>2. \A q \in Replicas, d \in Clients : d \in InHand(q) /\ d \in InHand(r) => q = r
      BY <2>0 DEF RequestsOnTrack
    <3>3. \A d \in InHand(r) : status[d] = "sent"
      BY <2>0 DEF RequestsOnTrack
    <3>4. \A d \in Clients : status'[d] = "sent" <=> \E q \in Replicas : d \in InHand(q)'
      BY <3>1, <3>2 DEF NobodyForgotten
    <3>5. \A d \in Clients : status'[d] = "200" <=> answer'[d] # NoAnswer
      BY <3>1, <3>3 DEF NobodyForgotten
    <3> QED  BY <3>4, <3>5 DEF NobodyForgotten
  <2>5. CASE UNCHANGED <<waiting, scoring, status, answer>>
    BY <2>5 DEF NobodyForgotten, InHand
  <2> QED  BY <2>1, <2>2, <2>3, <2>4, <2>5, RequestSteps
<1> QED  BY Invariance, <1>1, <1>2, PTL DEF Spec

\* A response is final: no retry, restart or late score changes what a client was told.
AnsweredOnce ==
    [][\A c \in Clients :
          status[c] \in Final => status'[c] = status[c] /\ answer'[c] = answer[c]]_vars

\* The same of the steps of all clients and replicas together, for any number of either.
THEOREM RequestsAnsweredOnce == Spec => AnsweredOnce
<1>1. IInv /\ [Next]_vars
        => [\A c \in Clients :
               status[c] \in Final => status'[c] = status[c] /\ answer'[c] = answer[c]]_vars
  <2> SUFFICES ASSUME IInv, [Next]_vars, NEW d \in Clients, status[d] \in Final
               PROVE  status'[d] = status[d] /\ answer'[d] = answer[d]
    OBVIOUS
  <2>0. TypeOK /\ RequestsOnTrack
    BY DEF IInv
  <2>1. \A r \in Replicas : d \notin InHand(r)
    BY <2>0 DEF RequestsOnTrack, Final
  <2>2. ASSUME NEW c \in Clients, NEW r \in Replicas,
               Route(c, r) \/ ReadFeatures(c, r)
        PROVE  status'[d] = status[d] /\ answer'[d] = answer[d]
    BY <2>0, <2>2 DEF Route, ReadFeatures, TypeOK, Final
  <2>3. ASSUME NEW c \in Clients, NEW r \in Replicas, NEW s \in Final, Responds(c, r, s)
        PROVE  status'[d] = status[d] /\ answer'[d] = answer[d]
    <3>1. c # d
      BY <2>1, <2>3 DEF Responds
    <3> QED  BY <2>0, <2>3, <3>1 DEF Responds, TypeOK
  <2>4. ASSUME NEW r \in Replicas, Restart(r)
        PROVE  status'[d] = status[d] /\ answer'[d] = answer[d]
    BY <2>0, <2>1, <2>4 DEF Restart, TypeOK, InHand
  <2>5. CASE UNCHANGED <<status, answer>>
    BY <2>5
  <2> QED  BY <2>2, <2>3, <2>4, <2>5, RequestSteps
<1> QED  BY Invariance, <1>1, PTL DEF Spec, AnsweredOnce

\* What is left of ADR-0007's split, which /ready's 200 for every body gives up: a replica
\* the Service routes to, or that has requests, has ended its start-up.
RotationHoldsStarted ==
    \A r \in Replicas : r \in rotation \/ InHand(r) # {} => Serving(r)

\* No request waits in a process that is still loading a model, however often replicas
\* are killed between their probe and their next request.
THEOREM OnlyStartedServe == Spec => []RotationHoldsStarted
<1>1. Init => RotationHoldsStarted
  BY DEF Init, RotationHoldsStarted, InHand
<1>2. IInv /\ RotationHoldsStarted /\ [Next]_vars => RotationHoldsStarted'
  <2> SUFFICES ASSUME IInv, RotationHoldsStarted, [Next]_vars, NEW q \in Replicas,
                      q \in rotation' \/ InHand(q)' # {}
               PROVE  Serving(q)'
    BY DEF RotationHoldsStarted
  <2> USE DEF vars, requestVars
  <2>t. TypeOK
    BY DEF IInv
  <2>1. ASSUME NEW r \in Replicas, Restart(r) PROVE Serving(q)'
    <3>1. /\ q # r => q \in rotation \/ InHand(q) # {}
          /\ q # r => replica'[q] = replica[q]
          /\ q = r => q \notin rotation' /\ InHand(q)' = {}
      BY <2>t, <2>1 DEF Restart, TypeOK, InHand
    <3> QED  BY <3>1 DEF RotationHoldsStarted, Serving
  <2>2. ASSUME NEW r \in Replicas, Startup(r) PROVE Serving(q)'
    <3>1. /\ replica[r].phase \in Loading /\ UNCHANGED <<rotation, waiting, scoring>>
          /\ q # r => replica'[q] = replica[q]
      BY <2>t, <2>2
      DEF Startup, Resolve, LoadModel, LoadFeatureNames, ConnectFeast, StartupFails, Load,
          Loading, TypeOK
    <3>2. Serving(q)
      BY <3>1 DEF RotationHoldsStarted, InHand
    <3>3. ~Serving(r)
      BY <3>1 DEF Serving, Loading
    <3> QED  BY <3>1, <3>2, <3>3 DEF Serving
  <2>3. ASSUME NEW r \in Replicas, ReadinessProbe(r) PROVE Serving(q)'
    BY <2>t, <2>3 DEF ReadinessProbe, RotationHoldsStarted, Serving, InHand
  <2>4. ASSUME NEW c \in Clients, NEW r \in Replicas, Route(c, r) PROVE Serving(q)'
    BY <2>t, <2>4 DEF Route, RotationHoldsStarted, Serving, InHand, TypeOK
  <2>5. ASSUME NEW c \in Clients, NEW r \in Replicas, Handle(c, r) PROVE Serving(q)'
    <3>1. InHand(q)' \subseteq InHand(q) /\ UNCHANGED <<replica, rotation>>
      <4>1. CASE ReadFeatures(c, r)
        BY <2>t, <4>1 DEF ReadFeatures, InHand, TypeOK
      <4>2. CASE /\ waiting' = [waiting EXCEPT ![r] = @ \ {c}]
                 /\ scoring' = [scoring EXCEPT ![r] = @ \ {c}]
                 /\ UNCHANGED <<replica, rotation>>
        BY <2>t, <4>2 DEF InHand, TypeOK
      <4> QED
        BY <2>5, <4>1, <4>2
        DEF Handle, RejectNotReady, RejectInvalid, FeaturesUnavailable, HandlerFails, Predict,
            Respond
    <3> QED  BY <3>1 DEF RotationHoldsStarted, Serving
  <2>6. CASE UNCHANGED <<replica, rotation, waiting, scoring>>
    BY <2>6 DEF RotationHoldsStarted, Serving, InHand
  <2> QED  BY <2>1, <2>2, <2>3, <2>4, <2>5, <2>6 DEF Next, Register, Promote, RedisChanges
<1> QED  BY Invariance, <1>1, <1>2, PTL DEF Spec

\* A replica without a model answers 503, or 422 before anybody asks for the model, and
\* counts nothing: a request it got never becomes a score of a half-loaded state.
NotLoadedRefuses ==
    [][\A r \in Replicas : \A c \in InHand(r) :
          replica[r].phase # "ready" /\ status'[c] # status[c] =>
              /\ status'[c] \in {"422", "503", "reset"}
              /\ status'[c] # "reset" => counted' = counted]_vars

\* ADR-0007's other half: what a request meets at a replica that probe and Service take
\* for ready although its start-up failed.
THEOREM NotLoadedOnlyRefuses == Spec => NotLoadedRefuses
<1>1. IInv /\ [Next]_vars
        => [\A r \in Replicas : \A c \in InHand(r) :
               replica[r].phase # "ready" /\ status'[c] # status[c] =>
                   /\ status'[c] \in {"422", "503", "reset"}
                   /\ status'[c] # "reset" => counted' = counted]_vars
  <2> SUFFICES ASSUME IInv, [Next]_vars, NEW r \in Replicas, NEW c \in InHand(r),
                      replica[r].phase # "ready", status'[c] # status[c]
               PROVE  /\ status'[c] \in {"422", "503", "reset"}
                      /\ status'[c] # "reset" => counted' = counted
    OBVIOUS
  <2>0. /\ TypeOK /\ RequestsOnTrack /\ c \in Clients /\ status[c] = "sent"
    BY DEF IInv, TypeOK, InHand, RequestsOnTrack
  <2>1. ASSUME NEW d \in Clients, NEW q \in Replicas, Route(d, q) \/ ReadFeatures(d, q)
        PROVE  FALSE
    BY <2>0, <2>1 DEF Route, ReadFeatures, TypeOK
  <2>2. ASSUME NEW d \in Clients, NEW q \in Replicas, NEW s \in Final, Responds(d, q, s)
        PROVE  status'[c] \in {"422", "503"} /\ counted' = counted
    <3>1. d = c /\ status'[c] = s
      BY <2>0, <2>2 DEF Responds, TypeOK
    <3>2. q = r
      BY <2>0, <2>2, <3>1 DEF Responds, RequestsOnTrack
    <3> QED  BY <2>2, <3>1, <3>2 DEF Responds, Final
  <2>3. ASSUME NEW q \in Replicas, Restart(q) PROVE status'[c] = "reset"
    BY <2>0, <2>3 DEF Restart, TypeOK
  <2>4. ~UNCHANGED <<waiting, scoring, status, answer>>
    OBVIOUS
  <2> QED  BY <2>1, <2>2, <2>3, <2>4, RequestSteps
<1> QED  BY Invariance, <1>1, PTL DEF Spec, NotLoadedRefuses

=============================================================================
