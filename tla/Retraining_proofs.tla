------------------------- MODULE Retraining_proofs --------------------------
(***************************************************************************)
(* Proofs about preprocess, train and evaluate, for any chains of them,    *)
(* any directories, any raw data and any cut that SplitAssumption allows.  *)
(***************************************************************************)
EXTENDS Retraining, FiniteSetTheorems, TLAPS

\* What each pipeline has in memory when it comes to a step that uses it.
OnTrack(p) ==
    /\ phase[p] \in Ended => step[p] = 1
    /\ phase[p] \in {"fit", "log", "register", "report"} => Doing(p) = "train"
    /\ phase[p] = "log" => Len(runs[p]) > 0
    /\ phase[p] = "report" => version[p] > 0 /\ best[p] \in 1 .. Len(runs[p])
    /\ phase[p] = "score" => evaluated[p] > 0 /\ evaluated[p] >= version[p]

Memory == TypeOK /\ \A p \in Pipelines : OnTrack(p)

Acts(p) == Start(p) \/ Step(p) \/ Abort(p)

\* What another pipeline does leaves this one alone.
Untouched(q) ==
    /\ step'[q] = step[q] /\ phase'[q] = phase[q] /\ file'[q] = file[q]
    /\ held'[q] = held[q] /\ runs'[q] = runs[q] /\ best'[q] = best[q]
    /\ version'[q] = version[q] /\ evaluated'[q] = evaluated[q]
    /\ report'[q] = report[q] /\ attempts'[q] = attempts[q]
    /\ (q \in misread' <=> q \in misread)

Grows == registry' = registry \/ \E r \in Run : registry' = Append(registry, r)

\* How a command can end: the chain is over, or the next command has an empty memory.
Over(p) ==
    /\ phase'[p] \in Ended /\ step'[p] = 1
    /\ version'[p] = 0 /\ evaluated'[p] = 0
Moved(p) ==
    /\ step[p] < Len(Commands[p]) /\ step'[p] = step[p] + 1
    /\ phase'[p] = FirstPhase(Commands[p][step[p] + 1])
    /\ version'[p] = version[p] /\ evaluated'[p] = evaluated[p]
Emptied(p) ==
    /\ file'[p] = 1 /\ held'[p] = NoData /\ mixed'[p] = FALSE
    /\ runs'[p] = <<>> /\ best'[p] = 0

LEMMA Chains ==
    ASSUME NEW p \in Pipelines
    PROVE  /\ Commands[p] \in Seq(Command) /\ Len(Commands[p]) \in Nat /\ Len(Commands[p]) > 0
           /\ DirOf[p] \in Dir
           /\ \A i \in 1 .. Len(Commands[p]) : Commands[p][i] \in Command
<1>1. Commands \in [Pipelines -> Seq(Command)] /\ Len(Commands[p]) > 0
  BY RetrainingAssumption
<1> QED  BY <1>1 DEF Dir

LEMMA NoDataFrames == Absent \in Frame /\ Torn \in Frame /\ NoData \in [Part -> Frame]
BY DEF Absent, Torn, NoData, Frame

LEMMA SplitFrames ==
    ASSUME NEW c \in Csv, Trainable(c)
    PROVE  StratifiedSplit(c, RandomState) \in [Part -> Frame]
<1>1. c \in Splittable /\ RandomState \in Seed /\ TypeOf \in [Row -> Type] /\ c \in SUBSET Row
  BY RetrainingAssumption DEF Trainable
<1>2. SplitWith[<<c, RandomState>>] \in [Part -> SUBSET Row]
  BY <1>1, SplitAssumption
<1>3. Columns(c) \in SUBSET Type
  BY <1>1 DEF Columns
<1> QED  BY <1>2, <1>3 DEF StratifiedSplit, Frame

LEMMA ExitTypes ==
    ASSUME TypeOK, NEW p \in Pipelines, Exit(p)
    PROVE  /\ file' \in [Pipelines -> 1..3] /\ held' \in [Pipelines -> [Part -> Frame]]
           /\ mixed' \in [Pipelines -> BOOLEAN] /\ runs' \in [Pipelines -> Seq(Run)]
           /\ best' \in [Pipelines -> Nat]
           /\ Emptied(p)
<1>1. NoData \in [Part -> Frame]  BY NoDataFrames
<1>2. file' \in [Pipelines -> 1..3] /\ file'[p] = 1  BY DEF TypeOK, Exit
<1>3. held' \in [Pipelines -> [Part -> Frame]] /\ held'[p] = NoData  BY <1>1 DEF TypeOK, Exit
<1>4. mixed' \in [Pipelines -> BOOLEAN] /\ mixed'[p] = FALSE  BY DEF TypeOK, Exit
<1>5. runs' \in [Pipelines -> Seq(Run)] /\ runs'[p] = <<>>  BY DEF TypeOK, Exit
<1>6. best' \in [Pipelines -> Nat] /\ best'[p] = 0  BY DEF TypeOK, Exit
<1> QED  BY <1>2, <1>3, <1>4, <1>5, <1>6 DEF Emptied

LEMMA LeaveTypes ==
    ASSUME TypeOK, NEW p \in Pipelines, NEW how \in Ended, Leave(p, how),
           Len(registry') \in Nat, Len(registry) <= Len(registry')
    PROVE  /\ step' \in [Pipelines -> Nat \ {0}]
           /\ \A q \in Pipelines : step'[q] <= Len(Commands[q])
           /\ phase' \in [Pipelines -> Phase]
           /\ version' \in [Pipelines -> 0..Len(registry')]
           /\ evaluated' \in [Pipelines -> 0..Len(registry')]
           /\ Over(p)
<1>1. Len(registry) \in Nat  BY DEF TypeOK
<1>2. step' \in [Pipelines -> Nat \ {0}] /\ step'[p] = 1  BY DEF TypeOK, Leave
<1>3. ASSUME NEW q \in Pipelines PROVE step'[q] <= Len(Commands[q])
  <2>1. step[q] \in Nat /\ step[q] <= Len(Commands[q])  BY DEF TypeOK
  <2>2. step'[q] = IF q = p THEN 1 ELSE step[q]  BY DEF TypeOK, Leave
  <2> QED  BY <2>1, <2>2, Chains
<1>4. phase' \in [Pipelines -> Phase] /\ phase'[p] = how  BY DEF TypeOK, Leave, Phase
<1>5. version \in [Pipelines -> 0..Len(registry')] /\ evaluated \in [Pipelines -> 0..Len(registry')]
  <2>1. 0..Len(registry) \subseteq 0..Len(registry')  BY <1>1
  <2>2. version \in [Pipelines -> 0..Len(registry)] /\ evaluated \in [Pipelines -> 0..Len(registry)]
    BY DEF TypeOK
  <2> QED  BY <2>1, <2>2
<1>6. version' \in [Pipelines -> 0..Len(registry')] /\ version'[p] = 0  BY <1>1, <1>5 DEF Leave
<1>7. evaluated' \in [Pipelines -> 0..Len(registry')] /\ evaluated'[p] = 0  BY <1>1, <1>5 DEF Leave
<1> QED  BY <1>2, <1>3, <1>4, <1>6, <1>7 DEF Over

LEMMA EndTypes ==
    ASSUME TypeOK, NEW p \in Pipelines, EndCommand(p),
           Len(registry') \in Nat, Len(registry) <= Len(registry')
    PROVE  /\ step' \in [Pipelines -> Nat \ {0}]
           /\ \A q \in Pipelines : step'[q] <= Len(Commands[q])
           /\ phase' \in [Pipelines -> Phase]
           /\ version' \in [Pipelines -> 0..Len(registry')]
           /\ evaluated' \in [Pipelines -> 0..Len(registry')]
           /\ Exit(p)
           /\ Over(p) \/ Moved(p)
<1>1. CASE step[p] < Len(Commands[p])
  <2>1. Exit(p)  BY <1>1 DEF EndCommand
  <2>2. step' = [step EXCEPT ![p] = @ + 1]  BY <1>1 DEF EndCommand
  <2>3. phase' = [phase EXCEPT ![p] = FirstPhase(Commands[p][step[p] + 1])]  BY <1>1 DEF EndCommand
  <2>4. version' = version /\ evaluated' = evaluated  BY <1>1 DEF EndCommand
  <2>5. step \in [Pipelines -> Nat \ {0}] /\ \A q \in Pipelines : step[q] <= Len(Commands[q])
    BY DEF TypeOK
  <2>6. step' \in [Pipelines -> Nat \ {0}] /\ step'[p] = step[p] + 1  BY <2>2, <2>5
  <2>7. \A q \in Pipelines : step'[q] <= Len(Commands[q])
    BY <2>2, <2>5, <1>1, Chains
  <2>8. FirstPhase(Commands[p][step[p] + 1]) \in Phase  BY DEF FirstPhase, Phase
  <2>9. phase' \in [Pipelines -> Phase] /\ phase'[p] = FirstPhase(Commands[p][step[p] + 1])
    BY <2>3, <2>8 DEF TypeOK
  <2>10. version' \in [Pipelines -> 0..Len(registry')] /\ evaluated' \in [Pipelines -> 0..Len(registry')]
    <3>1. 0..Len(registry) \subseteq 0..Len(registry')  BY DEF TypeOK
    <3>2. version \in [Pipelines -> 0..Len(registry)] /\ evaluated \in [Pipelines -> 0..Len(registry)]
      BY DEF TypeOK
    <3> QED  BY <3>1, <3>2, <2>4
  <2>11. Moved(p)  BY <1>1, <2>4, <2>6, <2>9 DEF Moved
  <2> QED  BY <2>1, <2>6, <2>7, <2>9, <2>10, <2>11
<1>2. CASE ~(step[p] < Len(Commands[p]))
  <2>1. Leave(p, "succeeded")  BY <1>2 DEF EndCommand
  <2>2. "succeeded" \in Ended  BY DEF Ended
  <2>3. Exit(p)  BY <2>1 DEF Leave
  <2> QED  BY <2>1, <2>2, <2>3, LeaveTypes
<1> QED  BY <1>1, <1>2

\* The registry only grows, by runs; what refers to a version still does.
LEMMA Registered ==
    ASSUME TypeOK, Grows
    PROVE  /\ registry' \in Seq(Run) /\ Len(registry) \in Nat /\ Len(registry') \in Nat
           /\ Len(registry) <= Len(registry')
           /\ 0..Len(registry) \subseteq 0..Len(registry')
           /\ 1..Len(registry) \subseteq 1..Len(registry')
           /\ \A i \in 1..Len(registry) : registry'[i] = registry[i]
           /\ DOMAIN registry = 1..Len(registry) /\ DOMAIN registry' = 1..Len(registry')
<1>1. registry \in Seq(Run)  BY DEF TypeOK
<1>2. CASE registry' = registry  BY <1>1, <1>2
<1>3. CASE \E r \in Run : registry' = Append(registry, r)
  <2>1. PICK r \in Run : registry' = Append(registry, r)  BY <1>3
  <2> QED  BY <1>1, <2>1
<1> QED  BY <1>2, <1>3 DEF Grows

\* Versions and reports keep their types while the registry grows.
LEMMA ReferencesKept ==
    ASSUME TypeOK, Grows
    PROVE  /\ version \in [Pipelines -> 0..Len(registry')]
           /\ evaluated \in [Pipelines -> 0..Len(registry')]
           /\ report \in [Pipelines -> SUBSET [version : 1..Len(registry'), best : Run]]
<1>1. /\ 0..Len(registry) \subseteq 0..Len(registry')
      /\ 1..Len(registry) \subseteq 1..Len(registry')
  BY Registered
<1>2. /\ version \in [Pipelines -> 0..Len(registry)]
      /\ evaluated \in [Pipelines -> 0..Len(registry)]
      /\ report \in [Pipelines -> SUBSET [version : 1..Len(registry), best : Run]]
  BY DEF TypeOK
<1>3. [version : 1..Len(registry), best : Run] \subseteq [version : 1..Len(registry'), best : Run]
  BY <1>1
<1>4. \A q \in Pipelines : report[q] \in SUBSET [version : 1..Len(registry'), best : Run]
  BY <1>2, <1>3
<1> QED  BY <1>1, <1>2, <1>4

\* A chain that fails leaves nothing but what it has written.
LEMMA FailTypes ==
    ASSUME TypeOK, NEW p \in Pipelines, Fail(p),
           misread' \in SUBSET Pipelines, aborts' \in 0..MaxAborts
    PROVE  TypeOK' /\ Over(p) /\ Emptied(p) /\ phase'[p] = "failed"
<1>1. registry' = registry /\ Len(registry) \in Nat  BY DEF Fail, TypeOK
<1>2. Leave(p, "failed") /\ "failed" \in Ended  BY DEF Fail, Ended
<1>3. Len(registry') \in Nat /\ Len(registry) <= Len(registry')  BY <1>1
<1>4. Exit(p)  BY <1>2 DEF Leave
<1>5. /\ step' \in [Pipelines -> Nat \ {0}]
      /\ \A q \in Pipelines : step'[q] <= Len(Commands[q])
      /\ phase' \in [Pipelines -> Phase]
      /\ version' \in [Pipelines -> 0..Len(registry')]
      /\ evaluated' \in [Pipelines -> 0..Len(registry')]
      /\ Over(p)
  BY <1>2, <1>3, LeaveTypes
<1>6. /\ file' \in [Pipelines -> 1..3] /\ held' \in [Pipelines -> [Part -> Frame]]
      /\ mixed' \in [Pipelines -> BOOLEAN] /\ runs' \in [Pipelines -> Seq(Run)]
      /\ best' \in [Pipelines -> Nat] /\ Emptied(p)
  BY <1>4, ExitTypes
<1>7. /\ raw' = raw /\ changes' = changes /\ splits' = splits /\ report' = report
      /\ attempts' = attempts /\ left' = left
  BY DEF Fail, inputs
<1>8. TypeOK'  BY <1>1, <1>5, <1>6, <1>7 DEF TypeOK
<1>9. phase'[p] = "failed"  BY <1>2 DEF Leave, TypeOK
<1> QED  BY <1>5, <1>6, <1>8, <1>9

LEMMA BeginTypes ==
    ASSUME TypeOK, NEW p \in Pipelines, Begin(p), left' \in [Pipelines -> Nat]
    PROVE  TypeOK'
<1>1. FirstPhase(Commands[p][1]) \in Phase  BY DEF FirstPhase, Phase
<1>2. phase' \in [Pipelines -> Phase]  BY <1>1 DEF Begin, TypeOK
<1>3. splits' \in [Dir -> [Part -> Frame \union {Torn}]]
  <2>1. NoData \in [Part -> Frame \union {Torn}]  BY NoDataFrames
  <2> QED  BY <2>1 DEF Begin, TypeOK
<1>4. attempts' \in [Pipelines -> Nat]
  <2>1. attempts \in [Pipelines -> Nat]  BY DEF TypeOK
  <2>2. attempts[p] \in Nat /\ attempts[p] + 1 \in Nat  BY <2>1
  <2>3. \E n \in Nat : attempts' = [attempts EXCEPT ![p] = n]  BY <2>2 DEF Begin
  <2> QED  BY <2>1, <2>3
<1> QED  BY <1>2, <1>3, <1>4 DEF Begin, TypeOK, inputs, memory, outcome

LEMMA StartTypes ==
    ASSUME TypeOK, NEW p \in Pipelines, Start(p) \/ Retry(p)
    PROVE  TypeOK' /\ Begin(p)
<1>1. Retries \in [Pipelines -> Nat]  BY RetrainingAssumption
<1>2. left' \in [Pipelines -> Nat]
  <2>1. left \in [Pipelines -> Nat]  BY DEF TypeOK
  <2>2. PICK n \in Nat : left' = [left EXCEPT ![p] = n]
    <3>1. CASE Start(p)  BY <1>1, <3>1 DEF Start
    <3>2. CASE Retry(p)
      <4>1. left[p] \in Nat /\ left[p] > 0 /\ left' = [left EXCEPT ![p] = left[p] - 1]
        BY <2>1, <3>2 DEF Retry
      <4>2. left[p] - 1 \in Nat  BY <4>1
      <4> QED  BY <4>1, <4>2
    <3> QED  BY <3>1, <3>2
  <2> QED  BY <2>1, <2>2
<1>3. Begin(p)  BY DEF Start, Retry
<1> QED  BY <1>2, <1>3, BeginTypes

LEMMA EndCommandTypes ==
    ASSUME TypeOK, NEW p \in Pipelines, EndCommand(p), Grows,
           splits' \in [Dir -> [Part -> Frame \union {Torn}]],
           report' \in [Pipelines -> SUBSET [version : 1..Len(registry'), best : Run]]
    PROVE  TypeOK' /\ Emptied(p) /\ (Over(p) \/ Moved(p))
<1>1. registry' \in Seq(Run) /\ Len(registry') \in Nat /\ Len(registry) <= Len(registry')
  BY Registered
<1>2. /\ step' \in [Pipelines -> Nat \ {0}]
      /\ \A q \in Pipelines : step'[q] <= Len(Commands[q])
      /\ phase' \in [Pipelines -> Phase]
      /\ version' \in [Pipelines -> 0..Len(registry')]
      /\ evaluated' \in [Pipelines -> 0..Len(registry')]
      /\ Exit(p) /\ (Over(p) \/ Moved(p))
  BY <1>1, EndTypes
<1>3. /\ file' \in [Pipelines -> 1..3] /\ held' \in [Pipelines -> [Part -> Frame]]
      /\ mixed' \in [Pipelines -> BOOLEAN] /\ runs' \in [Pipelines -> Seq(Run)]
      /\ best' \in [Pipelines -> Nat] /\ Emptied(p)
  BY <1>2, ExitTypes
<1>4. /\ raw' = raw /\ changes' = changes /\ attempts' = attempts /\ left' = left
      /\ aborts' = aborts /\ misread' = misread
  BY DEF EndCommand, inputs, control
<1>5. TypeOK'  BY <1>1, <1>2, <1>3, <1>4 DEF TypeOK
<1> QED  BY <1>2, <1>3, <1>5

LEMMA LoadRawTypes ==
    ASSUME TypeOK, NEW p \in Pipelines, LoadRaw(p) PROVE TypeOK'
<1>1. CASE Fail(p) /\ UNCHANGED <<aborts, misread>>
  <2>1. misread' \in SUBSET Pipelines /\ aborts' \in 0..MaxAborts  BY <1>1 DEF TypeOK
  <2> QED  BY <1>1, <2>1, FailTypes
<1>2. CASE /\ Trainable(raw)
           /\ held' = [held EXCEPT ![p] = StratifiedSplit(raw, RandomState)]
           /\ phase' = [phase EXCEPT ![p] = "truncate"]
           /\ UNCHANGED <<inputs, splits, registry, step, file, mixed, runs, best, outcome,
                          control, misread>>
  <2>1. StratifiedSplit(raw, RandomState) \in [Part -> Frame]
    BY <1>2, SplitFrames DEF TypeOK
  <2>2. held' \in [Pipelines -> [Part -> Frame]]  BY <1>2, <2>1 DEF TypeOK
  <2>3. phase' \in [Pipelines -> Phase]  BY <1>2 DEF TypeOK, Phase
  <2> QED  BY <1>2, <2>2, <2>3 DEF TypeOK, inputs, outcome, control
<1> QED  BY <1>1, <1>2 DEF LoadRaw

LEMMA FilePart ==
    ASSUME TypeOK, NEW p \in Pipelines
    PROVE  file[p] \in 1..3 /\ Current(p) \in Part /\ DirOf[p] \in Dir
<1>1. file[p] \in 1..3  BY DEF TypeOK
<1> QED  BY <1>1, Chains DEF Current, File, Part

LEMMA TruncateTypes ==
    ASSUME TypeOK, NEW p \in Pipelines, Truncate(p) PROVE TypeOK'
<1>1. Current(p) \in Part /\ DirOf[p] \in Dir  BY FilePart
<1>2. splits' \in [Dir -> [Part -> Frame \union {Torn}]]
  <2>1. splits \in [Dir -> [Part -> Frame \union {Torn}]]  BY DEF TypeOK
  <2>2. splits' = [splits EXCEPT ![DirOf[p]][Current(p)] = Torn]  BY DEF Truncate
  <2> QED  BY <1>1, <2>1, <2>2
<1>3. mixed' \in [Pipelines -> BOOLEAN]
  <2>1. mixed \in [Pipelines -> BOOLEAN]  BY DEF TypeOK
  <2>2. \A q \in Pipelines : (mixed[q] \/ (q \in Rivals(p) /\ Differ(p, q))) \in BOOLEAN
    BY <2>1
  <2>3. (\E r \in Rivals(p) : Differ(p, r)) \in BOOLEAN  OBVIOUS
  <2> QED  BY <2>2, <2>3 DEF Truncate
<1>4. phase' \in [Pipelines -> Phase]  BY DEF Truncate, TypeOK, Phase
<1> QED  BY <1>2, <1>3, <1>4 DEF Truncate, TypeOK, inputs, outcome, control

LEMMA FillTypes ==
    ASSUME TypeOK, NEW p \in Pipelines, Fill(p) PROVE TypeOK'
<1>1. file[p] \in 1..3 /\ Current(p) \in Part /\ DirOf[p] \in Dir  BY FilePart
<1>2. splits' \in [Dir -> [Part -> Frame \union {Torn}]]
  <2>1. splits \in [Dir -> [Part -> Frame \union {Torn}]]  BY DEF TypeOK
  <2>2. held[p][Current(p)] \in Frame  BY <1>1 DEF TypeOK
  <2>3. PICK content \in Frame \union {Torn} :
            splits' = [splits EXCEPT ![DirOf[p]][Current(p)] = content]
    BY <2>2 DEF Fill
  <2> QED  BY <1>1, <2>1, <2>3
<1>3. registry' = registry /\ report' = report  BY DEF Fill
<1>4. CASE file[p] < 3
  <2>1. file' \in [Pipelines -> 1..3]
    <3>1. file' = [file EXCEPT ![p] = file[p] + 1]  BY <1>4 DEF Fill
    <3>2. file[p] + 1 \in 1..3  BY <1>1, <1>4
    <3> QED  BY <3>1, <3>2 DEF TypeOK
  <2>2. mixed' \in [Pipelines -> BOOLEAN]  BY <1>4 DEF Fill, TypeOK
  <2>3. phase' \in [Pipelines -> Phase]  BY <1>4 DEF Fill, TypeOK, Phase
  <2>4. UNCHANGED <<inputs, step, held, runs, best, version, evaluated, control, misread>>
    BY <1>4 DEF Fill
  <2> QED  BY <1>2, <1>3, <2>1, <2>2, <2>3, <2>4 DEF TypeOK, inputs, control
<1>5. CASE ~(file[p] < 3)
  <2>1. EndCommand(p)  BY <1>5 DEF Fill
  <2>2. Grows  BY <1>3 DEF Grows
  <2>3. report' \in [Pipelines -> SUBSET [version : 1..Len(registry'), best : Run]]
    BY <1>3 DEF TypeOK
  <2> QED  BY <1>2, <2>1, <2>2, <2>3, EndCommandTypes
<1> QED  BY <1>4, <1>5

LEMMA ReadSplitTypes ==
    ASSUME TypeOK, NEW p \in Pipelines, ReadSplit(p) PROVE TypeOK'
<1> DEFINE frame == splits[DirOf[p]][Current(p)]
<1>1. file[p] \in 1..3 /\ Current(p) \in Part /\ DirOf[p] \in Dir  BY FilePart
<1>2. frame \in Frame
  <2>1. frame \in Frame \union {Torn}  BY <1>1 DEF TypeOK
  <2> QED  BY <2>1, NoDataFrames
<1>3. CASE /\ held' = [held EXCEPT ![p][Current(p)] = frame]
           /\ IF file[p] < 3
                 THEN file' = [file EXCEPT ![p] = @ + 1] /\ UNCHANGED phase
                 ELSE /\ phase' = [phase EXCEPT ![p] =
                                      IF Doing(p) = "train" THEN "fit" ELSE "resolve"]
                      /\ UNCHANGED file
           /\ UNCHANGED <<inputs, splits, registry, step, mixed, runs, best, outcome,
                          control, misread>>
  <2>1. held' \in [Pipelines -> [Part -> Frame]]
    <3>1. held \in [Pipelines -> [Part -> Frame]]  BY DEF TypeOK
    <3>2. held' = [held EXCEPT ![p][Current(p)] = frame]  BY <1>3
    <3> HIDE DEF frame
    <3> QED  BY <1>1, <1>2, <3>1, <3>2
  <2>2. file' \in [Pipelines -> 1..3] /\ phase' \in [Pipelines -> Phase]
    <3>1. file \in [Pipelines -> 1..3] /\ phase \in [Pipelines -> Phase]  BY DEF TypeOK
    <3>2. CASE file[p] < 3
      <4>1. file' = [file EXCEPT ![p] = file[p] + 1] /\ phase' = phase  BY <1>3, <3>2
      <4>2. file[p] + 1 \in 1..3  BY <1>1, <3>2
      <4> QED  BY <3>1, <4>1, <4>2
    <3>3. CASE ~(file[p] < 3)
      <4>1. file' = file  BY <1>3, <3>3
      <4>2. phase' = [phase EXCEPT ![p] = IF Doing(p) = "train" THEN "fit" ELSE "resolve"]
        BY <1>3, <3>3
      <4> QED  BY <3>1, <4>1, <4>2 DEF Phase
    <3> QED  BY <3>2, <3>3
  <2>3. UNCHANGED <<inputs, splits, registry, step, mixed, runs, best, outcome, control,
                    misread>>
    BY <1>3
  <2> QED  BY <2>1, <2>2, <2>3 DEF TypeOK, inputs, outcome, control
<1>4. CASE misread' = misread \union {p} /\ Fail(p) /\ UNCHANGED aborts
  <2>1. misread' \in SUBSET Pipelines /\ aborts' \in 0..MaxAborts  BY <1>4 DEF TypeOK
  <2> QED  BY <1>4, <2>1, FailTypes
<1> QED  BY <1>3, <1>4 DEF ReadSplit

LEMMA RunTypes ==
    ASSUME TypeOK, NEW p \in Pipelines
    PROVE  /\ held[p] \in [Part -> Frame] /\ runs[p] \in Seq(Run) /\ Len(runs[p]) \in Nat
           /\ \A i \in 1..Len(runs[p]) : runs[p][i] \in Run
<1>1. held[p] \in [Part -> Frame] /\ runs[p] \in Seq(Run)  BY DEF TypeOK
<1> QED  BY <1>1

LEMMA NewRun ==
    ASSUME TypeOK, NEW p \in Pipelines
    PROVE  [frames |-> held[p], names |-> held[p]["train"].columns,
            model |-> FALSE, by |-> p] \in Run
<1>1. held[p] \in [Part -> Frame]  BY RunTypes
<1>2. held[p]["train"] \in Frame  BY <1>1 DEF Part
<1>3. held[p]["train"].columns \in SUBSET Type  BY <1>2 DEF Frame
<1> QED  BY <1>1, <1>3 DEF Run

LEMMA FitTypes ==
    ASSUME TypeOK, NEW p \in Pipelines, Fit(p) PROVE TypeOK'
<1> DEFINE new == [frames |-> held[p], names |-> held[p]["train"].columns,
                   model |-> FALSE, by |-> p]
<1>1. new \in Run  BY NewRun
<1>2. runs' = [runs EXCEPT ![p] = Append(runs[p], new)]  BY DEF Fit
<1>3. runs' \in [Pipelines -> Seq(Run)]
  <2> HIDE DEF new
  <2>0. runs[p] \in Seq(Run)  BY RunTypes
  <2>1. Append(runs[p], new) \in Seq(Run)  BY <1>1, <2>0
  <2> QED  BY <1>2, <2>1 DEF TypeOK
<1>4. phase' \in [Pipelines -> Phase]  BY DEF Fit, TypeOK, Phase
<1> QED  BY <1>3, <1>4 DEF Fit, TypeOK, inputs, outcome, control

\* log_model sets one thing, of the last run.
LEMMA Logged ==
    ASSUME TypeOK, NEW p \in Pipelines, LogModel(p), Len(runs[p]) > 0
    PROVE  LET n == Len(runs[p])
           IN /\ runs' = [runs EXCEPT ![p] = [runs[p] EXCEPT ![n] = [runs[p][n] EXCEPT !.model = TRUE]]]
              /\ runs'[p] \in Seq(Run) /\ Len(runs'[p]) = n
              /\ runs'[p][n] = [runs[p][n] EXCEPT !.model = TRUE]
              /\ \A i \in 1 .. n - 1 : runs'[p][i] = runs[p][i]
<1> DEFINE n == Len(runs[p])
           last == [runs[p][n] EXCEPT !.model = TRUE]
<1>1. runs[p] \in Seq(Run) /\ n \in Nat /\ n > 0 /\ runs[p][n] \in Run
  <2>1. n \in Nat /\ runs[p] \in Seq(Run) /\ \A i \in 1..n : runs[p][i] \in Run
    BY RunTypes
  <2>2. n > 0  OBVIOUS
  <2> QED  BY <2>1, <2>2
<1>2. last \in Run  BY <1>1 DEF Run
<1>3. runs' = [runs EXCEPT ![p] = [runs[p] EXCEPT ![n] = last]]  BY DEF LogModel
<1>4. runs'[p] = [runs[p] EXCEPT ![n] = last]  BY <1>3 DEF TypeOK
<1> HIDE DEF last
<1>5. [runs[p] EXCEPT ![n] = last] \in Seq(Run)  BY <1>1, <1>2
<1>6. /\ Len([runs[p] EXCEPT ![n] = last]) = n
      /\ [runs[p] EXCEPT ![n] = last][n] = last
      /\ \A i \in 1 .. n - 1 : [runs[p] EXCEPT ![n] = last][i] = runs[p][i]
  BY <1>1
<1> QED  BY <1>3, <1>4, <1>5, <1>6 DEF last

LEMMA LogModelTypes ==
    ASSUME TypeOK, NEW p \in Pipelines, LogModel(p), Len(runs[p]) > 0 PROVE TypeOK'
<1>1. runs' \in [Pipelines -> Seq(Run)]
  <2>1. PICK s : runs' = [runs EXCEPT ![p] = s]  BY Logged
  <2>2. runs'[p] = s  BY <2>1 DEF TypeOK
  <2>3. s \in Seq(Run)  BY <2>2, Logged
  <2> QED  BY <2>1, <2>3 DEF TypeOK
<1>2. phase' \in [Pipelines -> Phase]  BY DEF LogModel, TypeOK, Phase
<1> QED  BY <1>1, <1>2 DEF LogModel, TypeOK, inputs, outcome, control

LEMMA RegisterBestTypes ==
    ASSUME TypeOK, NEW p \in Pipelines, RegisterBest(p)
    PROVE  /\ TypeOK' /\ Grows /\ version'[p] = Len(registry') /\ Len(registry') > 0
           /\ best'[p] \in 1..Len(runs[p])
           /\ registry' = Append(registry, runs[p][best'[p]])
<1>1. PICK i \in 1..Len(runs[p]) :
          best' = [best EXCEPT ![p] = i] /\ registry' = Append(registry, runs[p][i])
  BY DEF RegisterBest
<1>2. runs[p][i] \in Run /\ i \in Nat  BY <1>1, RunTypes
<1>3. Grows  BY <1>1, <1>2 DEF Grows
<1>4. registry' \in Seq(Run) /\ Len(registry') = Len(registry) + 1 /\ Len(registry) \in Nat
  BY <1>1, <1>2 DEF TypeOK
<1>5. best' \in [Pipelines -> Nat] /\ best'[p] = i  BY <1>1, <1>2 DEF TypeOK
<1>6. /\ version \in [Pipelines -> 0..Len(registry')]
      /\ evaluated \in [Pipelines -> 0..Len(registry')]
      /\ report \in [Pipelines -> SUBSET [version : 1..Len(registry'), best : Run]]
  BY <1>3, ReferencesKept
<1>7. version' \in [Pipelines -> 0..Len(registry')] /\ version'[p] = Len(registry')
  BY <1>4, <1>6 DEF RegisterBest
<1>8. phase' \in [Pipelines -> Phase]  BY DEF RegisterBest, TypeOK, Phase
<1>9. /\ evaluated' = evaluated /\ report' = report
      /\ UNCHANGED <<inputs, splits, step, file, held, mixed, runs, control, misread>>
  BY DEF RegisterBest
<1>10. TypeOK'
  <2>1. evaluated' \in [Pipelines -> 0..Len(registry')]  BY <1>6, <1>9
  <2>2. report' \in [Pipelines -> SUBSET [version : 1..Len(registry'), best : Run]]
    BY <1>6, <1>9
  <2> QED  BY <1>4, <1>5, <1>7, <1>8, <1>9, <2>1, <2>2 DEF TypeOK, inputs, control
<1> QED  BY <1>1, <1>3, <1>4, <1>5, <1>7, <1>10

LEMMA WriteReportTypes ==
    ASSUME TypeOK, NEW p \in Pipelines, WriteReport(p),
           version[p] > 0, best[p] \in 1..Len(runs[p])
    PROVE  TypeOK' /\ Emptied(p) /\ (Over(p) \/ Moved(p))
<1>1. EndCommand(p) /\ registry' = registry /\ splits' = splits  BY DEF WriteReport
<1>2. Grows  BY <1>1 DEF Grows
<1>3. version[p] \in 1..Len(registry)  BY DEF TypeOK
<1>4. runs[p][best[p]] \in Run  BY RunTypes
<1>5. {ModelReport(p, version[p])} \in SUBSET [version : 1..Len(registry), best : Run]
  BY <1>3, <1>4 DEF ModelReport
<1>6. report' \in [Pipelines -> SUBSET [version : 1..Len(registry), best : Run]]
  <2>1. report \in [Pipelines -> SUBSET [version : 1..Len(registry), best : Run]]
    BY DEF TypeOK
  <2>2. report' = [report EXCEPT ![p] = {ModelReport(p, version[p])}]  BY DEF WriteReport
  <2> QED  BY <1>5, <2>1, <2>2
<1>7. splits' \in [Dir -> [Part -> Frame \union {Torn}]]  BY <1>1 DEF TypeOK
<1>8. report' \in [Pipelines -> SUBSET [version : 1..Len(registry'), best : Run]]
  BY <1>1, <1>6
<1> QED  BY <1>1, <1>2, <1>7, <1>8, EndCommandTypes

LEMMA ResolveTypes ==
    ASSUME TypeOK, NEW p \in Pipelines, Resolve(p) PROVE TypeOK'
<1>1. CASE /\ LatestVersion > 0
           /\ evaluated' = [evaluated EXCEPT ![p] = LatestVersion]
           /\ phase' = [phase EXCEPT ![p] = "score"]
           /\ UNCHANGED <<inputs, splits, registry, step, memory, version, report,
                          control, misread>>
  <2>1. LatestVersion \in 0..Len(registry)  BY DEF LatestVersion, TypeOK
  <2>2. evaluated' \in [Pipelines -> 0..Len(registry)]  BY <1>1, <2>1 DEF TypeOK
  <2>3. phase' \in [Pipelines -> Phase]  BY <1>1 DEF TypeOK, Phase
  <2> QED  BY <1>1, <2>2, <2>3 DEF TypeOK, inputs, memory, control
<1>2. CASE Fail(p) /\ UNCHANGED <<aborts, misread>>
  <2>1. misread' \in SUBSET Pipelines /\ aborts' \in 0..MaxAborts  BY <1>2 DEF TypeOK
  <2> QED  BY <1>2, <2>1, FailTypes
<1> QED  BY <1>1, <1>2 DEF Resolve

LEMMA ScoreTypes ==
    ASSUME TypeOK, NEW p \in Pipelines, Score(p) PROVE TypeOK'
<1>1. CASE EndCommand(p) /\ UNCHANGED <<splits, registry, report>>
  <2>1. Grows  BY <1>1 DEF Grows
  <2>2. /\ splits' \in [Dir -> [Part -> Frame \union {Torn}]]
        /\ report' \in [Pipelines -> SUBSET [version : 1..Len(registry'), best : Run]]
    BY <1>1 DEF TypeOK
  <2> QED  BY <1>1, <2>1, <2>2, EndCommandTypes
<1>2. CASE Fail(p) /\ UNCHANGED <<aborts, misread>>
  <2>1. misread' \in SUBSET Pipelines /\ aborts' \in 0..MaxAborts  BY <1>2 DEF TypeOK
  <2> QED  BY <1>2, <2>1, FailTypes
<1> QED  BY <1>1, <1>2 DEF Score

LEMMA AbortTypes ==
    ASSUME TypeOK, NEW p \in Pipelines, Abort(p)
    PROVE  TypeOK' /\ Over(p) /\ Emptied(p) /\ phase'[p] = "failed"
<1>1. misread' \in SUBSET Pipelines /\ aborts' \in 0..MaxAborts
  BY RetrainingAssumption DEF Abort, TypeOK
<1> QED  BY <1>1, FailTypes DEF Abort

-----------------------------------------------------------------------------
\* What one action changes.

LEMMA ExitUntouched ==
    ASSUME TypeOK, NEW p \in Pipelines, NEW q \in Pipelines, q # p, Exit(p)
    PROVE  /\ file'[q] = file[q] /\ held'[q] = held[q] /\ runs'[q] = runs[q]
           /\ best'[q] = best[q]
BY DEF Exit, TypeOK

LEMMA LeaveUntouched ==
    ASSUME TypeOK, NEW p \in Pipelines, NEW q \in Pipelines, q # p, NEW how, Leave(p, how)
    PROVE  /\ file'[q] = file[q] /\ held'[q] = held[q] /\ runs'[q] = runs[q]
           /\ best'[q] = best[q] /\ phase'[q] = phase[q] /\ step'[q] = step[q]
           /\ version'[q] = version[q] /\ evaluated'[q] = evaluated[q]
<1>1. Exit(p)  BY DEF Leave
<1>2. phase'[q] = phase[q] /\ step'[q] = step[q]  BY DEF Leave, TypeOK
<1>3. version'[q] = version[q] /\ evaluated'[q] = evaluated[q]  BY DEF Leave, TypeOK
<1> QED  BY <1>1, <1>2, <1>3, ExitUntouched

LEMMA EndUntouched ==
    ASSUME TypeOK, NEW p \in Pipelines, NEW q \in Pipelines, q # p, EndCommand(p),
           report'[q] = report[q]
    PROVE  Untouched(q)
<1>1. /\ file'[q] = file[q] /\ held'[q] = held[q] /\ runs'[q] = runs[q]
      /\ best'[q] = best[q] /\ phase'[q] = phase[q] /\ step'[q] = step[q]
      /\ version'[q] = version[q] /\ evaluated'[q] = evaluated[q]
  <2>1. CASE step[p] < Len(Commands[p])
    <3>1. Exit(p)  BY <2>1 DEF EndCommand
    <3>2. step' = [step EXCEPT ![p] = @ + 1]  BY <2>1 DEF EndCommand
    <3>3. phase' = [phase EXCEPT ![p] = FirstPhase(Commands[p][step[p] + 1])]  BY <2>1 DEF EndCommand
    <3>4. version' = version /\ evaluated' = evaluated  BY <2>1 DEF EndCommand
    <3>5. step'[q] = step[q] /\ phase'[q] = phase[q]  BY <3>2, <3>3 DEF TypeOK
    <3> QED  BY <3>1, <3>4, <3>5, ExitUntouched
  <2>2. CASE ~(step[p] < Len(Commands[p]))
    BY <2>2, LeaveUntouched DEF EndCommand
  <2> QED  BY <2>1, <2>2
<1>2. attempts'[q] = attempts[q] /\ misread' = misread  BY DEF EndCommand, control
<1> QED  BY <1>1, <1>2 DEF Untouched

LEMMA FailUntouched ==
    ASSUME TypeOK, NEW p \in Pipelines, NEW q \in Pipelines, q # p, Fail(p),
           misread' \in {misread, misread \union {p}}
    PROVE  Untouched(q)
<1>1. Leave(p, "failed") /\ report' = report /\ attempts' = attempts  BY DEF Fail
<1>2. /\ file'[q] = file[q] /\ held'[q] = held[q] /\ runs'[q] = runs[q]
      /\ best'[q] = best[q] /\ phase'[q] = phase[q] /\ step'[q] = step[q]
      /\ version'[q] = version[q] /\ evaluated'[q] = evaluated[q]
  BY <1>1, LeaveUntouched
<1>3. q \in misread' <=> q \in misread  OBVIOUS
<1> QED  BY <1>1, <1>2, <1>3 DEF Untouched

LEMMA OthersUntouched ==
    ASSUME TypeOK, NEW p \in Pipelines, Acts(p), NEW q \in Pipelines, q # p
    PROVE  Untouched(q)
<1>1. CASE Start(p) \/ Retry(p)
  <2>1. Begin(p)  BY <1>1 DEF Start, Retry
  <2>2. attempts'[q] = attempts[q] /\ phase'[q] = phase[q]  BY <2>1 DEF Begin, TypeOK
  <2> QED  BY <2>1, <2>2 DEF Begin, Untouched, memory, outcome
<1>2. CASE LoadRaw(p)
  <2>1. CASE Fail(p) /\ UNCHANGED <<aborts, misread>>  BY <2>1, FailUntouched
  <2>2. CASE /\ held' = [held EXCEPT ![p] = StratifiedSplit(raw, RandomState)]
             /\ phase' = [phase EXCEPT ![p] = "truncate"]
             /\ UNCHANGED <<inputs, splits, registry, step, file, mixed, runs, best, outcome,
                            control, misread>>
    <3>1. held'[q] = held[q] /\ phase'[q] = phase[q]  BY <2>2 DEF TypeOK
    <3> QED  BY <2>2, <3>1 DEF Untouched, outcome, control
  <2> QED  BY <1>2, <2>1, <2>2 DEF LoadRaw
<1>3. CASE Truncate(p)
  <2>1. phase'[q] = phase[q]  BY <1>3 DEF Truncate, TypeOK
  <2> QED  BY <1>3, <2>1 DEF Truncate, Untouched, outcome, control
<1>4. CASE Fill(p)
  <2>1. CASE file[p] < 3
    <3>1. file'[q] = file[q] /\ phase'[q] = phase[q]  BY <1>4, <2>1 DEF Fill, TypeOK
    <3>2. report' = report  BY <1>4 DEF Fill
    <3>3. UNCHANGED <<inputs, step, held, runs, best, version, evaluated, control, misread>>
      BY <1>4, <2>1 DEF Fill
    <3> QED  BY <3>1, <3>2, <3>3 DEF Untouched, control
  <2>2. CASE ~(file[p] < 3)
    <3>1. EndCommand(p) /\ report' = report  BY <1>4, <2>2 DEF Fill
    <3> QED  BY <3>1, EndUntouched
  <2> QED  BY <2>1, <2>2
<1>5. CASE ReadSplit(p)
  <2>1. CASE misread' = misread \union {p} /\ Fail(p)
    BY <2>1, FailUntouched
  <2>2. CASE /\ held' = [held EXCEPT ![p][Current(p)] = splits[DirOf[p]][Current(p)]]
             /\ IF file[p] < 3
                   THEN file' = [file EXCEPT ![p] = @ + 1] /\ UNCHANGED phase
                   ELSE /\ phase' = [phase EXCEPT ![p] =
                                        IF Doing(p) = "train" THEN "fit" ELSE "resolve"]
                        /\ UNCHANGED file
             /\ UNCHANGED <<inputs, splits, registry, step, mixed, runs, best, outcome,
                            control, misread>>
    <3>1. held'[q] = held[q]  BY <2>2 DEF TypeOK
    <3>2. file'[q] = file[q] /\ phase'[q] = phase[q]
      <4>1. CASE file[p] < 3  BY <2>2, <4>1 DEF TypeOK
      <4>2. CASE ~(file[p] < 3)  BY <2>2, <4>2 DEF TypeOK
      <4> QED  BY <4>1, <4>2
    <3> QED  BY <2>2, <3>1, <3>2 DEF Untouched, outcome, control
  <2> QED  BY <1>5, <2>1, <2>2 DEF ReadSplit
<1>6. CASE Fit(p)
  <2>1. runs'[q] = runs[q] /\ phase'[q] = phase[q]  BY <1>6 DEF Fit, TypeOK
  <2> QED  BY <1>6, <2>1 DEF Fit, Untouched, outcome, control
<1>7. CASE LogModel(p)
  <2>1. runs'[q] = runs[q] /\ phase'[q] = phase[q]  BY <1>7 DEF LogModel, TypeOK
  <2> QED  BY <1>7, <2>1 DEF LogModel, Untouched, outcome, control
<1>8. CASE RegisterBest(p)
  <2>1. best'[q] = best[q] /\ version'[q] = version[q] /\ phase'[q] = phase[q]
    BY <1>8 DEF RegisterBest, TypeOK
  <2> QED  BY <1>8, <2>1 DEF RegisterBest, Untouched, control
<1>9. CASE WriteReport(p)
  <2>1. EndCommand(p) /\ report'[q] = report[q]  BY <1>9 DEF WriteReport, TypeOK
  <2> QED  BY <2>1, EndUntouched
<1>10. CASE Resolve(p)
  <2>1. CASE Fail(p) /\ UNCHANGED <<aborts, misread>>  BY <2>1, FailUntouched
  <2>2. CASE /\ evaluated' = [evaluated EXCEPT ![p] = LatestVersion]
             /\ phase' = [phase EXCEPT ![p] = "score"]
             /\ UNCHANGED <<inputs, splits, registry, step, memory, version, report,
                            control, misread>>
    <3>1. evaluated'[q] = evaluated[q] /\ phase'[q] = phase[q]  BY <2>2 DEF TypeOK
    <3> QED  BY <2>2, <3>1 DEF Untouched, memory, control
  <2> QED  BY <1>10, <2>1, <2>2 DEF Resolve
<1>11. CASE Score(p)
  <2>1. CASE Fail(p) /\ UNCHANGED <<aborts, misread>>  BY <2>1, FailUntouched
  <2>2. CASE EndCommand(p) /\ UNCHANGED <<splits, registry, report>>
    BY <2>2, EndUntouched
  <2> QED  BY <1>11, <2>1, <2>2 DEF Score
<1>12. CASE Abort(p)
  <2>1. Fail(p) /\ misread' = misread  BY <1>12 DEF Abort
  <2> QED  BY <2>1, FailUntouched
<1> QED  BY <1>1, <1>2, <1>3, <1>4, <1>5, <1>6, <1>7, <1>8, <1>9, <1>10, <1>11, <1>12
         DEF Acts, Step

LEMMA StepsGrow ==
    ASSUME TypeOK, NEW p \in Pipelines, Acts(p)
    PROVE  Grows /\ (registry' # registry => RegisterBest(p))
<1>1. CASE RegisterBest(p)  BY <1>1, RegisterBestTypes
<1>2. CASE ~RegisterBest(p)
  <2>1. registry' = registry
    BY <1>2 DEF Acts, Step, Start, Retry, Begin, LoadRaw, Fail, Truncate, Fill, ReadSplit,
                Fit, LogModel, WriteReport, Resolve, Score, Abort
  <2> QED  BY <2>1 DEF Grows
<1> QED  BY <1>1, <1>2

LEMMA StepTypes ==
    ASSUME TypeOK, NEW p \in Pipelines, OnTrack(p), Acts(p)
    PROVE  TypeOK'
<1>1. ASSUME LogModel(p) PROVE Len(runs[p]) > 0  BY <1>1 DEF OnTrack, LogModel
<1>2. ASSUME WriteReport(p) PROVE version[p] > 0 /\ best[p] \in 1..Len(runs[p])
  BY <1>2 DEF OnTrack, WriteReport
<1> QED
  BY <1>1, <1>2, StartTypes, LoadRawTypes, TruncateTypes, FillTypes, ReadSplitTypes, FitTypes,
     LogModelTypes, RegisterBestTypes, WriteReportTypes, ResolveTypes, ScoreTypes, AbortTypes
     DEF Acts, Step

\* The memory of a command that has just begun.
LEMMA OverOnTrack ==
    ASSUME TypeOK, NEW p \in Pipelines, Over(p) \/ Moved(p) PROVE OnTrack(p)'
<1>1. CASE Over(p)  BY <1>1 DEF Over, OnTrack, Ended
<1>2. CASE Moved(p)
  <2>1. phase'[p] \in {"load", "read"}  BY <1>2 DEF Moved, FirstPhase
  <2> QED  BY <2>1 DEF OnTrack, Ended
<1> QED  BY <1>1, <1>2

LEMMA StepOnTrack ==
    ASSUME TypeOK, NEW p \in Pipelines, OnTrack(p), Acts(p)
    PROVE  OnTrack(p)'
<1>0. TypeOK'  BY StepTypes
<1>1. CASE Start(p) \/ Retry(p)
  <2>1. Begin(p)  BY <1>1 DEF Start, Retry
  <2>2. phase'[p] \in {"load", "read"}  BY <2>1 DEF Begin, TypeOK, FirstPhase
  <2> QED  BY <2>2 DEF OnTrack, Ended
<1>2. ASSUME Fail(p), misread' \in SUBSET Pipelines, aborts' \in 0..MaxAborts
      PROVE  OnTrack(p)'
  <2>1. Over(p)  BY <1>2, FailTypes
  <2> QED  BY <2>1, OverOnTrack
<1>3. ASSUME EndCommand(p), Grows PROVE OnTrack(p)'
  <2>1. registry' \in Seq(Run) /\ Len(registry') \in Nat /\ Len(registry) <= Len(registry')
    BY <1>3, Registered
  <2>2. Over(p) \/ Moved(p)  BY <1>3, <2>1, EndTypes
  <2> QED  BY <2>2, OverOnTrack
<1>4. Grows  BY StepsGrow
<1>5. misread' \in SUBSET Pipelines /\ aborts' \in 0..MaxAborts  BY <1>0 DEF TypeOK
<1>6. CASE LoadRaw(p)
  <2>1. CASE phase' = [phase EXCEPT ![p] = "truncate"]
    <3>1. phase'[p] = "truncate"  BY <2>1 DEF TypeOK
    <3> QED  BY <3>1 DEF OnTrack, Ended
  <2> QED  BY <1>6, <2>1, <1>2, <1>5 DEF LoadRaw
<1>7. CASE Truncate(p)
  <2>1. phase'[p] = "fill"  BY <1>7 DEF Truncate, TypeOK
  <2> QED  BY <2>1 DEF OnTrack, Ended
<1>8. CASE Fill(p)
  <2>1. CASE file[p] < 3
    <3>1. phase'[p] = "truncate"  BY <1>8, <2>1 DEF Fill, TypeOK
    <3> QED  BY <3>1 DEF OnTrack, Ended
  <2>2. CASE ~(file[p] < 3)  BY <1>8, <2>2, <1>3, <1>4 DEF Fill
  <2> QED  BY <2>1, <2>2
<1>9. CASE ReadSplit(p)
  <2>1. CASE Fail(p)  BY <2>1, <1>2, <1>5
  <2>2. CASE ~Fail(p)
    <3>1. step' = step  BY <1>9, <2>2 DEF ReadSplit
    <3>2. CASE file[p] < 3
      <4>1. phase'[p] = "read"  BY <1>9, <2>2, <3>2 DEF ReadSplit, TypeOK
      <4> QED  BY <4>1 DEF OnTrack, Ended
    <3>3. CASE ~(file[p] < 3)
      <4>1. phase' = [phase EXCEPT ![p] = IF Doing(p) = "train" THEN "fit" ELSE "resolve"]
        BY <1>9, <2>2, <3>3 DEF ReadSplit
      <4>2. phase'[p] = IF Doing(p) = "train" THEN "fit" ELSE "resolve"
        BY <4>1 DEF TypeOK
      <4>3. Doing(p)' = Doing(p)  BY <3>1 DEF Doing
      <4> QED  BY <4>2, <4>3 DEF OnTrack, Ended
    <3> QED  BY <3>2, <3>3
  <2> QED  BY <2>1, <2>2
<1>10. CASE Fit(p)
  <2>1. phase'[p] = "log" /\ step' = step  BY <1>10 DEF Fit, TypeOK
  <2>2. Doing(p)' = "train"  BY <1>10, <2>1 DEF Fit, OnTrack, Doing
  <2>3. runs'[p] = Append(runs[p], [frames |-> held[p], names |-> held[p]["train"].columns,
                                    model |-> FALSE, by |-> p])
    BY <1>10 DEF Fit, TypeOK
  <2>4. Len(runs'[p]) > 0
    <3>1. runs[p] \in Seq(Run) /\ Len(runs[p]) \in Nat  BY RunTypes
    <3> QED  BY <2>3, <3>1, NewRun
  <2> QED  BY <2>1, <2>2, <2>4 DEF OnTrack, Ended
<1>11. CASE LogModel(p)
  <2>1. phase'[p] \in {"fit", "register"} /\ step' = step  BY <1>11 DEF LogModel, TypeOK
  <2>2. Doing(p)' = "train"  BY <1>11, <2>1 DEF LogModel, OnTrack, Doing
  <2> QED  BY <2>1, <2>2 DEF OnTrack, Ended
<1>12. CASE RegisterBest(p)
  <2>1. phase'[p] = "report" /\ step' = step /\ runs' = runs
    BY <1>12 DEF RegisterBest, TypeOK
  <2>2. Doing(p)' = "train"  BY <1>12, <2>1 DEF RegisterBest, OnTrack, Doing
  <2>3. version'[p] > 0 /\ best'[p] \in 1 .. Len(runs'[p])
    BY <1>12, <2>1, RegisterBestTypes
  <2> QED  BY <2>1, <2>2, <2>3 DEF OnTrack, Ended
<1>13. CASE WriteReport(p)
  <2>1. EndCommand(p)  BY <1>13 DEF WriteReport
  <2> QED  BY <2>1, <1>3, <1>4
<1>14. CASE Resolve(p)
  <2>1. CASE Fail(p)  BY <2>1, <1>2, <1>5
  <2>2. CASE ~Fail(p)
    <3>1. /\ LatestVersion > 0 /\ evaluated' = [evaluated EXCEPT ![p] = LatestVersion]
          /\ phase' = [phase EXCEPT ![p] = "score"] /\ version' = version
      BY <1>14, <2>2 DEF Resolve
    <3>2. phase'[p] = "score" /\ evaluated'[p] = Len(registry) /\ Len(registry) > 0
      BY <3>1 DEF TypeOK, LatestVersion
    <3>3. version'[p] \in 0..Len(registry)  BY <3>1 DEF TypeOK
    <3> QED  BY <3>2, <3>3 DEF OnTrack, Ended
  <2> QED  BY <2>1, <2>2
<1>15. CASE Score(p)  BY <1>15, <1>2, <1>3, <1>4, <1>5 DEF Score
<1>16. CASE Abort(p)  BY <1>16, <1>2, <1>5 DEF Abort
<1> QED  BY <1>1, <1>6, <1>7, <1>8, <1>9, <1>10, <1>11, <1>12, <1>13, <1>14, <1>15, <1>16
         DEF Acts, Step

-----------------------------------------------------------------------------
\* Memory is an invariant.

LEMMA InitMemory == Init => Memory
<1> SUFFICES ASSUME Init PROVE Memory  OBVIOUS
<1>1. NoData \in [Part -> Frame]  BY NoDataFrames
<1>2. raw \in Csv  BY RetrainingAssumption DEF Init
<1>3. \A p \in Pipelines : step[p] <= Len(Commands[p])
  <2> SUFFICES ASSUME NEW p \in Pipelines PROVE step[p] <= Len(Commands[p])  OBVIOUS
  <2>1. Len(Commands[p]) \in Nat /\ Len(Commands[p]) > 0  BY Chains
  <2> QED  BY <2>1 DEF Init
<1>4. registry = <<>> /\ Len(registry) = 0  BY DEF Init
<1>5. /\ version \in [Pipelines -> 0..Len(registry)]
      /\ evaluated \in [Pipelines -> 0..Len(registry)]
      /\ report \in [Pipelines -> SUBSET [version : 1..Len(registry), best : Run]]
  BY <1>4 DEF Init
<1>6. /\ splits \in [Dir -> [Part -> Frame \union {Torn}]]
      /\ held \in [Pipelines -> [Part -> Frame]]
  BY <1>1 DEF Init
<1>7. runs \in [Pipelines -> Seq(Run)] /\ registry \in Seq(Run)  BY DEF Init
<1>8. changes \in 0..MaxChanges /\ aborts \in 0..MaxAborts
  BY RetrainingAssumption DEF Init
<1>9. TypeOK  BY <1>2, <1>3, <1>5, <1>6, <1>7, <1>8 DEF Init, TypeOK, Phase, Ended
<1>10. \A p \in Pipelines : OnTrack(p)  BY DEF Init, OnTrack, Ended
<1> QED  BY <1>9, <1>10 DEF Memory

LEMMA UntouchedOnTrack ==
    ASSUME NEW q \in Pipelines, OnTrack(q), Untouched(q) PROVE OnTrack(q)'
BY DEF OnTrack, Untouched, Doing

LEMMA StepsOnTrack ==
    ASSUME Memory, NEW p \in Pipelines, Acts(p) PROVE Memory'
<1>1. TypeOK /\ \A q \in Pipelines : OnTrack(q)  BY DEF Memory
<1>2. TypeOK'  BY <1>1, StepTypes
<1>3. OnTrack(p)'  BY <1>1, StepOnTrack
<1>4. ASSUME NEW q \in Pipelines, q # p PROVE OnTrack(q)'
  BY <1>1, <1>4, OthersUntouched, UntouchedOnTrack
<1> QED  BY <1>2, <1>3, <1>4 DEF Memory

\* The raw CSV is replaced, or nothing happens.
Bystander == (\E c \in Csv : ReplaceRaw(c)) \/ UNCHANGED vars

LEMMA BystanderOnTrack ==
    ASSUME Memory, Bystander
    PROVE  /\ Memory'
           /\ UNCHANGED <<splits, registry, step, phase, memory, outcome, control, misread>>
<1>1. TypeOK /\ \A q \in Pipelines : OnTrack(q)  BY DEF Memory
<1>2. UNCHANGED <<splits, registry, step, phase, memory, outcome, control, misread>>
  BY DEF Bystander, ReplaceRaw, vars
<1>3. raw' \in Csv /\ changes' \in 0..MaxChanges
  <2>1. CASE UNCHANGED vars  BY <1>1, <2>1 DEF TypeOK, vars, inputs
  <2>2. CASE \E c \in Csv : ReplaceRaw(c)
    <3>1. changes \in 0..MaxChanges /\ MaxChanges \in Nat  BY <1>1, RetrainingAssumption DEF TypeOK
    <3>2. changes < MaxChanges /\ changes' = changes + 1 /\ raw' \in Csv  BY <2>2 DEF ReplaceRaw
    <3> QED  BY <3>1, <3>2
  <2> QED  BY <2>1, <2>2 DEF Bystander
<1>4. TypeOK'  BY <1>1, <1>2, <1>3 DEF TypeOK, memory, outcome, control
<1>5. ASSUME NEW q \in Pipelines PROVE OnTrack(q)'
  BY <1>1, <1>2 DEF OnTrack, Doing, memory, outcome, control
<1> QED  BY <1>2, <1>4, <1>5 DEF Memory

LEMMA Steps ==
    [Next]_vars <=> (Bystander \/ \E p \in Pipelines : Acts(p))
BY DEF Next, Bystander, Acts

\* Every pipeline comes to each step of train, evaluate and preprocess with what that
\* step uses in memory, and keeps it there while the others act.
THEOREM MemoryOnTrack == Spec => []Memory
<1>1. Init => Memory  BY InitMemory
<1>2. Memory /\ [Next]_vars => Memory'
  BY Steps, BystanderOnTrack, StepsOnTrack
<1> QED  BY <1>1, <1>2, PTL DEF Spec

\* The pipelines, the splits, MLflow's runs and the registry keep their types, whatever
\* runs at the same time and whatever is killed.
THEOREM RetrainingTypeCorrect == Spec => []TypeOK
<1>1. Memory => TypeOK  BY DEF Memory
<1> QED  BY <1>1, MemoryOnTrack, PTL

\* evaluate never scores a version older than the one its own chain has registered.
THEOREM EvaluatesNothingOlder == Spec => []EvaluatesNoOlder
<1>1. Memory => EvaluatesNoOlder  BY DEF Memory, OnTrack, EvaluatesNoOlder
<1> QED  BY <1>1, MemoryOnTrack, PTL

-----------------------------------------------------------------------------
\* What is in a split file that can be read is a part of some CSV's cut.

Cut(part) == {StratifiedSplit(c, RandomState)[part] : c \in {x \in Csv : Trainable(x)}}

InUse == {"fit", "log", "register", "report", "resolve", "score"}

HeldCut(p) ==
    /\ phase[p] \in Ended \union {"load"} => file[p] = 1
    /\ phase[p] \in {"truncate", "fill"} =>
          \E c \in Csv : Trainable(c) /\ held[p] = StratifiedSplit(c, RandomState)
    /\ phase[p] = "read" => \A i \in 1..3 : i < file[p] => held[p][File[i]] \in Cut(File[i])
    /\ phase[p] \in InUse =>
          \A part \in Part : /\ held[p][part] \in Cut(part)
                             /\ held[p]["train"].columns \subseteq held[p][part].columns

SplitsCut == \A d \in Dir, part \in Part : splits[d][part] \in Cut(part) \union {Absent, Torn}

FramesCut == SplitsCut /\ \A p \in Pipelines : HeldCut(p)

LEMMA CutFacts ==
    ASSUME NEW part \in Part, NEW f \in Cut(part)
    PROVE  \E c \in Csv :
              /\ c \in Splittable /\ c \cap Fraud # {} /\ c # {}
              /\ f.csv = c /\ f.rows = SplitWith[<<c, RandomState>>][part]
              /\ f.columns = Columns(c)
              /\ f \notin {Absent, Torn} /\ f.rows \cap Fraud # {}
<1>1. PICK c \in Csv : Trainable(c) /\ f = StratifiedSplit(c, RandomState)[part]
  BY DEF Cut
<1>2. c \in Splittable /\ c \cap Fraud # {} /\ c # {} /\ RandomState \in Seed
  BY <1>1, RetrainingAssumption DEF Trainable
<1>3. f = [csv |-> c, rows |-> SplitWith[<<c, RandomState>>][part], columns |-> Columns(c)]
  BY <1>1 DEF StratifiedSplit
<1>4. f.csv = c /\ f.rows = SplitWith[<<c, RandomState>>][part] /\ f.columns = Columns(c)
  BY <1>3
<1>5. Absent.csv = {} /\ Torn.csv = {}  BY DEF Absent, Torn
<1>6. f \notin {Absent, Torn}  BY <1>2, <1>4, <1>5
<1>7. SplitWith[<<c, RandomState>>][part] \cap Fraud # {}  BY <1>2, SplitAssumption
<1> QED  BY <1>2, <1>4, <1>6, <1>7

\* Two parts of one CSV have no row in common, whichever runs of preprocess cut them.
LEMMA CutApart ==
    ASSUME NEW a \in Part, NEW b \in Part, a # b, NEW f \in Cut(a), NEW g \in Cut(b),
           f.csv = g.csv
    PROVE  f.rows \cap g.rows = {}
<1>1. PICK c \in Csv : c \in Splittable /\ f.csv = c /\ f.rows = SplitWith[<<c, RandomState>>][a]
  BY CutFacts
<1>2. PICK d \in Csv : d \in Splittable /\ g.csv = d /\ g.rows = SplitWith[<<d, RandomState>>][b]
  BY CutFacts
<1>3. c = d /\ RandomState \in Seed  BY <1>1, <1>2, RetrainingAssumption
<1> QED  BY <1>1, <1>2, <1>3, SplitAssumption

LEMMA FileParts ==
    /\ \A i \in 1..3 : File[i] \in Part
    /\ \A part \in Part : \E i \in 1..3 : part = File[i]
    /\ File[1] = "train" /\ File[2] = "validation" /\ File[3] = "test"
BY DEF File, Part

\* What Fill may leave in a file.
LEMMA FillContent ==
    ASSUME TypeOK, NEW p \in Pipelines, HeldCut(p), Fill(p)
    PROVE  \E content \in Cut(Current(p)) \union {Torn} :
              splits' = [splits EXCEPT ![DirOf[p]][Current(p)] = content]
<1>1. Current(p) \in Part  BY FilePart
<1>2. PICK c \in Csv : Trainable(c) /\ held[p] = StratifiedSplit(c, RandomState)
  BY DEF HeldCut, Fill
<1>3. held[p][Current(p)] \in Cut(Current(p))  BY <1>1, <1>2 DEF Cut
<1> QED  BY <1>3 DEF Fill

LEMMA StepSplitsCut ==
    ASSUME Memory, FramesCut, NEW p \in Pipelines, Acts(p) PROVE SplitsCut'
<1>0. TypeOK /\ SplitsCut /\ HeldCut(p)  BY DEF Memory, FramesCut
<1>1. splits \in [Dir -> [Part -> Frame \union {Torn}]] /\ DirOf[p] \in Dir
  BY <1>0, Chains DEF TypeOK
<1>2. ASSUME NEW part \in Part, NEW content \in Cut(part) \union {Torn},
             splits' = [splits EXCEPT ![DirOf[p]][part] = content]
      PROVE  SplitsCut'
  <2> SUFFICES ASSUME NEW d \in Dir, NEW other \in Part
               PROVE  splits'[d][other] \in Cut(other) \union {Absent, Torn}
    BY DEF SplitsCut, Cut, Trainable, StratifiedSplit, Columns
  <2>1. splits[d][other] \in Cut(other) \union {Absent, Torn}  BY <1>0 DEF SplitsCut
  <2>2. splits'[d][other] = IF d = DirOf[p] /\ other = part THEN content ELSE splits[d][other]
    BY <1>1, <1>2
  <2> QED  BY <2>1, <2>2
<1>3. CASE UNCHANGED splits
  BY <1>0, <1>3 DEF SplitsCut
<1>4. CASE Start(p) \/ Retry(p)
  <2>1. Begin(p)  BY <1>4 DEF Start, Retry
  <2>2. splits' = splits \/ splits' = [splits EXCEPT ![DirOf[p]] = NoData]  BY <2>1 DEF Begin
  <2>3. CASE splits' = [splits EXCEPT ![DirOf[p]] = NoData]
    <3> SUFFICES ASSUME NEW d \in Dir, NEW other \in Part
                 PROVE  splits'[d][other] \in Cut(other) \union {Absent, Torn}
      BY DEF SplitsCut
    <3>1. splits[d][other] \in Cut(other) \union {Absent, Torn}  BY <1>0 DEF SplitsCut
    <3>2. splits'[d] = IF d = DirOf[p] THEN NoData ELSE splits[d]  BY <1>1, <2>3
    <3>3. NoData[other] = Absent  BY DEF NoData
    <3> QED  BY <3>1, <3>2, <3>3
  <2> QED  BY <1>3, <2>2, <2>3
<1>5. CASE Truncate(p)
  <2>1. Current(p) \in Part  BY <1>0, FilePart
  <2>2. splits' = [splits EXCEPT ![DirOf[p]][Current(p)] = Torn]  BY <1>5 DEF Truncate
  <2> QED  BY <2>1, <2>2, <1>2
<1>6. CASE Fill(p)
  <2>1. Current(p) \in Part  BY <1>0, FilePart
  <2>2. PICK content \in Cut(Current(p)) \union {Torn} :
            splits' = [splits EXCEPT ![DirOf[p]][Current(p)] = content]
    BY <1>0, <1>6, FillContent
  <2> QED  BY <2>1, <2>2, <1>2
<1> QED
  BY <1>3, <1>4, <1>5, <1>6
     DEF Acts, Step, LoadRaw, Fail, ReadSplit, Fit, LogModel, RegisterBest, WriteReport,
         Resolve, Score, Abort

LEMMA StepHeldCut ==
    ASSUME Memory, FramesCut, NEW p \in Pipelines, Acts(p) PROVE HeldCut(p)'
<1>0. TypeOK /\ TypeOK' /\ SplitsCut /\ HeldCut(p) /\ OnTrack(p)
  BY StepsOnTrack DEF Memory, FramesCut
<1>1. ASSUME Over(p) \/ Moved(p), Emptied(p) PROVE HeldCut(p)'
  <2>1. phase'[p] \in Ended \union {"load", "read"}  BY <1>1 DEF Over, Moved, FirstPhase
  <2>2. file'[p] = 1  BY <1>1 DEF Emptied
  <2> QED  BY <2>1, <2>2 DEF HeldCut, Ended, InUse
<1>2. ASSUME Fail(p) PROVE HeldCut(p)'
  <2>1. misread' \in SUBSET Pipelines /\ aborts' \in 0..MaxAborts  BY <1>0 DEF TypeOK
  <2> QED  BY <1>0, <1>2, <2>1, <1>1, FailTypes
<1>3. ASSUME EndCommand(p) PROVE HeldCut(p)'
  <2>1. /\ Grows /\ splits' \in [Dir -> [Part -> Frame \union {Torn}]]
        /\ report' \in [Pipelines -> SUBSET [version : 1..Len(registry'), best : Run]]
    BY <1>0, StepsGrow DEF TypeOK
  <2> QED  BY <1>0, <1>3, <2>1, <1>1, EndCommandTypes
<1>4. ASSUME phase'[p] \in InUse, phase[p] \in InUse, held' = held
      PROVE  HeldCut(p)'
  <2>1. \A part \in Part : /\ held[p][part] \in Cut(part)
                           /\ held[p]["train"].columns \subseteq held[p][part].columns
    BY <1>0, <1>4 DEF HeldCut
  <2>2. \A part \in Part : Cut(part)' = Cut(part)
    BY DEF Cut, Trainable, StratifiedSplit, Columns
  <2> QED  BY <1>4, <2>1, <2>2 DEF HeldCut, InUse, Ended
<1>5. CASE Start(p) \/ Retry(p)
  <2>1. Begin(p)  BY <1>5 DEF Start, Retry
  <2>2. phase[p] \in Ended  BY <1>5 DEF Start, Retry, Ended
  <2>3. file'[p] = 1  BY <1>0, <2>1, <2>2 DEF HeldCut, Begin, memory
  <2>4. phase'[p] \in {"load", "read"}  BY <1>0, <2>1 DEF Begin, TypeOK, FirstPhase
  <2> QED  BY <2>3, <2>4 DEF HeldCut, Ended, InUse
<1>6. CASE LoadRaw(p)
  <2>1. CASE ~Fail(p)
    <3>1. /\ Trainable(raw) /\ held' = [held EXCEPT ![p] = StratifiedSplit(raw, RandomState)]
          /\ phase' = [phase EXCEPT ![p] = "truncate"]
      BY <1>6, <2>1 DEF LoadRaw
    <3>2. raw \in Csv  BY <1>0 DEF TypeOK
    <3>3. held'[p] = StratifiedSplit(raw, RandomState) /\ phase'[p] = "truncate"
      BY <1>0, <3>1 DEF TypeOK
    <3>4. \E c \in Csv : Trainable(c) /\ held'[p] = StratifiedSplit(c, RandomState)
      BY <3>1, <3>2, <3>3
    <3> QED  BY <3>3, <3>4 DEF HeldCut, Ended, InUse, Trainable, StratifiedSplit, Columns
  <2> QED  BY <2>1, <1>2
<1>7. ASSUME phase'[p] \in {"truncate", "fill"}, phase[p] \in {"truncate", "fill"}, held' = held
      PROVE  HeldCut(p)'
  <2>1. \E c \in Csv : Trainable(c) /\ held[p] = StratifiedSplit(c, RandomState)
    BY <1>0, <1>7 DEF HeldCut
  <2> QED  BY <1>7, <2>1 DEF HeldCut, Ended, InUse, Trainable, StratifiedSplit, Columns
<1>8. CASE Truncate(p)
  <2>1. phase'[p] = "fill" /\ phase[p] = "truncate" /\ held' = held
    BY <1>0, <1>8 DEF Truncate, TypeOK
  <2> QED  BY <2>1, <1>7
<1>9. CASE Fill(p)
  <2>1. CASE file[p] < 3
    <3>1. phase'[p] = "truncate" /\ phase[p] = "fill" /\ held' = held
      BY <1>0, <1>9, <2>1 DEF Fill, TypeOK
    <3> QED  BY <3>1, <1>7
  <2>2. CASE ~(file[p] < 3)  BY <1>9, <2>2, <1>3 DEF Fill
  <2> QED  BY <2>1, <2>2
<1>10. CASE ReadSplit(p)
  <2> DEFINE frame == splits[DirOf[p]][Current(p)]
  <2>1. CASE ~Fail(p)
    <3>1. /\ Readable(p, frame) /\ held' = [held EXCEPT ![p][Current(p)] = frame]
          /\ phase[p] = "read"
      BY <1>10, <2>1 DEF ReadSplit
    <3>2. Current(p) \in Part /\ DirOf[p] \in Dir /\ file[p] \in 1..3
      BY <1>0, FilePart
    <3>3. frame \in Cut(Current(p))
      BY <1>0, <3>1, <3>2 DEF SplitsCut, Readable
    <3>4. held \in [Pipelines -> [Part -> Frame]]  BY <1>0 DEF TypeOK
    <3> HIDE DEF frame
    <3>5. \A part \in Part : held'[p][part] = IF part = Current(p) THEN frame ELSE held[p][part]
      BY <3>1, <3>2, <3>4
    <3>6. \A i \in 1..3 : i < file[p] => held[p][File[i]] \in Cut(File[i])
      BY <1>0, <3>1 DEF HeldCut
    <3>7. \A i \in 1..3 : i <= file[p] => held'[p][File[i]] \in Cut(File[i])
      <4> SUFFICES ASSUME NEW i \in 1..3, i <= file[p] PROVE held'[p][File[i]] \in Cut(File[i])
        OBVIOUS
      <4>1. File[i] \in Part  BY FileParts
      <4>2. CASE i = file[p]  BY <3>3, <3>5, <4>1, <4>2 DEF Current
      <4>3. CASE i # file[p]
        <5>1. i < file[p]  BY <3>2, <4>3
        <5>2. held[p][File[i]] \in Cut(File[i])  BY <3>6, <5>1
        <5>3. CASE File[i] = Current(p)  BY <3>3, <3>5, <4>1, <5>3
        <5>4. CASE File[i] # Current(p)  BY <3>5, <4>1, <5>2, <5>4
        <5> QED  BY <5>3, <5>4
      <4> QED  BY <4>2, <4>3
    <3>8. CASE file[p] < 3
      <4>1. phase' = phase /\ file' = [file EXCEPT ![p] = file[p] + 1]
        BY <1>10, <2>1, <3>8 DEF ReadSplit
      <4>2. phase'[p] = "read" /\ file'[p] = file[p] + 1  BY <1>0, <3>1, <4>1 DEF TypeOK
      <4>3. \A i \in 1..3 : i < file'[p] => held'[p][File[i]] \in Cut(File[i])
        BY <3>2, <3>7, <4>2
      <4>4. \A i \in 1..3 : Cut(File[i])' = Cut(File[i])
        BY DEF Cut, Trainable, StratifiedSplit, Columns
      <4> QED  BY <4>2, <4>3, <4>4 DEF HeldCut, Ended, InUse
    <3>9. CASE ~(file[p] < 3)
      <4>1. file[p] = 3 /\ Current(p) = "test"  BY <3>2, <3>9, FileParts DEF Current
      <4>2. phase' = [phase EXCEPT ![p] = IF Doing(p) = "train" THEN "fit" ELSE "resolve"]
        BY <1>10, <2>1, <3>9 DEF ReadSplit
      <4>3. phase'[p] \in {"fit", "resolve"}  BY <1>0, <4>2 DEF TypeOK
      <4>4. \A part \in Part : held'[p][part] \in Cut(part)
        BY <3>7, <4>1, FileParts
      <4>5. /\ held[p]["train"].columns \subseteq held[p]["validation"].columns
            /\ held[p]["train"].columns \subseteq frame.columns
        BY <3>1, <4>1 DEF Readable
      <4>6. /\ held'[p]["train"] = held[p]["train"] /\ held'[p]["test"] = frame
            /\ held'[p]["validation"] = held[p]["validation"]
        BY <3>5, <4>1 DEF Part
      <4>7. \A part \in Part : held'[p]["train"].columns \subseteq held'[p][part].columns
        BY <4>5, <4>6 DEF Part
      <4>8. \A part \in Part : Cut(part)' = Cut(part)
        BY DEF Cut, Trainable, StratifiedSplit, Columns
      <4> QED  BY <4>3, <4>4, <4>7, <4>8 DEF HeldCut, Ended, InUse
    <3> QED  BY <3>8, <3>9
  <2> QED  BY <2>1, <1>2
<1>11. CASE Fit(p)
  <2>1. phase[p] = "fit" /\ phase'[p] = "log" /\ held' = held  BY <1>0, <1>11 DEF Fit, TypeOK
  <2> QED  BY <2>1, <1>4 DEF InUse
<1>12. CASE LogModel(p)
  <2>1. phase[p] = "log" /\ phase'[p] \in {"fit", "register"} /\ held' = held
    BY <1>0, <1>12 DEF LogModel, TypeOK
  <2> QED  BY <2>1, <1>4 DEF InUse
<1>13. CASE RegisterBest(p)
  <2>1. phase[p] = "register" /\ phase'[p] = "report" /\ held' = held
    BY <1>0, <1>13 DEF RegisterBest, TypeOK
  <2> QED  BY <2>1, <1>4 DEF InUse
<1>14. CASE WriteReport(p)  BY <1>14, <1>3 DEF WriteReport
<1>15. CASE Resolve(p)
  <2>1. CASE ~Fail(p)
    <3>1. phase[p] = "resolve" /\ phase'[p] = "score" /\ held' = held
      BY <1>0, <1>15, <2>1 DEF Resolve, TypeOK, memory
    <3> QED  BY <3>1, <1>4 DEF InUse
  <2> QED  BY <2>1, <1>2
<1>16. CASE Score(p)  BY <1>16, <1>2, <1>3 DEF Score
<1>17. CASE Abort(p)  BY <1>17, <1>2 DEF Abort
<1> QED  BY <1>5, <1>6, <1>8, <1>9, <1>10, <1>11, <1>12, <1>13, <1>14, <1>15, <1>16, <1>17
         DEF Acts, Step

LEMMA InitFramesCut == Init => FramesCut
<1> SUFFICES ASSUME Init PROVE FramesCut  OBVIOUS
<1>1. SplitsCut  BY DEF Init, SplitsCut, NoData
<1>2. \A p \in Pipelines : HeldCut(p)  BY DEF Init, HeldCut, Ended, InUse
<1> QED  BY <1>1, <1>2 DEF FramesCut

LEMMA UntouchedHeldCut ==
    ASSUME NEW q \in Pipelines, HeldCut(q), Untouched(q) PROVE HeldCut(q)'
<1>1. phase'[q] = phase[q] /\ file'[q] = file[q] /\ held'[q] = held[q]  BY DEF Untouched
<1> QED  BY <1>1 DEF HeldCut, Cut, Trainable, StratifiedSplit, Columns

LEMMA StepFramesCut ==
    ASSUME Memory, FramesCut, NEW p \in Pipelines, Acts(p) PROVE FramesCut'
<1>1. TypeOK /\ \A q \in Pipelines : HeldCut(q)  BY DEF Memory, FramesCut
<1>2. ASSUME NEW q \in Pipelines, q # p PROVE HeldCut(q)'
  BY <1>1, <1>2, OthersUntouched, UntouchedHeldCut
<1> QED  BY <1>2, StepSplitsCut, StepHeldCut DEF FramesCut

LEMMA BystanderFramesCut ==
    ASSUME Memory, FramesCut, Bystander PROVE FramesCut'
<1>1. UNCHANGED <<splits, phase, file, held>>  BY BystanderOnTrack DEF memory
<1> QED  BY <1>1 DEF FramesCut, SplitsCut, HeldCut, Cut, Trainable, StratifiedSplit, Columns

\* Every split file is missing, torn or one part of the one cut of some CSV, and so is
\* every frame that train and evaluate hold, whichever commands wrote to the directory.
THEOREM FramesAreCut == Spec => []FramesCut
<1>1. Memory /\ FramesCut /\ [Next]_vars => FramesCut'
  BY Steps, BystanderFramesCut, StepFramesCut
<1> QED  BY <1>1, InitFramesCut, MemoryOnTrack, PTL DEF Spec
-----------------------------------------------------------------------------
\* What becomes of the runs of a training, and what the registry and the report take
\* from them.

GoodRun(r) ==
    /\ \A part \in Part : /\ r.frames[part] \in Cut(part)
                          /\ r.frames["train"].columns \subseteq r.frames[part].columns
    /\ r.names = r.frames["train"].columns

RunsOf(p) ==
    \A i \in 1 .. Len(runs[p]) :
        /\ GoodRun(runs[p][i]) /\ runs[p][i].by = p
        /\ runs[p][i].model \/ (phase[p] = "log" /\ i = Len(runs[p]))

Described(p) ==
    /\ phase[p] = "report" => registry[version[p]] = runs[p][best[p]]
    /\ \A r \in report[p] : registry[r.version] = r.best /\ r.best.by = p

RegistryGood == \A v \in DOMAIN registry : GoodRun(registry[v]) /\ registry[v].model

RunsGood == RegistryGood /\ \A p \in Pipelines : RunsOf(p) /\ Described(p)

LEMMA StepRunsOf ==
    ASSUME Memory, FramesCut, NEW p \in Pipelines, RunsOf(p), Acts(p) PROVE RunsOf(p)'
<1>0. TypeOK /\ TypeOK' /\ HeldCut(p) /\ OnTrack(p)
  BY StepsOnTrack DEF Memory, FramesCut
<1>1. ASSUME Emptied(p) PROVE RunsOf(p)'
  <2>1. Len(runs'[p]) = 0  BY <1>1 DEF Emptied
  <2> QED  BY <2>1 DEF RunsOf
<1>2. ASSUME Fail(p) PROVE RunsOf(p)'
  <2>1. misread' \in SUBSET Pipelines /\ aborts' \in 0..MaxAborts  BY <1>0 DEF TypeOK
  <2> QED  BY <1>0, <1>2, <2>1, <1>1, FailTypes
<1>3. ASSUME EndCommand(p) PROVE RunsOf(p)'
  <2>1. /\ Grows /\ splits' \in [Dir -> [Part -> Frame \union {Torn}]]
        /\ report' \in [Pipelines -> SUBSET [version : 1..Len(registry'), best : Run]]
    BY <1>0, StepsGrow DEF TypeOK
  <2> QED  BY <1>0, <1>3, <2>1, <1>1, EndCommandTypes
<1>4. ASSUME UNCHANGED runs, phase[p] # "log" PROVE RunsOf(p)'
  <2>1. \A i \in 1 .. Len(runs[p]) :
            GoodRun(runs[p][i]) /\ runs[p][i].by = p /\ runs[p][i].model
    BY <1>4 DEF RunsOf
  <2> SUFFICES ASSUME NEW i \in 1 .. Len(runs[p])
               PROVE  GoodRun(runs[p][i])' /\ runs'[p][i].by = p /\ runs'[p][i].model
    BY <1>4 DEF RunsOf
  <2>2. GoodRun(runs[p][i])  BY <2>1
  <2>3. GoodRun(runs[p][i])'
    BY <1>4, <2>2 DEF GoodRun, Cut, Trainable, StratifiedSplit, Columns
  <2> QED  BY <1>4, <2>1, <2>3
<1>5. CASE Start(p) \/ Retry(p)
  <2>1. UNCHANGED runs /\ phase[p] # "log"
    BY <1>5 DEF Start, Retry, Begin, memory, Ended
  <2> QED  BY <2>1, <1>4
<1>6. CASE LoadRaw(p)
  <2>1. CASE ~Fail(p)
    <3>1. UNCHANGED runs /\ phase[p] # "log"  BY <1>6, <2>1 DEF LoadRaw
    <3> QED  BY <3>1, <1>4
  <2> QED  BY <2>1, <1>2
<1>7. CASE Truncate(p)
  <2>1. UNCHANGED runs /\ phase[p] # "log"  BY <1>7 DEF Truncate
  <2> QED  BY <2>1, <1>4
<1>8. CASE Fill(p)
  <2>1. CASE file[p] < 3
    <3>1. UNCHANGED runs /\ phase[p] # "log"  BY <1>8, <2>1 DEF Fill
    <3> QED  BY <3>1, <1>4
  <2>2. CASE ~(file[p] < 3)  BY <1>8, <2>2, <1>3 DEF Fill
  <2> QED  BY <2>1, <2>2
<1>9. CASE ReadSplit(p)
  <2>1. CASE ~Fail(p)
    <3>1. UNCHANGED runs /\ phase[p] # "log"  BY <1>9, <2>1 DEF ReadSplit
    <3> QED  BY <3>1, <1>4
  <2> QED  BY <2>1, <1>2
<1>10. CASE Fit(p)
  <2> DEFINE new == [frames |-> held[p], names |-> held[p]["train"].columns,
                     model |-> FALSE, by |-> p]
             n == Len(runs[p])
  <2>1. phase[p] = "fit" /\ phase'[p] = "log"  BY <1>0, <1>10 DEF Fit, TypeOK
  <2>2. runs'[p] = Append(runs[p], new)  BY <1>0, <1>10 DEF Fit, TypeOK
  <2>3. runs[p] \in Seq(Run) /\ n \in Nat  BY <1>0, RunTypes
  <2>4. new \in Run  BY <1>0, NewRun
  <2>5. \A part \in Part : /\ held[p][part] \in Cut(part)
                           /\ held[p]["train"].columns \subseteq held[p][part].columns
    BY <1>0, <2>1 DEF HeldCut, InUse
  <2>6. GoodRun(new)  BY <2>5 DEF GoodRun
  <2>7. new.by = p  OBVIOUS
  <2> HIDE DEF new
  <2>8. Len(runs'[p]) = n + 1 /\ runs'[p][n + 1] = new /\ \A i \in 1 .. n : runs'[p][i] = runs[p][i]
    BY <2>2, <2>3, <2>4
  <2>9. \A i \in 1 .. n : GoodRun(runs[p][i]) /\ runs[p][i].by = p /\ runs[p][i].model
    BY <2>1 DEF RunsOf
  <2> SUFFICES ASSUME NEW i \in 1 .. n + 1
               PROVE  /\ GoodRun(runs[p][i])' /\ runs'[p][i].by = p
                      /\ runs'[p][i].model \/ i = n + 1
    BY <2>1, <2>8 DEF RunsOf
  <2>10. CASE i = n + 1
    <3>1. GoodRun(runs'[p][i])  BY <2>6, <2>8, <2>10
    <3>2. GoodRun(runs[p][i])'
      BY <3>1 DEF GoodRun, Cut, Trainable, StratifiedSplit, Columns
    <3> QED  BY <2>7, <2>8, <2>10, <3>2
  <2>11. CASE i # n + 1
    <3>1. i \in 1 .. n  BY <2>3, <2>11
    <3>2. runs'[p][i] = runs[p][i]  BY <2>8, <3>1
    <3>3. GoodRun(runs'[p][i])  BY <2>9, <3>1, <3>2
    <3>4. GoodRun(runs[p][i])'
      BY <3>3 DEF GoodRun, Cut, Trainable, StratifiedSplit, Columns
    <3> QED  BY <2>9, <3>1, <3>2, <3>4
  <2> QED  BY <2>10, <2>11
<1>11. CASE LogModel(p)
  <2> DEFINE n == Len(runs[p])
  <2>1. phase[p] = "log" /\ n > 0  BY <1>0, <1>11 DEF LogModel, OnTrack
  <2>2. n \in Nat /\ runs[p] \in Seq(Run) /\ \A i \in 1 .. n : runs[p][i] \in Run
    BY <1>0, RunTypes
  <2>3. /\ Len(runs'[p]) = n
        /\ runs'[p][n] = [runs[p][n] EXCEPT !.model = TRUE]
        /\ \A i \in 1 .. n - 1 : runs'[p][i] = runs[p][i]
    BY <1>0, <1>11, <2>1, Logged
  <2>4. \A i \in 1 .. n :
            GoodRun(runs[p][i]) /\ runs[p][i].by = p /\ (runs[p][i].model \/ i = n)
    BY DEF RunsOf
  <2> SUFFICES ASSUME NEW i \in 1 .. n
               PROVE  GoodRun(runs[p][i])' /\ runs'[p][i].by = p /\ runs'[p][i].model
    BY <2>3 DEF RunsOf
  <2>5. CASE i = n
    <3>1. n \in 1 .. n  BY <2>1, <2>2
    <3>2. runs[p][n] \in [frames : [Part -> Frame], names : SUBSET Type, model : BOOLEAN,
                          by : Pipelines]
      BY <2>2, <3>1 DEF Run
    <3>3. /\ runs'[p][n].frames = runs[p][n].frames /\ runs'[p][n].names = runs[p][n].names
          /\ runs'[p][n].by = runs[p][n].by /\ runs'[p][n].model = TRUE
      BY <2>3, <3>2
    <3>4. GoodRun(runs[p][n]) /\ runs[p][n].by = p  BY <2>4, <3>1
    <3>5. GoodRun(runs[p][i])'
      BY <2>5, <3>3, <3>4 DEF GoodRun, Cut, Trainable, StratifiedSplit, Columns
    <3> QED  BY <2>5, <3>3, <3>4, <3>5
  <2>6. CASE i # n
    <3>1. i \in 1 .. n - 1  BY <2>2, <2>6
    <3>2. runs'[p][i] = runs[p][i]  BY <2>3, <3>1
    <3>3. GoodRun(runs'[p][i]) /\ runs'[p][i].by = p /\ runs'[p][i].model
      BY <2>4, <2>6, <3>2
    <3>4. GoodRun(runs[p][i])'
      BY <3>3 DEF GoodRun, Cut, Trainable, StratifiedSplit, Columns
    <3> QED  BY <3>3, <3>4
  <2> QED  BY <2>5, <2>6
<1>12. CASE RegisterBest(p)
  <2>1. UNCHANGED runs /\ phase[p] # "log"  BY <1>12 DEF RegisterBest
  <2> QED  BY <2>1, <1>4
<1>13. CASE WriteReport(p)  BY <1>13, <1>3 DEF WriteReport
<1>14. CASE Resolve(p)
  <2>1. CASE ~Fail(p)
    <3>1. UNCHANGED runs /\ phase[p] # "log"  BY <1>14, <2>1 DEF Resolve, memory
    <3> QED  BY <3>1, <1>4
  <2> QED  BY <2>1, <1>2
<1>15. CASE Score(p)  BY <1>15, <1>2, <1>3 DEF Score
<1>16. CASE Abort(p)  BY <1>16, <1>2 DEF Abort
<1> QED  BY <1>5, <1>6, <1>7, <1>8, <1>9, <1>10, <1>11, <1>12, <1>13, <1>14, <1>15, <1>16
         DEF Acts, Step

LEMMA StepRegistryGood ==
    ASSUME Memory, RunsGood, NEW p \in Pipelines, Acts(p) PROVE RegistryGood'
<1>0. TypeOK /\ RegistryGood /\ RunsOf(p)  BY DEF Memory, RunsGood
<1>1. CASE registry' = registry
  BY <1>0, <1>1 DEF RegistryGood, GoodRun, Cut, Trainable, StratifiedSplit, Columns
<1>2. CASE RegisterBest(p)
  <2>1. /\ registry' = Append(registry, runs[p][best'[p]]) /\ best'[p] \in 1..Len(runs[p])
        /\ Grows
    BY <1>0, <1>2, RegisterBestTypes
  <2>2. runs[p][best'[p]] \in Run /\ registry \in Seq(Run)  BY <1>0, <2>1, RunTypes DEF TypeOK
  <2>3. phase[p] = "register"  BY <1>2 DEF RegisterBest
  <2>4. GoodRun(runs[p][best'[p]]) /\ runs[p][best'[p]].model  BY <1>0, <2>1, <2>3 DEF RunsOf
  <2>5. \A v \in DOMAIN registry' : \/ registry'[v] = runs[p][best'[p]]
                                    \/ v \in DOMAIN registry /\ registry'[v] = registry[v]
    <3> DEFINE new == runs[p][best'[p]]
    <3>1. registry \in Seq(Run) /\ Len(registry) \in Nat /\ new \in Run
          /\ registry' = Append(registry, new)
      BY <2>1, <2>2
    <3> HIDE DEF new
    <3>2. DOMAIN registry' = 1 .. Len(registry) + 1 /\ DOMAIN registry = 1 .. Len(registry)
      BY <3>1
    <3>3. registry'[Len(registry) + 1] = new  BY <3>1
    <3>4. \A v \in 1 .. Len(registry) : registry'[v] = registry[v]  BY <3>1
    <3>5. \A v \in DOMAIN registry' : v = Len(registry) + 1 \/ v \in 1 .. Len(registry)
      BY <3>1, <3>2
    <3>6. ASSUME NEW v \in DOMAIN registry'
          PROVE  registry'[v] = new \/ (v \in DOMAIN registry /\ registry'[v] = registry[v])
      <4>1. CASE v = Len(registry) + 1  BY <3>3, <4>1
      <4>2. CASE v \in 1 .. Len(registry)  BY <3>2, <3>4, <4>2
      <4> QED  BY <3>5, <4>1, <4>2
    <3> QED  BY <3>6 DEF new
  <2>6. \A v \in DOMAIN registry' : GoodRun(registry'[v]) /\ registry'[v].model
    BY <1>0, <2>4, <2>5 DEF RegistryGood
  <2> QED  BY <2>6 DEF RegistryGood, GoodRun, Cut, Trainable, StratifiedSplit, Columns
<1> QED  BY <1>0, <1>1, <1>2, StepsGrow

\* A report that is there still describes its version when the registry has grown.
LEMMA ReportsKept ==
    ASSUME TypeOK, Grows, NEW q \in Pipelines, report'[q] = report[q],
           \A r \in report[q] : registry[r.version] = r.best /\ r.best.by = q
    PROVE  \A r \in report'[q] : registry'[r.version] = r.best /\ r.best.by = q
<1>1. \A i \in 1..Len(registry) : registry'[i] = registry[i]  BY Registered
<1>2. report[q] \in SUBSET [version : 1..Len(registry), best : Run]  BY DEF TypeOK
<1>3. \A r \in report[q] : r.version \in 1..Len(registry)  BY <1>2
<1> QED  BY <1>1, <1>3

LEMMA UntouchedDescribed ==
    ASSUME TypeOK, Grows, NEW q \in Pipelines, OnTrack(q), Described(q), Untouched(q)
    PROVE  Described(q)'
<1>1. /\ phase'[q] = phase[q] /\ version'[q] = version[q] /\ runs'[q] = runs[q]
      /\ best'[q] = best[q] /\ report'[q] = report[q]
  BY DEF Untouched
<1>2. \A r \in report'[q] : registry'[r.version] = r.best /\ r.best.by = q
  BY <1>1, ReportsKept DEF Described
<1>3. ASSUME phase'[q] = "report" PROVE registry'[version'[q]] = runs'[q][best'[q]]
  <2>1. registry[version[q]] = runs[q][best[q]] /\ version[q] > 0
    BY <1>1, <1>3 DEF Described, OnTrack
  <2>2. version[q] \in 0..Len(registry)  BY DEF TypeOK
  <2>3. version[q] \in 1..Len(registry)  BY <2>1, <2>2
  <2>4. registry'[version[q]] = registry[version[q]]  BY <2>3, Registered
  <2> QED  BY <1>1, <2>1, <2>4
<1> QED  BY <1>2, <1>3 DEF Described

LEMMA StepDescribed ==
    ASSUME Memory, RunsGood, NEW p \in Pipelines, Acts(p) PROVE Described(p)'
<1>0. TypeOK /\ TypeOK' /\ RunsOf(p) /\ Described(p) /\ OnTrack(p) /\ Grows
  BY StepsOnTrack, StepsGrow DEF Memory, RunsGood
<1>1. ASSUME phase'[p] # "report", report'[p] = report[p] PROVE Described(p)'
  <2>1. \A r \in report'[p] : registry'[r.version] = r.best /\ r.best.by = p
    BY <1>0, <1>1, ReportsKept DEF Described
  <2> QED  BY <1>1, <2>1 DEF Described
<1>2. CASE RegisterBest(p)
  <2>1. phase'[p] = "report" /\ report' = report /\ runs' = runs
    BY <1>0, <1>2 DEF RegisterBest, TypeOK
  <2>2. /\ registry' = Append(registry, runs[p][best'[p]]) /\ version'[p] = Len(registry')
        /\ best'[p] \in 1..Len(runs[p])
    BY <1>0, <1>2, RegisterBestTypes
  <2>3. runs[p][best'[p]] \in Run /\ registry \in Seq(Run)  BY <1>0, <2>2, RunTypes DEF TypeOK
  <2>4. registry'[version'[p]] = runs'[p][best'[p]]  BY <2>1, <2>2, <2>3
  <2>5. \A r \in report'[p] : registry'[r.version] = r.best /\ r.best.by = p
    BY <1>0, <2>1, ReportsKept DEF Described
  <2> QED  BY <2>4, <2>5 DEF Described
<1>3. CASE WriteReport(p)
  <2>1. EndCommand(p) /\ registry' = registry /\ phase[p] = "report"  BY <1>3 DEF WriteReport
  <2>2. report'[p] = {ModelReport(p, version[p])}  BY <1>0, <1>3 DEF WriteReport, TypeOK
  <2>3. registry[version[p]] = runs[p][best[p]] /\ best[p] \in 1 .. Len(runs[p]) /\ version[p] > 0
    BY <1>0, <2>1 DEF Described, OnTrack
  <2>4. runs[p][best[p]].by = p  BY <1>0, <2>3 DEF RunsOf
  <2>5. \A r \in report'[p] : registry'[r.version] = r.best /\ r.best.by = p
    BY <2>1, <2>2, <2>3, <2>4 DEF ModelReport
  <2>6. phase'[p] # "report"
    <3>1. Over(p) \/ Moved(p)  BY <1>0, <1>3, <2>3, WriteReportTypes
    <3> QED  BY <3>1 DEF Over, Moved, Ended, FirstPhase
  <2> QED  BY <2>5, <2>6 DEF Described
<1>4. CASE ~RegisterBest(p) /\ ~WriteReport(p)
  <2>1. report'[p] = report[p]
    BY <1>4 DEF Acts, Step, Start, Retry, Begin, LoadRaw, Fail, Truncate, Fill, ReadSplit,
                Fit, LogModel, Resolve, Score, Abort, outcome
  <2>2. ASSUME Fail(p) PROVE phase'[p] # "report"
    <3>1. misread' \in SUBSET Pipelines /\ aborts' \in 0..MaxAborts  BY <1>0 DEF TypeOK
    <3>2. phase'[p] = "failed"  BY <1>0, <2>2, <3>1, FailTypes
    <3> QED  BY <3>2
  <2>3. ASSUME EndCommand(p) PROVE phase'[p] # "report"
    <3>1. registry' \in Seq(Run) /\ Len(registry') \in Nat /\ Len(registry) <= Len(registry')
      BY <1>0, Registered
    <3>2. Over(p) \/ Moved(p)  BY <1>0, <2>3, <3>1, EndTypes
    <3> QED  BY <3>2 DEF Over, Moved, Ended, FirstPhase
  <2>4. phase'[p] # "report"
    <3>0. phase \in [Pipelines -> Phase]  BY <1>0 DEF TypeOK
    <3>1. CASE Start(p) \/ Retry(p)
      BY <3>0, <3>1 DEF Start, Retry, Begin, FirstPhase
    <3>2. CASE LoadRaw(p)  BY <3>0, <3>2, <2>2 DEF LoadRaw
    <3>3. CASE Truncate(p)  BY <3>0, <3>3 DEF Truncate
    <3>4. CASE Fill(p)  BY <3>0, <3>4, <2>3 DEF Fill
    <3>5. CASE ReadSplit(p)
      <4>1. CASE Fail(p)  BY <4>1, <2>2
      <4>2. CASE ~Fail(p)
        <5>1. CASE file[p] < 3  BY <3>5, <4>2, <5>1 DEF ReadSplit
        <5>2. CASE ~(file[p] < 3)
          <6>1. phase' = [phase EXCEPT ![p] = IF Doing(p) = "train" THEN "fit" ELSE "resolve"]
            BY <3>5, <4>2, <5>2 DEF ReadSplit
          <6> QED  BY <3>0, <6>1
        <5> QED  BY <5>1, <5>2
      <4> QED  BY <4>1, <4>2
    <3>6. CASE Fit(p)  BY <3>0, <3>6 DEF Fit
    <3>7. CASE LogModel(p)  BY <3>0, <3>7 DEF LogModel
    <3>8. CASE Resolve(p)  BY <3>0, <3>8, <2>2 DEF Resolve
    <3>9. CASE Score(p)  BY <3>9, <2>2, <2>3 DEF Score
    <3>10. CASE Abort(p)  BY <3>10, <2>2 DEF Abort
    <3> QED  BY <1>4, <3>1, <3>2, <3>3, <3>4, <3>5, <3>6, <3>7, <3>8, <3>9, <3>10
             DEF Acts, Step
  <2> QED  BY <2>1, <2>4, <1>1
<1> QED  BY <1>2, <1>3, <1>4

LEMMA UntouchedRunsOf ==
    ASSUME NEW q \in Pipelines, RunsOf(q), Untouched(q) PROVE RunsOf(q)'
<1>1. runs'[q] = runs[q] /\ phase'[q] = phase[q]  BY DEF Untouched
<1> QED  BY <1>1 DEF RunsOf, GoodRun, Cut, Trainable, StratifiedSplit, Columns

LEMMA StepRunsGood ==
    ASSUME Memory, FramesCut, RunsGood, NEW p \in Pipelines, Acts(p) PROVE RunsGood'
<1>1. /\ TypeOK /\ Grows
      /\ \A q \in Pipelines : OnTrack(q) /\ RunsOf(q) /\ Described(q)
  BY StepsGrow DEF Memory, RunsGood
<1>2. ASSUME NEW q \in Pipelines, q # p PROVE RunsOf(q)' /\ Described(q)'
  <2>1. Untouched(q)  BY <1>1, <1>2, OthersUntouched
  <2> QED  BY <1>1, <2>1, UntouchedRunsOf, UntouchedDescribed
<1>3. RunsOf(p)'  BY <1>1, StepRunsOf
<1>4. Described(p)'  BY StepDescribed
<1>5. RegistryGood'  BY StepRegistryGood
<1> QED  BY <1>2, <1>3, <1>4, <1>5 DEF RunsGood

LEMMA BystanderRunsGood ==
    ASSUME Memory, RunsGood, Bystander PROVE RunsGood'
<1>1. UNCHANGED <<registry, phase, runs, best, version, report>>
  BY BystanderOnTrack DEF memory, outcome
<1>2. RegistryGood'
  BY <1>1 DEF RunsGood, RegistryGood, GoodRun, Cut, Trainable, StratifiedSplit, Columns
<1>3. ASSUME NEW q \in Pipelines PROVE RunsOf(q)'
  <2>1. RunsOf(q)  BY DEF RunsGood
  <2> QED  BY <1>1, <2>1 DEF RunsOf, GoodRun, Cut, Trainable, StratifiedSplit, Columns
<1>4. ASSUME NEW q \in Pipelines PROVE Described(q)'
  BY <1>1 DEF RunsGood, Described
<1> QED  BY <1>2, <1>3, <1>4 DEF RunsGood

LEMMA InitRunsGood == Init => RunsGood
<1> SUFFICES ASSUME Init PROVE RunsGood  OBVIOUS
<1>1. RegistryGood  BY DEF Init, RegistryGood
<1>2. ASSUME NEW p \in Pipelines PROVE RunsOf(p) /\ Described(p)
  <2>1. Len(runs[p]) = 0 /\ phase[p] = "idle" /\ report[p] = {}  BY DEF Init
  <2> QED  BY <2>1 DEF RunsOf, Described
<1> QED  BY <1>1, <1>2 DEF RunsGood

\* What train registers and reports is a run of its own whose model is logged, fitted
\* to the frames it read, whatever the other pipelines register meanwhile.
THEOREM RunsAreGood == Spec => []RunsGood
<1>1. Memory /\ FramesCut /\ RunsGood /\ [Next]_vars => RunsGood'
  BY Steps, BystanderRunsGood, StepRunsGood
<1> QED  BY <1>1, InitRunsGood, MemoryOnTrack, FramesAreCut, PTL DEF Spec

\* The model report of a training names the version that holds the run it describes, in
\* however many trainings that register at the same time.
THEOREM ReportsDescribeTheirVersion == Spec => []ReportDescribesItsVersion
<1>1. RunsGood => ReportDescribesItsVersion
  BY DEF RunsGood, Described, ReportDescribesItsVersion
<1> QED  BY <1>1, RunsAreGood, PTL

\* Each version has its model, its columns are those of all three splits, and it was
\* fitted to some fraud, whatever was killed and whatever the files were mixed from.
THEOREM RegisteredAreServable == Spec => []RegisteredIsServable
<1>1. RunsGood => RegisteredIsServable
  <2> SUFFICES ASSUME RunsGood, NEW v \in DOMAIN registry
               PROVE  /\ registry[v].model
                      /\ registry[v].names = registry[v].frames["train"].columns
                      /\ \A part \in Part : registry[v].names \subseteq registry[v].frames[part].columns
                      /\ registry[v].frames["train"].rows \cap Fraud # {}
    BY DEF RegisteredIsServable
  <2>1. GoodRun(registry[v]) /\ registry[v].model  BY DEF RunsGood, RegistryGood
  <2>2. "train" \in Part  BY DEF Part
  <2>3. registry[v].frames["train"] \in Cut("train")  BY <2>1, <2>2 DEF GoodRun
  <2>4. registry[v].frames["train"].rows \cap Fraud # {}  BY <2>2, <2>3, CutFacts
  <2> QED  BY <2>1, <2>4 DEF GoodRun
<1> QED  BY <1>1, RunsAreGood, PTL
-----------------------------------------------------------------------------
\* A chain that starts with preprocess in a directory of its own.

Whole(d) == \E c \in Csv : Trainable(c) /\ splits[d] = StratifiedSplit(c, RandomState)

PrivateKept(p) ==
    /\ mixed[p] = FALSE /\ p \notin misread
    /\ phase[p] \in {"truncate", "fill", "read"} =>
          \A i \in 1..3 : i < file[p] => held[p][File[i]] = splits[DirOf[p]][File[i]]
    /\ (phase[p] \in {"read"} \union InUse \/ (phase[p] = "load" /\ step[p] > 1)) =>
          Whole(DirOf[p])
    /\ phase[p] \in InUse => OneCsv(held[p])
    /\ \A i \in 1 .. Len(runs[p]) : OneCsv(runs[p][i].frames)
    /\ \A v \in DOMAIN registry : registry[v].by = p => OneCsv(registry[v].frames)

Private == \A p \in Pipelines : SelfContained(p) => PrivateKept(p)

LEMMA WholeIsReadable ==
    ASSUME TypeOK, NEW p \in Pipelines, Whole(DirOf[p]), file[p] \in 1..3,
           \A i \in 1..3 : i < file[p] => held[p][File[i]] = splits[DirOf[p]][File[i]]
    PROVE  Readable(p, splits[DirOf[p]][Current(p)])
<1>1. PICK c \in Csv : Trainable(c) /\ splits[DirOf[p]] = StratifiedSplit(c, RandomState)
  BY DEF Whole
<1>2. Current(p) \in Part  BY FilePart
<1>3. splits[DirOf[p]][Current(p)] \in Cut(Current(p))  BY <1>1, <1>2 DEF Cut
<1>4. splits[DirOf[p]][Current(p)] \notin {Absent, Torn}  BY <1>2, <1>3, CutFacts
<1>5. \A part \in Part : splits[DirOf[p]][part].columns = Columns(c)
  BY <1>1 DEF StratifiedSplit
<1>6. ASSUME file[p] = 3
      PROVE  /\ held[p]["train"].columns = Columns(c)
             /\ held[p]["validation"].columns = Columns(c)
  <2>1. held[p][File[1]] = splits[DirOf[p]][File[1]] /\ held[p][File[2]] = splits[DirOf[p]][File[2]]
    BY <1>6
  <2> QED  BY <2>1, <1>5, FileParts
<1>7. splits[DirOf[p]][Current(p)].columns = Columns(c)  BY <1>2, <1>5
<1> QED  BY <1>4, <1>6, <1>7 DEF Readable

\* Nobody else writes to its directory.
LEMMA OthersElsewhere ==
    ASSUME TypeOK, NEW p \in Pipelines, SelfContained(p), NEW q \in Pipelines, q # p, Acts(q)
    PROVE  splits'[DirOf[p]] = splits[DirOf[p]] /\ (mixed[p] = FALSE => mixed'[p] = FALSE)
<1>1. DirOf[q] # DirOf[p] /\ DirOf[p] \in Dir /\ DirOf[q] \in Dir
  BY Chains DEF SelfContained
<1>2. splits \in [Dir -> [Part -> Frame \union {Torn}]] /\ mixed \in [Pipelines -> BOOLEAN]
  BY DEF TypeOK
<1>3. splits'[DirOf[p]] = splits[DirOf[p]]
  <2>1. CASE Start(q) \/ Retry(q)
    <3>1. splits' = splits \/ splits' = [splits EXCEPT ![DirOf[q]] = NoData]
      BY <2>1 DEF Start, Retry, Begin
    <3> QED  BY <3>1, <1>1, <1>2
  <2>2. CASE Truncate(q)  BY <2>2, <1>1, <1>2 DEF Truncate
  <2>3. CASE Fill(q)  BY <2>3, <1>1, <1>2 DEF Fill
  <2>4. CASE UNCHANGED splits  BY <2>4
  <2> QED
    BY <2>1, <2>2, <2>3, <2>4
       DEF Acts, Step, LoadRaw, Fail, ReadSplit, Fit, LogModel, RegisterBest, WriteReport,
           Resolve, Score, Abort
<1>4. ASSUME mixed[p] = FALSE PROVE mixed'[p] = FALSE
  <2>1. CASE Truncate(q)
    <3>1. p \notin Rivals(q)  BY <1>1 DEF Rivals
    <3>2. mixed'[p] = (mixed[p] \/ (p \in Rivals(q) /\ Differ(q, p)))  BY <2>1 DEF Truncate
    <3> QED  BY <1>4, <3>1, <3>2
  <2>2. ASSUME mixed' = mixed \/ mixed' = [mixed EXCEPT ![q] = FALSE]
        PROVE  mixed'[p] = FALSE
    BY <2>2, <1>2, <1>4
  <2>3. CASE ~Truncate(q)
    <3>1. mixed' = mixed \/ mixed' = [mixed EXCEPT ![q] = FALSE]
      <4>1. ASSUME EndCommand(q) PROVE mixed' = [mixed EXCEPT ![q] = FALSE]
        BY <4>1 DEF EndCommand, Leave, Exit
      <4>2. ASSUME Fail(q) PROVE mixed' = [mixed EXCEPT ![q] = FALSE]
        BY <4>2 DEF Fail, Leave, Exit
      <4>3. CASE Start(q) \/ Retry(q)  BY <4>3 DEF Start, Retry, Begin, memory
      <4>4. CASE LoadRaw(q)  BY <4>4, <4>2 DEF LoadRaw
      <4>5. CASE Fill(q)  BY <4>5, <4>1 DEF Fill
      <4>6. CASE ReadSplit(q)  BY <4>6, <4>2 DEF ReadSplit
      <4>7. CASE Fit(q) \/ LogModel(q) \/ RegisterBest(q)
        BY <4>7 DEF Fit, LogModel, RegisterBest
      <4>8. CASE WriteReport(q)  BY <4>8, <4>1 DEF WriteReport
      <4>9. CASE Resolve(q)  BY <4>9, <4>2 DEF Resolve, memory
      <4>10. CASE Score(q)  BY <4>10, <4>1, <4>2 DEF Score
      <4>11. CASE Abort(q)  BY <4>11, <4>2 DEF Abort
      <4> QED  BY <2>3, <4>3, <4>4, <4>5, <4>6, <4>7, <4>8, <4>9, <4>10, <4>11 DEF Acts, Step
    <3> QED  BY <3>1, <2>2
  <2> QED  BY <2>1, <2>3
<1> QED  BY <1>3, <1>4

LEMMA UntouchedPrivate ==
    ASSUME Memory, NEW p \in Pipelines, SelfContained(p), PrivateKept(p),
           NEW q \in Pipelines, q # p, Acts(q), RunsGood
    PROVE  PrivateKept(p)'
<1>1. TypeOK /\ RunsOf(q)  BY DEF Memory, RunsGood
<1>2. Untouched(p)  BY <1>1, OthersUntouched
<1>3. /\ step'[p] = step[p] /\ phase'[p] = phase[p] /\ file'[p] = file[p]
      /\ held'[p] = held[p] /\ runs'[p] = runs[p] /\ (p \in misread' <=> p \in misread)
  BY <1>2 DEF Untouched
<1>4. splits'[DirOf[p]] = splits[DirOf[p]] /\ mixed'[p] = FALSE
  BY <1>1, OthersElsewhere DEF PrivateKept
<1>5. Whole(DirOf[p]) => Whole(DirOf[p])'
  BY <1>4 DEF Whole, Trainable, StratifiedSplit, Columns
<1>6. OneCsv(held[p]) => OneCsv(held[p])'  BY <1>3 DEF OneCsv
<1>7. ASSUME NEW i \in 1 .. Len(runs'[p]) PROVE OneCsv(runs[p][i].frames)'
  BY <1>3 DEF PrivateKept, OneCsv
<1>8. ASSUME NEW v \in DOMAIN registry', registry'[v].by = p PROVE OneCsv(registry[v].frames)'
  <2>1. CASE registry' = registry  BY <1>8, <2>1 DEF PrivateKept, OneCsv
  <2>2. CASE RegisterBest(q)
    <3>1. /\ registry' = Append(registry, runs[q][best'[q]]) /\ best'[q] \in 1..Len(runs[q])
          /\ Grows
      BY <1>1, <2>2, RegisterBestTypes
    <3>2. runs[q][best'[q]].by = q /\ runs[q][best'[q]] \in Run  BY <1>1, <3>1, RunTypes DEF RunsOf
    <3>3. registry \in Seq(Run) /\ Len(registry) \in Nat  BY <1>1 DEF TypeOK
    <3>4. registry'[Len(registry) + 1] = runs[q][best'[q]] /\ DOMAIN registry' = 1 .. Len(registry) + 1
      BY <3>1, <3>2, <3>3
    <3>5. v # Len(registry) + 1  BY <1>8, <3>2, <3>4
    <3>6. v \in 1 .. Len(registry) /\ DOMAIN registry = 1 .. Len(registry)
      BY <3>3, <3>4, <3>5
    <3>7. registry'[v] = registry[v]  BY <1>1, <3>1, <3>6, Registered
    <3>8. OneCsv(registry[v].frames)  BY <1>8, <3>6, <3>7 DEF PrivateKept
    <3> QED  BY <3>7, <3>8 DEF OneCsv
  <2> QED  BY <1>1, <2>1, <2>2, StepsGrow
<1>9. /\ phase'[p] \in {"truncate", "fill", "read"} =>
            \A i \in 1..3 : i < file'[p] => held'[p][File[i]] = splits'[DirOf[p]][File[i]]
      /\ p \notin misread'
  BY <1>3, <1>4 DEF PrivateKept
<1>10. (phase'[p] \in {"read"} \union InUse \/ (phase'[p] = "load" /\ step'[p] > 1)) =>
          Whole(DirOf[p])'
  BY <1>3, <1>5 DEF PrivateKept
<1>11. phase'[p] \in InUse => OneCsv(held[p])'  BY <1>3, <1>6 DEF PrivateKept
<1> QED  BY <1>4, <1>7, <1>8, <1>9, <1>10, <1>11 DEF PrivateKept, InUse

LEMMA SplitWhole ==
    ASSUME NEW c \in Csv, Trainable(c), TypeOK', NEW p \in Pipelines,
           held[p] = StratifiedSplit(c, RandomState),
           \A i \in 1..3 : splits'[DirOf[p]][File[i]] = held[p][File[i]]
    PROVE  Whole(DirOf[p])'
<1>1. splits'[DirOf[p]] \in [Part -> Frame \union {Torn}]  BY Chains DEF TypeOK
<1>2. StratifiedSplit(c, RandomState) \in [Part -> Frame]  BY SplitFrames
<1>3. \A part \in Part : splits'[DirOf[p]][part] = StratifiedSplit(c, RandomState)[part]
  BY FileParts
<1>4. splits'[DirOf[p]] = StratifiedSplit(c, RandomState)  BY <1>1, <1>2, <1>3
<1> QED  BY <1>4 DEF Whole, Trainable, StratifiedSplit, Columns

LEMMA StepPrivate ==
    ASSUME Memory, FramesCut, RunsGood, NEW p \in Pipelines, SelfContained(p),
           PrivateKept(p), Acts(p)
    PROVE  PrivateKept(p)'
<1>0. TypeOK /\ TypeOK' /\ HeldCut(p) /\ OnTrack(p) /\ RunsOf(p)
  BY StepsOnTrack DEF Memory, FramesCut, RunsGood
<1>a. /\ mixed[p] = FALSE /\ p \notin misread
      /\ phase[p] \in {"truncate", "fill", "read"} =>
            \A i \in 1..3 : i < file[p] => held[p][File[i]] = splits[DirOf[p]][File[i]]
      /\ phase[p] \in {"read"} \union InUse => Whole(DirOf[p])
      /\ phase[p] \in InUse => OneCsv(held[p])
  BY DEF PrivateKept
<1>b. DirOf[p] \in Dir /\ file[p] \in 1..3 /\ Current(p) \in Part /\ Rivals(p) = {}
  BY <1>0, FilePart DEF SelfContained, Rivals
<1>c. ASSUME registry' = registry
      PROVE  \A v \in DOMAIN registry' : registry'[v].by = p => OneCsv(registry[v].frames)'
  BY <1>c DEF PrivateKept, OneCsv
<1>d. ASSUME runs' = runs PROVE \A i \in 1 .. Len(runs'[p]) : OneCsv(runs[p][i].frames)'
  BY <1>d DEF PrivateKept, OneCsv
<1>e. ASSUME splits' = splits, Whole(DirOf[p]) PROVE Whole(DirOf[p])'
  BY <1>e DEF Whole, Trainable, StratifiedSplit, Columns
<1>1. ASSUME Emptied(p), Over(p) \/ (Moved(p) /\ Whole(DirOf[p])'), p \notin misread',
             registry' = registry
      PROVE  PrivateKept(p)'
  <2>1. mixed'[p] = FALSE /\ file'[p] = 1 /\ Len(runs'[p]) = 0  BY <1>1 DEF Emptied
  <2>2. phase'[p] \notin InUse \union {"truncate", "fill"}
    BY <1>1 DEF Over, Moved, FirstPhase, Ended, InUse
  <2>3. Over(p) => phase'[p] \notin {"load", "read"}  BY DEF Over, Ended
  <2> QED  BY <1>1, <1>c, <2>1, <2>2, <2>3 DEF PrivateKept, InUse
<1>2. ASSUME Fail(p), p \notin misread' PROVE PrivateKept(p)'
  <2>1. misread' \in SUBSET Pipelines /\ aborts' \in 0..MaxAborts  BY <1>0 DEF TypeOK
  <2>2. registry' = registry  BY <1>2 DEF Fail
  <2> QED  BY <1>0, <1>2, <2>1, <2>2, <1>1, FailTypes
<1>3. ASSUME EndCommand(p), Whole(DirOf[p])', registry' = registry PROVE PrivateKept(p)'
  <2>1. /\ Grows /\ splits' \in [Dir -> [Part -> Frame \union {Torn}]]
        /\ report' \in [Pipelines -> SUBSET [version : 1..Len(registry'), best : Run]]
    BY <1>0, StepsGrow DEF TypeOK
  <2>2. Emptied(p) /\ (Over(p) \/ Moved(p))  BY <1>0, <1>3, <2>1, EndCommandTypes
  <2>3. p \notin misread'  BY <1>3, <1>a DEF EndCommand
  <2> QED  BY <1>3, <2>2, <2>3, <1>1
<1>4. ASSUME phase'[p] \in InUse, phase[p] \in InUse,
             UNCHANGED <<splits, held, mixed, misread>>,
             \A v \in DOMAIN registry' : registry'[v].by = p => OneCsv(registry[v].frames)',
             \A i \in 1 .. Len(runs'[p]) : OneCsv(runs[p][i].frames)'
      PROVE  PrivateKept(p)'
  <2>1. Whole(DirOf[p])'  BY <1>4, <1>a, <1>e
  <2>2. OneCsv(held[p])'  BY <1>4, <1>a DEF OneCsv
  <2>3. mixed'[p] = FALSE /\ p \notin misread'  BY <1>4, <1>a
  <2>4. phase'[p] \notin {"truncate", "fill", "read", "load"}  BY <1>4 DEF InUse
  <2> QED  BY <1>4, <2>1, <2>2, <2>3, <2>4 DEF PrivateKept
<1>5. CASE Start(p) \/ Retry(p)
  <2>1. Begin(p)  BY <1>5 DEF Start, Retry
  <2>2. phase[p] \in Ended  BY <1>5 DEF Start, Retry, Ended
  <2>3. file'[p] = 1 /\ step'[p] = 1
    BY <1>0, <2>1, <2>2 DEF HeldCut, OnTrack, Begin, memory
  <2>4. phase'[p] = "load"  BY <1>0, <2>1 DEF Begin, TypeOK, FirstPhase, SelfContained
  <2>5. UNCHANGED <<registry, mixed, misread, runs>>  BY <2>1 DEF Begin, memory
  <2> QED  BY <1>a, <1>c, <1>d, <2>3, <2>4, <2>5 DEF PrivateKept, InUse
<1>6. CASE LoadRaw(p)
  <2>1. CASE ~Fail(p)
    <3>1. /\ phase' = [phase EXCEPT ![p] = "truncate"] /\ phase[p] = "load"
          /\ UNCHANGED <<registry, mixed, misread, runs, file>>
      BY <1>6, <2>1 DEF LoadRaw
    <3>2. phase'[p] = "truncate" /\ file'[p] = 1  BY <1>0, <3>1 DEF HeldCut, TypeOK
    <3>3. \A i \in 1..3 : ~(i < 1)  OBVIOUS
    <3> QED  BY <1>a, <1>c, <1>d, <3>1, <3>2, <3>3 DEF PrivateKept, InUse
  <2>2. CASE Fail(p)
    <3>1. misread' = misread  BY <1>6, <2>2 DEF LoadRaw
    <3> QED  BY <1>2, <1>a, <2>2, <3>1
  <2> QED  BY <2>1, <2>2
<1>7. ASSUME NEW content, splits' = [splits EXCEPT ![DirOf[p]][Current(p)] = content]
      PROVE  /\ splits'[DirOf[p]][Current(p)] = content
             /\ \A i \in 1..3 : i # file[p] => splits'[DirOf[p]][File[i]] = splits[DirOf[p]][File[i]]
  <2>1. splits \in [Dir -> [Part -> Frame \union {Torn}]]  BY <1>0 DEF TypeOK
  <2>2. \A part \in Part : splits'[DirOf[p]][part] = IF part = Current(p) THEN content
                                                     ELSE splits[DirOf[p]][part]
    BY <1>7, <1>b, <2>1
  <2>3. \A i \in 1..3 : i # file[p] => File[i] \in Part /\ File[i] # Current(p)
    BY <1>b DEF File, Part, Current
  <2> QED  BY <1>b, <2>2, <2>3
<1>8. CASE Truncate(p)
  <2>1. phase'[p] = "fill" /\ phase[p] = "truncate"  BY <1>0, <1>8 DEF Truncate, TypeOK
  <2>2. UNCHANGED <<registry, misread, runs, file, held>>  BY <1>8 DEF Truncate
  <2>3. mixed'[p] = FALSE
    <3>1. mixed'[p] = \E r \in Rivals(p) : Differ(p, r)  BY <1>8 DEF Truncate
    <3> QED  BY <1>b, <3>1
  <2>4. splits' = [splits EXCEPT ![DirOf[p]][Current(p)] = Torn]  BY <1>8 DEF Truncate
  <2>5. \A i \in 1..3 : i # file[p] => splits'[DirOf[p]][File[i]] = splits[DirOf[p]][File[i]]
    BY <2>4, <1>7
  <2>6. \A i \in 1..3 : i < file'[p] => held'[p][File[i]] = splits'[DirOf[p]][File[i]]
    BY <1>a, <1>b, <2>1, <2>2, <2>5
  <2> QED  BY <1>a, <1>c, <1>d, <2>1, <2>2, <2>3, <2>6 DEF PrivateKept, InUse
<1>9. CASE Fill(p)
  <2>1. phase[p] = "fill" /\ registry' = registry  BY <1>9 DEF Fill
  <2>2. splits' = [splits EXCEPT ![DirOf[p]][Current(p)] = held[p][Current(p)]]
    BY <1>9, <1>a, <1>b DEF Fill
  <2>3. /\ splits'[DirOf[p]][File[file[p]]] = held[p][File[file[p]]]
        /\ \A i \in 1..3 : i # file[p] => splits'[DirOf[p]][File[i]] = splits[DirOf[p]][File[i]]
    BY <2>2, <1>7 DEF Current
  <2>4. \A i \in 1..3 : i <= file[p] => held[p][File[i]] = splits'[DirOf[p]][File[i]]
    <3> SUFFICES ASSUME NEW i \in 1..3, i <= file[p]
                 PROVE  held[p][File[i]] = splits'[DirOf[p]][File[i]]
      OBVIOUS
    <3>1. CASE i = file[p]  BY <2>3, <3>1
    <3>2. CASE i # file[p]
      <4>1. i < file[p]  BY <1>b, <3>2
      <4> QED  BY <1>a, <2>1, <2>3, <3>2, <4>1
    <3> QED  BY <3>1, <3>2
  <2>5. CASE file[p] < 3
    <3>1. phase'[p] = "truncate" /\ file'[p] = file[p] + 1 /\ mixed'[p] = FALSE
      BY <1>0, <1>9, <2>5 DEF Fill, TypeOK
    <3>2. UNCHANGED <<held, runs, misread>>  BY <1>9, <2>5 DEF Fill
    <3>3. \A i \in 1..3 : i < file'[p] => held'[p][File[i]] = splits'[DirOf[p]][File[i]]
      BY <1>b, <2>4, <3>1, <3>2
    <3> QED  BY <1>a, <1>c, <1>d, <2>1, <3>1, <3>2, <3>3 DEF PrivateKept, InUse
  <2>6. CASE ~(file[p] < 3)
    <3>1. EndCommand(p) /\ file[p] = 3  BY <1>9, <1>b, <2>6 DEF Fill
    <3>2. PICK c \in Csv : Trainable(c) /\ held[p] = StratifiedSplit(c, RandomState)
      BY <1>0, <2>1 DEF HeldCut
    <3>3. \A i \in 1..3 : splits'[DirOf[p]][File[i]] = held[p][File[i]]  BY <2>4, <3>1
    <3>4. Whole(DirOf[p])'  BY <1>0, <3>2, <3>3, SplitWhole
    <3> QED  BY <1>3, <2>1, <3>1, <3>4
  <2> QED  BY <2>5, <2>6
<1>10. CASE ReadSplit(p)
  <2> DEFINE frame == splits[DirOf[p]][Current(p)]
  <2>1. phase[p] = "read" /\ Whole(DirOf[p])  BY <1>10, <1>a DEF ReadSplit
  <2>2. Readable(p, frame)  BY <1>0, <1>a, <1>b, <2>1, WholeIsReadable
  <2>3. /\ held' = [held EXCEPT ![p][Current(p)] = frame]
        /\ UNCHANGED <<splits, registry, mixed, misread, runs>>
    BY <1>10, <2>2 DEF ReadSplit, control
  <2>4. held \in [Pipelines -> [Part -> Frame]]  BY <1>0 DEF TypeOK
  <2>5. \A i \in 1..3 : i <= file[p] => held'[p][File[i]] = splits'[DirOf[p]][File[i]]
    <3> SUFFICES ASSUME NEW i \in 1..3, i <= file[p]
                 PROVE  held'[p][File[i]] = splits[DirOf[p]][File[i]]
      BY <2>3
    <3>1. File[i] \in Part  BY FileParts
    <3> HIDE DEF frame
    <3>2. \A part \in Part : held'[p][part] = IF part = Current(p) THEN frame ELSE held[p][part]
      BY <1>b, <2>3, <2>4
    <3>3. CASE File[i] = Current(p)  BY <3>1, <3>2, <3>3 DEF frame
    <3>4. CASE File[i] # Current(p)
      <4>1. i # file[p]  BY <3>4 DEF Current
      <4>2. i < file[p]  BY <1>b, <4>1
      <4> QED  BY <1>a, <2>1, <3>1, <3>2, <3>4, <4>2
    <3> QED  BY <3>3, <3>4
  <2>6. Whole(DirOf[p])'  BY <2>1, <2>3, <1>e
  <2>7. CASE file[p] < 3
    <3>1. phase' = phase /\ file' = [file EXCEPT ![p] = file[p] + 1]
      BY <1>10, <2>2, <2>7 DEF ReadSplit
    <3>2. phase'[p] = "read" /\ file'[p] = file[p] + 1  BY <1>0, <2>1, <3>1 DEF TypeOK
    <3>3. \A i \in 1..3 : i < file'[p] => held'[p][File[i]] = splits'[DirOf[p]][File[i]]
      BY <1>b, <2>5, <3>2
    <3> QED  BY <1>a, <1>c, <1>d, <2>3, <2>6, <3>2, <3>3 DEF PrivateKept, InUse
  <2>8. CASE ~(file[p] < 3)
    <3>1. phase' = [phase EXCEPT ![p] = IF Doing(p) = "train" THEN "fit" ELSE "resolve"]
      BY <1>10, <2>2, <2>8 DEF ReadSplit
    <3>2. phase'[p] \in {"fit", "resolve"}  BY <1>0, <3>1 DEF TypeOK
    <3>3. \A part \in Part : held'[p][part] = splits'[DirOf[p]][part]
      BY <1>b, <2>5, <2>8, FileParts
    <3>4. PICK c \in Csv : splits[DirOf[p]] = StratifiedSplit(c, RandomState)
      BY <2>1 DEF Whole
    <3>5. \A part \in Part : held'[p][part].csv = c
      BY <2>3, <3>3, <3>4 DEF StratifiedSplit
    <3>6. OneCsv(held[p])'  BY <3>5 DEF OneCsv
    <3> QED  BY <1>a, <1>c, <1>d, <2>3, <2>6, <3>2, <3>6 DEF PrivateKept, InUse
  <2> QED  BY <2>7, <2>8
<1>11. CASE Fit(p)
  <2> DEFINE new == [frames |-> held[p], names |-> held[p]["train"].columns,
                     model |-> FALSE, by |-> p]
             n == Len(runs[p])
  <2>1. /\ phase[p] = "fit" /\ phase'[p] = "log" /\ runs'[p] = Append(runs[p], new)
        /\ UNCHANGED <<splits, held, mixed, misread, registry>>
    BY <1>0, <1>11 DEF Fit, TypeOK
  <2>2. runs[p] \in Seq(Run) /\ n \in Nat /\ new \in Run  BY <1>0, RunTypes, NewRun
  <2>3. OneCsv(new.frames)  BY <1>a, <2>1 DEF InUse
  <2> HIDE DEF new
  <2>4. Len(runs'[p]) = n + 1 /\ runs'[p][n + 1] = new /\ \A i \in 1 .. n : runs'[p][i] = runs[p][i]
    BY <2>1, <2>2
  <2>5. ASSUME NEW i \in 1 .. Len(runs'[p]) PROVE OneCsv(runs[p][i].frames)'
    <3>1. CASE i = n + 1  BY <2>3, <2>4, <3>1 DEF OneCsv
    <3>2. CASE i # n + 1
      <4>1. i \in 1 .. n  BY <2>2, <2>4, <3>2
      <4>2. runs'[p][i] = runs[p][i] /\ OneCsv(runs[p][i].frames)  BY <2>4, <4>1 DEF PrivateKept
      <4> QED  BY <4>2 DEF OneCsv
    <3> QED  BY <3>1, <3>2
  <2> QED  BY <1>c, <1>4, <2>1, <2>5 DEF InUse
<1>12. CASE LogModel(p)
  <2> DEFINE n == Len(runs[p])
  <2>1. /\ phase[p] = "log" /\ phase'[p] \in {"fit", "register"} /\ n > 0
        /\ UNCHANGED <<splits, held, mixed, misread, registry>>
    BY <1>0, <1>12 DEF LogModel, TypeOK, OnTrack
  <2>2. n \in Nat /\ runs[p][n] \in Run  BY <1>0, <2>1, RunTypes
  <2>3. /\ Len(runs'[p]) = n
        /\ runs'[p][n] = [runs[p][n] EXCEPT !.model = TRUE]
        /\ \A i \in 1 .. n - 1 : runs'[p][i] = runs[p][i]
    BY <1>0, <1>12, <2>1, Logged
  <2>4. runs'[p][n].frames = runs[p][n].frames  BY <2>2, <2>3 DEF Run
  <2>5. ASSUME NEW i \in 1 .. Len(runs'[p]) PROVE OneCsv(runs[p][i].frames)'
    <3>1. runs'[p][i].frames = runs[p][i].frames
      <4>1. CASE i = n  BY <2>4, <4>1
      <4>2. CASE i # n
        <5>1. i \in 1 .. n - 1  BY <2>2, <2>3, <4>2
        <5> QED  BY <2>3, <5>1
      <4> QED  BY <4>1, <4>2
    <3>2. OneCsv(runs[p][i].frames)  BY <2>3 DEF PrivateKept
    <3> QED  BY <3>1, <3>2 DEF OneCsv
  <2> QED  BY <1>c, <1>4, <2>1, <2>5 DEF InUse
<1>13. CASE RegisterBest(p)
  <2>1. /\ phase[p] = "register" /\ phase'[p] = "report"
        /\ UNCHANGED <<splits, held, mixed, misread, runs>>
    BY <1>0, <1>13 DEF RegisterBest, TypeOK
  <2>2. /\ registry' = Append(registry, runs[p][best'[p]]) /\ best'[p] \in 1..Len(runs[p])
        /\ Grows
    BY <1>0, <1>13, RegisterBestTypes
  <2>3. registry \in Seq(Run) /\ Len(registry) \in Nat /\ runs[p][best'[p]] \in Run
    BY <1>0, <2>2, RunTypes DEF TypeOK
  <2>4. /\ registry'[Len(registry) + 1] = runs[p][best'[p]]
        /\ DOMAIN registry' = 1 .. Len(registry) + 1 /\ DOMAIN registry = 1 .. Len(registry)
    BY <2>2, <2>3
  <2>5. OneCsv(runs[p][best'[p]].frames)  BY <2>2 DEF PrivateKept
  <2>6. ASSUME NEW v \in DOMAIN registry', registry'[v].by = p
        PROVE  OneCsv(registry[v].frames)'
    <3>1. CASE v = Len(registry) + 1  BY <2>4, <2>5, <3>1 DEF OneCsv
    <3>2. CASE v # Len(registry) + 1
      <4>1. v \in 1 .. Len(registry)  BY <2>3, <2>4, <3>2
      <4>2. registry'[v] = registry[v]  BY <1>0, <2>2, <4>1, Registered
      <4>3. OneCsv(registry[v].frames)  BY <2>4, <2>6, <4>1, <4>2 DEF PrivateKept
      <4> QED  BY <4>2, <4>3 DEF OneCsv
    <3> QED  BY <3>1, <3>2
  <2> QED  BY <1>d, <1>4, <2>1, <2>6 DEF InUse
<1>14. CASE WriteReport(p)
  <2>1. EndCommand(p) /\ splits' = splits /\ registry' = registry /\ phase[p] = "report"
    BY <1>14 DEF WriteReport
  <2>2. Whole(DirOf[p])'  BY <1>a, <1>e, <2>1 DEF InUse
  <2> QED  BY <1>3, <2>1, <2>2
<1>15. CASE Resolve(p)
  <2>1. CASE ~Fail(p)
    <3>1. /\ phase[p] = "resolve" /\ phase'[p] = "score"
          /\ UNCHANGED <<splits, held, mixed, misread, runs, registry>>
      BY <1>0, <1>15, <2>1 DEF Resolve, TypeOK, memory
    <3> QED  BY <1>c, <1>d, <1>4, <3>1 DEF InUse
  <2>2. CASE Fail(p)
    <3>1. misread' = misread  BY <1>15, <2>2 DEF Resolve
    <3> QED  BY <1>2, <1>a, <2>2, <3>1
  <2> QED  BY <2>1, <2>2
<1>16. CASE Score(p)
  <2>1. CASE EndCommand(p) /\ UNCHANGED <<splits, registry, report>>
    <3>1. phase[p] = "score"  BY <1>16 DEF Score
    <3>2. Whole(DirOf[p])'  BY <1>a, <1>e, <2>1, <3>1 DEF InUse
    <3> QED  BY <1>3, <2>1, <3>2
  <2>2. CASE Fail(p) /\ UNCHANGED <<aborts, misread>>  BY <1>2, <1>a, <2>2
  <2> QED  BY <1>16, <2>1, <2>2 DEF Score
<1>17. CASE Abort(p)
  <2>1. Fail(p) /\ misread' = misread  BY <1>17 DEF Abort
  <2> QED  BY <1>2, <1>a, <2>1
<1> QED  BY <1>5, <1>6, <1>8, <1>9, <1>10, <1>11, <1>12, <1>13, <1>14, <1>15, <1>16, <1>17
         DEF Acts, Step

LEMMA SelfContainedStays ==
    ASSUME NEW p \in Pipelines PROVE SelfContained(p)' <=> SelfContained(p)
BY DEF SelfContained

LEMMA StepsPrivate ==
    ASSUME Memory, FramesCut, RunsGood, Private, NEW q \in Pipelines, Acts(q)
    PROVE  Private'
<1> SUFFICES ASSUME NEW p \in Pipelines, SelfContained(p) PROVE PrivateKept(p)'
  BY SelfContainedStays DEF Private
<1>1. PrivateKept(p)  BY DEF Private
<1>2. CASE p = q  BY <1>1, <1>2, StepPrivate
<1>3. CASE p # q  BY <1>1, <1>3, UntouchedPrivate
<1> QED  BY <1>2, <1>3

LEMMA BystanderPrivate ==
    ASSUME Memory, Private, Bystander PROVE Private'
<1> SUFFICES ASSUME NEW p \in Pipelines, SelfContained(p) PROVE PrivateKept(p)'
  BY SelfContainedStays DEF Private
<1>1. PrivateKept(p)  BY DEF Private
<1>2. /\ UNCHANGED <<splits, registry, step, phase, misread>>
      /\ UNCHANGED <<file, held, mixed, runs>>
  BY BystanderOnTrack DEF memory
<1>3. Whole(DirOf[p]) => Whole(DirOf[p])'
  BY <1>2 DEF Whole, Trainable, StratifiedSplit, Columns
<1> QED  BY <1>1, <1>2, <1>3 DEF PrivateKept, OneCsv, InUse

LEMMA InitPrivate == Init => Private
<1> SUFFICES ASSUME Init, NEW p \in Pipelines PROVE PrivateKept(p)
  BY DEF Private
<1>1. /\ phase[p] = "idle" /\ mixed[p] = FALSE /\ misread = {} /\ Len(runs[p]) = 0
      /\ DOMAIN registry = {}
  BY DEF Init
<1> QED  BY <1>1 DEF PrivateKept, InUse

\* What a chain with a directory of its own reads is what its preprocess wrote: three
\* whole files of one CSV, and so is what its models are fitted and scored on.
THEOREM PrivateIsKept == Spec => []Private
<1>1. Memory /\ FramesCut /\ RunsGood /\ Private /\ [Next]_vars => Private'
  BY Steps, BystanderPrivate, StepsPrivate
<1> QED  BY <1>1, InitPrivate, MemoryOnTrack, FramesAreCut, RunsAreGood, PTL DEF Spec

\* A chain that shares its directory with nobody never finds a file torn, missing or
\* without a column, wherever its earlier runs were killed.
THEOREM PrivateSplitsCanBeRead == Spec => []PrivateSplitsAreReadable
<1>1. Private => PrivateSplitsAreReadable
  BY DEF Private, PrivateKept, PrivateSplitsAreReadable
<1> QED  BY <1>1, PrivateIsKept, PTL

\* No version was fitted to a row it was selected or tested on, nor is scored on one, as
\* long as the files it read were cut from one CSV, by however many runs of preprocess.
THEOREM ModelsAreHeldOut == Spec => []HeldOut
<1>1. ASSUME Memory, FramesCut, RunsGood, Private PROVE HeldOut
  <2>1. ASSUME NEW v \in DOMAIN registry, OneCsv(registry[v].frames),
               NEW a \in Part, NEW b \in Part, a # b
        PROVE  registry[v].frames[a].rows \cap registry[v].frames[b].rows = {}
    <3>1. GoodRun(registry[v])  BY <1>1 DEF RunsGood, RegistryGood
    <3>2. registry[v].frames[a] \in Cut(a) /\ registry[v].frames[b] \in Cut(b)
      BY <3>1 DEF GoodRun
    <3>3. registry[v].frames[a].csv = registry[v].frames[b].csv  BY <2>1 DEF OneCsv
    <3> QED  BY <2>1, <3>2, <3>3, CutApart
  <2>2. ASSUME NEW v \in DOMAIN registry, NEW p \in Pipelines, registry[v].by = p,
               SelfContained(p)
        PROVE  OneCsv(registry[v].frames)
    BY <1>1, <2>2 DEF Private, PrivateKept
  <2>3. ASSUME NEW p \in Pipelines, phase[p] = "score",
               registry[evaluated[p]].frames["train"].csv = held[p]["test"].csv
        PROVE  registry[evaluated[p]].frames["train"].rows \cap held[p]["test"].rows = {}
    <3>1. TypeOK /\ OnTrack(p) /\ HeldCut(p)  BY <1>1 DEF Memory, FramesCut
    <3>2. evaluated[p] \in 0..Len(registry) /\ evaluated[p] > 0 /\ registry \in Seq(Run)
      BY <2>3, <3>1 DEF TypeOK, OnTrack
    <3>3. evaluated[p] \in DOMAIN registry  BY <3>2
    <3>4. GoodRun(registry[evaluated[p]])  BY <1>1, <3>3 DEF RunsGood, RegistryGood
    <3>5. "train" \in Part /\ "test" \in Part /\ "train" # "test"  BY DEF Part
    <3>6. registry[evaluated[p]].frames["train"] \in Cut("train")  BY <3>4, <3>5 DEF GoodRun
    <3>7. held[p]["test"] \in Cut("test")  BY <2>3, <3>1, <3>5 DEF HeldCut, InUse
    <3> QED  BY <2>3, <3>5, <3>6, <3>7, CutApart
  <2> QED  BY <2>1, <2>2, <2>3 DEF HeldOut
<1> QED  BY <1>1, MemoryOnTrack, FramesAreCut, RunsAreGood, PrivateIsKept, PTL

-----------------------------------------------------------------------------
\* How many versions a pipeline can have registered.

Ours(p) == {v \in DOMAIN registry : registry[v].by = p}

\* Its chain has not come to register yet, and will unless it fails.
CanRegister(p) ==
    /\ phase[p] \notin Ended
    /\ \E i \in step[p] .. Len(Commands[p]) :
          Commands[p][i] = "train" /\ (i > step[p] \/ phase[p] # "report")

\* What has been registered, and what still can be, is paid for by a start.
Counted(p) ==
    /\ Cardinality(Ours(p)) <= attempts[p]
    /\ CanRegister(p) => Cardinality(Ours(p)) < attempts[p]

OncePerAttempt == \A p \in Pipelines : Counted(p)

LEMMA OursFinite ==
    ASSUME TypeOK, NEW p \in Pipelines
    PROVE  IsFiniteSet(Ours(p)) /\ Cardinality(Ours(p)) \in Nat /\ Len(registry) + 1 \notin Ours(p)
<1>1. registry \in Seq(Run)  BY DEF TypeOK
<1>2. Len(registry) \in Nat /\ DOMAIN registry = 1 .. Len(registry)  BY <1>1
<1>3. IsFiniteSet(1 .. Len(registry))  BY <1>2, FS_Interval
<1>4. Ours(p) \subseteq 1 .. Len(registry)  BY <1>2 DEF Ours
<1>5. IsFiniteSet(Ours(p))  BY <1>3, <1>4, FS_Subset
<1>6. Cardinality(Ours(p)) \in Nat  BY <1>5, FS_CardinalityType
<1> QED  BY <1>2, <1>4, <1>5, <1>6

LEMMA RegisterOurs ==
    ASSUME TypeOK, NEW p \in Pipelines, RunsOf(p), RegisterBest(p), NEW q \in Pipelines
    PROVE  Ours(q)' = IF q = p THEN Ours(p) \union {Len(registry) + 1} ELSE Ours(q)
<1>1. /\ registry' = Append(registry, runs[p][best'[p]]) /\ best'[p] \in 1..Len(runs[p])
      /\ Grows
  BY RegisterBestTypes
<1>2. runs[p][best'[p]].by = p  BY <1>1 DEF RunsOf
<1>3. registry \in Seq(Run) /\ runs[p][best'[p]] \in Run
  BY <1>1, RunTypes DEF TypeOK
<1>4. /\ DOMAIN registry' = DOMAIN registry \union {Len(registry) + 1}
      /\ Len(registry) + 1 \notin DOMAIN registry
      /\ registry'[Len(registry) + 1].by = p
      /\ \A v \in DOMAIN registry : registry'[v] = registry[v]
  BY <1>1, <1>2, <1>3
<1> QED  BY <1>4 DEF Ours

\* Only a start lets a chain register.
LEMMA StillCan ==
    ASSUME TypeOK, NEW p \in Pipelines, phase[p] \notin Ended, CanRegister(p)',
           Over(p) \/ Moved(p) \/ (step'[p] = step[p] /\ phase[p] # "report")
    PROVE  CanRegister(p)
<1>1. step[p] \in Nat /\ Len(Commands[p]) \in Nat  BY Chains DEF TypeOK
<1>2. ~Over(p)  BY DEF CanRegister, Over
<1>3. PICK i \in step'[p] .. Len(Commands[p]) : Commands[p][i] = "train"
  BY DEF CanRegister
<1>4. CASE Moved(p)
  <2>1. i \in step[p] .. Len(Commands[p]) /\ i > step[p]  BY <1>1, <1>3, <1>4 DEF Moved
  <2> QED  BY <1>3, <2>1 DEF CanRegister
<1>5. CASE step'[p] = step[p] /\ phase[p] # "report"  BY <1>3, <1>5 DEF CanRegister
<1> QED  BY <1>2, <1>4, <1>5

\* How an action leaves a command: ended, followed by the next one, or further on.
LEMMA Progress ==
    ASSUME TypeOK, NEW p \in Pipelines, Acts(p), ~(Start(p) \/ Retry(p))
    PROVE  /\ phase[p] \notin Ended /\ attempts' = attempts
           /\ Over(p) \/ Moved(p) \/ (step'[p] = step[p] /\ phase[p] # "report")
<1>1. ASSUME Fail(p), misread' \in SUBSET Pipelines, aborts' \in 0..MaxAborts
      PROVE  Over(p) /\ attempts' = attempts
  BY <1>1, FailTypes DEF Fail
<1>2. misread \union {p} \in SUBSET Pipelines /\ misread \in SUBSET Pipelines /\ aborts \in 0..MaxAborts
  BY DEF TypeOK
<1>3. ASSUME EndCommand(p) PROVE (Over(p) \/ Moved(p)) /\ attempts' = attempts
  <2>1. Grows /\ Len(registry') \in Nat /\ Len(registry) <= Len(registry')
    BY StepsGrow, Registered
  <2> QED  BY <1>3, <2>1, EndTypes DEF EndCommand, control
<1>4. CASE LoadRaw(p)  BY <1>1, <1>2, <1>4 DEF LoadRaw, Ended, control
<1>5. CASE Truncate(p)  BY <1>5 DEF Truncate, Ended, control
<1>6. CASE Fill(p)  BY <1>3, <1>6 DEF Fill, Ended, control
<1>7. CASE ReadSplit(p)
  <2>1. phase[p] = "read"  BY <1>7 DEF ReadSplit
  <2>2. CASE Fail(p) /\ misread' = misread \union {p} /\ UNCHANGED aborts
    BY <1>1, <1>2, <2>1, <2>2 DEF Ended
  <2>3. CASE UNCHANGED <<step, control>>  BY <2>1, <2>3 DEF Ended, control
  <2> QED  BY <1>7, <2>2, <2>3 DEF ReadSplit, control
<1>8. CASE Fit(p)  BY <1>8 DEF Fit, Ended, control
<1>9. CASE LogModel(p)  BY <1>9 DEF LogModel, Ended, control
<1>10. CASE RegisterBest(p)  BY <1>10 DEF RegisterBest, Ended, control
<1>11. CASE WriteReport(p)  BY <1>3, <1>11 DEF WriteReport, Ended
<1>12. CASE Resolve(p)  BY <1>1, <1>2, <1>12 DEF Resolve, Ended, control
<1>13. CASE Score(p)  BY <1>1, <1>2, <1>3, <1>13 DEF Score, Ended
<1>14. CASE Abort(p)
  <2>1. misread' \in SUBSET Pipelines  BY <1>2, <1>14 DEF Abort
  <2>2. aborts' \in 0..MaxAborts
    <3>1. MaxAborts \in Nat  BY RetrainingAssumption
    <3> QED  BY <1>2, <1>14, <3>1 DEF Abort
  <2> QED  BY <1>1, <1>14, <2>1, <2>2 DEF Abort
<1> QED  BY <1>4, <1>5, <1>6, <1>7, <1>8, <1>9, <1>10, <1>11, <1>12, <1>13, <1>14 DEF Acts, Step

LEMMA StartCounted ==
    ASSUME Memory, NEW p \in Pipelines, Counted(p), Start(p) \/ Retry(p) PROVE Counted(p)'
<1>1. TypeOK /\ OnTrack(p) /\ Begin(p)  BY StartTypes DEF Memory
<1>2. registry' = registry /\ step' = step /\ step[p] = 1
  BY <1>1 DEF Begin, OnTrack, Start, Retry, Ended
<1>3. Ours(p)' = Ours(p) /\ Cardinality(Ours(p)) \in Nat  BY <1>1, <1>2, OursFinite DEF Ours
<1>4. attempts[p] \in Nat /\ attempts'[p] = IF Trains(p) THEN attempts[p] + 1 ELSE attempts[p]
  BY <1>1 DEF Begin, TypeOK
<1>5. CanRegister(p)' => Trains(p)  BY <1>2 DEF CanRegister, Trains
<1>6. Cardinality(Ours(p)) <= attempts[p]  BY DEF Counted
<1>7. Cardinality(Ours(p)') <= attempts'[p] /\ (Trains(p) => Cardinality(Ours(p)') < attempts'[p])
  BY <1>3, <1>4, <1>6
<1> QED  BY <1>5, <1>7 DEF Counted

\* Registering uses up what the start paid for: a chain trains once.
LEMMA RegisterCounted ==
    ASSUME Memory, RunsGood, NEW p \in Pipelines, Counted(p), RegisterBest(p)
    PROVE  Counted(p)'
<1>1. TypeOK /\ OnTrack(p) /\ RunsOf(p)  BY DEF Memory, RunsGood
<1>2. /\ phase[p] = "register" /\ phase'[p] = "report" /\ step' = step
      /\ attempts' = attempts
  BY <1>1 DEF RegisterBest, TypeOK, control
<1>3. step[p] \in 1 .. Len(Commands[p]) /\ Commands[p][step[p]] = "train"
  BY <1>1, <1>2, Chains DEF OnTrack, Doing, TypeOK
<1>4. CanRegister(p)
  <2>1. step[p] \in step[p] .. Len(Commands[p])  BY <1>1, <1>3, Chains DEF TypeOK
  <2> QED  BY <1>2, <1>3, <2>1 DEF CanRegister, Ended
<1>5. ~CanRegister(p)'
  <2> SUFFICES ASSUME NEW i \in step[p] .. Len(Commands[p]), Commands[p][i] = "train",
                      i > step[p]
               PROVE  FALSE
    BY <1>2 DEF CanRegister
  <2>1. i \in 1 .. Len(Commands[p])  BY <1>3
  <2>2. i = step[p]  BY <1>3, <2>1, RetrainingAssumption
  <2> QED  BY <1>3, <2>1, <2>2
<1>6. Ours(p)' = Ours(p) \union {Len(registry) + 1}  BY <1>1, RegisterOurs
<1>7. /\ IsFiniteSet(Ours(p)) /\ Cardinality(Ours(p)) \in Nat
      /\ Len(registry) + 1 \notin Ours(p)
  BY <1>1, OursFinite
<1>8. Cardinality(Ours(p)') = Cardinality(Ours(p)) + 1  BY <1>6, <1>7, FS_AddElement
<1>9. Cardinality(Ours(p)) < attempts[p] /\ attempts[p] \in Nat
  BY <1>1, <1>4 DEF Counted, TypeOK
<1>10. Cardinality(Ours(p)') <= attempts'[p]  BY <1>2, <1>7, <1>8, <1>9
<1> QED  BY <1>5, <1>10 DEF Counted

LEMMA StepCounted ==
    ASSUME Memory, RunsGood, NEW p \in Pipelines, Counted(p), Acts(p) PROVE Counted(p)'
<1>1. CASE Start(p) \/ Retry(p)  BY <1>1, StartCounted
<1>2. CASE RegisterBest(p)  BY <1>2, RegisterCounted
<1>3. CASE ~(Start(p) \/ Retry(p)) /\ ~RegisterBest(p)
  <2>1. TypeOK  BY DEF Memory
  <2>2. registry' = registry  BY <1>3, <2>1, StepsGrow
  <2>3. Ours(p)' = Ours(p)  BY <2>2 DEF Ours
  <2>4. attempts' = attempts /\ (CanRegister(p)' => CanRegister(p))
    BY <1>3, <2>1, Progress, StillCan
  <2> QED  BY <2>3, <2>4 DEF Counted
<1> QED  BY <1>1, <1>2, <1>3

LEMMA UntouchedCounted ==
    ASSUME Memory, RunsGood, NEW p \in Pipelines, Acts(p), NEW q \in Pipelines, q # p,
           Counted(q)
    PROVE  Counted(q)'
<1>1. TypeOK /\ RunsOf(p) /\ Untouched(q)  BY OthersUntouched DEF Memory, RunsGood
<1>2. Ours(q)' = Ours(q)
  <2>1. CASE RegisterBest(p)  BY <1>1, <2>1, RegisterOurs
  <2>2. CASE registry' = registry  BY <2>2 DEF Ours
  <2> QED  BY <1>1, <2>1, <2>2, StepsGrow
<1>3. CanRegister(q)' <=> CanRegister(q)  BY <1>1 DEF CanRegister, Untouched
<1>4. attempts'[q] = attempts[q]  BY <1>1 DEF Untouched
<1> QED  BY <1>2, <1>3, <1>4 DEF Counted

LEMMA BystanderCounted ==
    ASSUME Memory, OncePerAttempt, Bystander PROVE OncePerAttempt'
<1>1. UNCHANGED <<registry, step, phase, attempts>>  BY BystanderOnTrack DEF control
<1> QED  BY <1>1 DEF OncePerAttempt, Counted, Ours, CanRegister

LEMMA InitCounted == Init => OncePerAttempt
<1> SUFFICES ASSUME Init, NEW p \in Pipelines PROVE Counted(p)  BY DEF OncePerAttempt
<1>1. Ours(p) = {} /\ phase[p] \in Ended /\ attempts[p] = 0  BY DEF Init, Ours, Ended
<1>2. Cardinality({}) = 0  BY FS_EmptySet
<1> QED  BY <1>1, <1>2 DEF Counted, CanRegister

LEMMA StepsCounted ==
    ASSUME Memory, RunsGood, OncePerAttempt, NEW p \in Pipelines, Acts(p)
    PROVE  OncePerAttempt'
BY StepCounted, UntouchedCounted DEF OncePerAttempt

\* However often a chain is killed and retried, and whoever registers in between, a
\* pipeline has registered no more versions than it was started.
THEOREM OneVersionForEachAttempt == Spec => []OneVersionPerAttempt
<1>1. Memory /\ RunsGood /\ OncePerAttempt /\ [Next]_vars => OncePerAttempt'
  BY Steps, BystanderCounted, StepsCounted
<1>2. OncePerAttempt => OneVersionPerAttempt
  BY DEF OncePerAttempt, Counted, Ours, OneVersionPerAttempt
<1> QED  BY <1>1, <1>2, InitCounted, MemoryOnTrack, RunsAreGood, PTL DEF Spec

-----------------------------------------------------------------------------
\* What a version is chosen from, and what becomes of it.

\* The best is the best of all candidates: each has logged its model, and all were fitted
\* and scored on the frames this training read, whatever became of the files since.
BestOfAll ==
    \A p \in Pipelines : phase[p] \in {"register", "report"} =>
        /\ Len(runs[p]) = NumSpecs
        /\ \A i \in 1 .. NumSpecs : runs[p][i].model /\ runs[p][i].frames = held[p]

\* How far a training is with its candidates.
CandidatesOf(p) ==
    /\ phase[p] \notin {"fit", "log", "register", "report"} => Len(runs[p]) = 0
    /\ phase[p] = "fit" => Len(runs[p]) < NumSpecs
    /\ phase[p] = "log" => Len(runs[p]) \in 1 .. NumSpecs
    /\ phase[p] \in {"register", "report"} => Len(runs[p]) = NumSpecs
    /\ \A i \in 1 .. Len(runs[p]) : runs[p][i].frames = held[p]

\* A version is never taken back or replaced, and one is added at a time, by a training
\* that has come to register.
VersionsStay ==
    [][/\ \A v \in DOMAIN registry : v \in DOMAIN registry' /\ registry'[v] = registry[v]
       /\ registry' # registry =>
              /\ Len(registry') = Len(registry) + 1
              /\ \E p \in Pipelines : /\ phase[p] = "register" /\ version'[p] = Len(registry')
                                      /\ registry'[Len(registry')].by = p]_vars

\* Where an action leaves its own pipeline.
Begun(p) == phase[p] \in Ended /\ phase'[p] \in {"load", "read"} /\ UNCHANGED runs[p]
Ends(p) == phase[p] \notin Ended /\ (Over(p) \/ Moved(p)) /\ Emptied(p)
Goes(p, from, to) == phase[p] = from /\ phase'[p] = to /\ step'[p] = step[p]
NextFile(p) == file[p] < 3 /\ file'[p] = file[p] + 1
Onward(p) ==
    \/ Goes(p, "load", "truncate") /\ UNCHANGED <<file[p], runs[p]>>
    \/ Goes(p, "truncate", "fill") /\ UNCHANGED <<file[p], runs[p]>>
    \/ Goes(p, "fill", "truncate") /\ NextFile(p) /\ UNCHANGED runs[p]
    \/ Goes(p, "read", "read") /\ NextFile(p) /\ UNCHANGED runs[p]
    \/ (Goes(p, "read", "fit") \/ Goes(p, "read", "resolve")) /\ UNCHANGED runs[p]
    \/ /\ Goes(p, "fit", "log") /\ UNCHANGED held[p]
       /\ Len(runs'[p]) = Len(runs[p]) + 1
       /\ \A i \in 1 .. Len(runs'[p]) :
             runs'[p][i].frames = IF i = Len(runs'[p]) THEN held[p] ELSE runs[p][i].frames
    \/ /\ \/ Goes(p, "log", "fit") /\ Len(runs[p]) < NumSpecs
          \/ Goes(p, "log", "register") /\ ~(Len(runs[p]) < NumSpecs)
       /\ UNCHANGED held[p] /\ Len(runs'[p]) = Len(runs[p])
       /\ \A i \in 1 .. Len(runs'[p]) : runs'[p][i].frames = runs[p][i].frames
    \/ (Goes(p, "register", "report") \/ Goes(p, "resolve", "score"))
       /\ UNCHANGED <<held[p], runs[p]>>

LEMMA OwnSteps ==
    ASSUME Memory, NEW p \in Pipelines, Acts(p)
    PROVE  /\ Begun(p) \/ Ends(p) \/ Onward(p)
           /\ Begun(p) => Start(p) \/ Retry(p)
<1>0. TypeOK /\ TypeOK' /\ OnTrack(p)
  BY StepsOnTrack DEF Memory
<1>1. ASSUME Fail(p) PROVE (Over(p) \/ Moved(p)) /\ Emptied(p)
  <2>1. misread' \in SUBSET Pipelines /\ aborts' \in 0..MaxAborts  BY <1>0 DEF TypeOK
  <2> QED  BY <1>0, <1>1, <2>1, FailTypes
<1>2. ASSUME EndCommand(p) PROVE (Over(p) \/ Moved(p)) /\ Emptied(p)
  <2>1. /\ Grows /\ splits' \in [Dir -> [Part -> Frame \union {Torn}]]
        /\ report' \in [Pipelines -> SUBSET [version : 1..Len(registry'), best : Run]]
    BY <1>0, StepsGrow DEF TypeOK
  <2> QED  BY <1>0, <1>2, <2>1, EndCommandTypes
<1>3. ~(Start(p) \/ Retry(p)) => phase[p] \notin Ended
  BY <1>0, Progress
<1>4. CASE Start(p) \/ Retry(p)
  <2>1. Begin(p) /\ phase[p] \in Ended  BY <1>4 DEF Start, Retry, Ended
  <2>2. phase'[p] \in {"load", "read"}  BY <1>0, <2>1 DEF Begin, TypeOK, FirstPhase
  <2> QED  BY <1>4, <2>1, <2>2 DEF Begin, Begun, memory
<1>5. CASE ~(Start(p) \/ Retry(p)) /\ (Fail(p) \/ EndCommand(p))
  BY <1>1, <1>2, <1>3, <1>5 DEF Ends, Begun
<1>6. CASE ~(Start(p) \/ Retry(p)) /\ ~Fail(p) /\ ~EndCommand(p)
  <2> SUFFICES Onward(p)
    BY <1>3, <1>6 DEF Begun
  <2> USE DEF Onward, Goes
  <2>1. CASE LoadRaw(p)
    <3>1. phase[p] = "load" /\ phase'[p] = "truncate" /\ UNCHANGED <<step, file, runs>>
      BY <1>0, <1>6, <2>1 DEF LoadRaw, TypeOK
    <3> QED  BY <3>1
  <2>2. CASE Truncate(p)
    <3>1. phase[p] = "truncate" /\ phase'[p] = "fill" /\ UNCHANGED <<step, file, runs>>
      BY <1>0, <2>2 DEF Truncate, TypeOK
    <3> QED  BY <3>1
  <2>3. CASE Fill(p)
    <3>1. /\ phase[p] = "fill" /\ phase'[p] = "truncate" /\ UNCHANGED <<step, runs>>
          /\ NextFile(p)
      BY <1>0, <1>6, <2>3 DEF Fill, TypeOK, NextFile
    <3> QED  BY <3>1
  <2>4. CASE ReadSplit(p)
    <3>1. /\ phase[p] = "read" /\ UNCHANGED <<step, runs>>
          /\ \/ phase'[p] = "read" /\ NextFile(p)
             \/ phase'[p] \in {"fit", "resolve"}
      BY <1>0, <1>6, <2>4 DEF ReadSplit, TypeOK, NextFile
    <3> QED  BY <3>1
  <2>5. CASE Fit(p)
    <3> DEFINE new == [frames |-> held[p], names |-> held[p]["train"].columns,
                       model |-> FALSE, by |-> p]
               n == Len(runs[p])
    <3>1. phase[p] = "fit" /\ phase'[p] = "log" /\ UNCHANGED <<step, held>>
      BY <1>0, <2>5 DEF Fit, TypeOK
    <3>2. runs'[p] = Append(runs[p], new)  BY <1>0, <2>5 DEF Fit, TypeOK
    <3>3. runs[p] \in Seq(Run) /\ n \in Nat  BY <1>0, RunTypes
    <3>4. new \in Run  BY <1>0, NewRun
    <3>5. new.frames = held[p]  OBVIOUS
    <3> HIDE DEF new
    <3>6. Len(runs'[p]) = n + 1 /\ runs'[p][n + 1] = new /\ \A i \in 1 .. n : runs'[p][i] = runs[p][i]
      BY <3>2, <3>3, <3>4
    <3>7. \A i \in 1 .. n + 1 : i \in 1 .. n \/ i = n + 1  BY <3>3
    <3> QED  BY <3>1, <3>5, <3>6, <3>7
  <2>6. CASE LogModel(p)
    <3> DEFINE n == Len(runs[p])
    <3>1. /\ phase[p] = "log" /\ UNCHANGED <<step, held>>
          /\ phase'[p] = IF n < NumSpecs THEN "fit" ELSE "register"
      BY <1>0, <2>6 DEF LogModel, TypeOK
    <3>2. n > 0  BY <1>0, <3>1 DEF OnTrack
    <3>3. n \in Nat /\ runs[p] \in Seq(Run) /\ \A i \in 1 .. n : runs[p][i] \in Run
      BY <1>0, RunTypes
    <3>4. /\ Len(runs'[p]) = n
          /\ runs'[p][n] = [runs[p][n] EXCEPT !.model = TRUE]
          /\ \A i \in 1 .. n - 1 : runs'[p][i] = runs[p][i]
      BY <1>0, <2>6, <3>2, Logged
    <3>5. n \in 1 .. n /\ \A i \in 1 .. n : i = n \/ i \in 1 .. n - 1  BY <3>2, <3>3
    <3>6. runs'[p][n].frames = runs[p][n].frames  BY <3>3, <3>4, <3>5 DEF Run
    <3> QED  BY <3>1, <3>4, <3>5, <3>6
  <2>7. CASE RegisterBest(p)
    <3>1. /\ phase[p] = "register" /\ phase'[p] = "report" /\ UNCHANGED <<step, held, runs>>
      BY <1>0, <2>7 DEF RegisterBest, TypeOK
    <3> QED  BY <3>1
  <2>8. CASE Resolve(p)
    <3>1. /\ phase[p] = "resolve" /\ phase'[p] = "score" /\ UNCHANGED <<step, held, runs>>
      BY <1>0, <1>6, <2>8 DEF Resolve, TypeOK, memory
    <3> QED  BY <3>1
  <2> QED
    BY <1>6, <2>1, <2>2, <2>3, <2>4, <2>5, <2>6, <2>7, <2>8
    DEF Acts, Step, WriteReport, Score, Abort
<1> QED  BY <1>4, <1>5, <1>6

LEMMA StepCandidates ==
    ASSUME Memory, NEW p \in Pipelines, CandidatesOf(p), Acts(p) PROVE CandidatesOf(p)'
<1>1. Len(runs[p]) \in Nat /\ NumSpecs \in Nat \ {0}
  BY RunTypes, RetrainingAssumption DEF Memory
<1>2. CASE Begun(p)
  <2>1. Len(runs'[p]) = 0 /\ phase'[p] \in {"load", "read"}
    BY <1>2 DEF Begun, CandidatesOf, Ended
  <2> QED  BY <2>1 DEF CandidatesOf
<1>3. CASE Ends(p)
  <2>1. Len(runs'[p]) = 0 /\ phase'[p] \in Ended \union {"load", "read"}
    BY <1>3 DEF Ends, Emptied, Over, Moved, FirstPhase
  <2> QED  BY <2>1 DEF CandidatesOf, Ended
<1>4. CASE Onward(p)
  <2>1. ASSUME UNCHANGED runs[p], Len(runs[p]) = 0,
               phase'[p] \notin {"log", "register", "report"}
        PROVE  CandidatesOf(p)'
    BY <1>1, <2>1 DEF CandidatesOf
  <2>2. CASE /\ Goes(p, "fit", "log") /\ UNCHANGED held[p]
             /\ Len(runs'[p]) = Len(runs[p]) + 1
             /\ \A i \in 1 .. Len(runs'[p]) :
                   runs'[p][i].frames = IF i = Len(runs'[p]) THEN held[p] ELSE runs[p][i].frames
    <3>1. phase'[p] = "log" /\ Len(runs'[p]) \in 1 .. NumSpecs
      BY <1>1, <2>2 DEF Goes, CandidatesOf
    <3>2. \A i \in 1 .. Len(runs'[p]) : i = Len(runs'[p]) \/ i \in 1 .. Len(runs[p])
      BY <1>1, <2>2
    <3> QED  BY <2>2, <3>1, <3>2 DEF CandidatesOf
  <2>3. CASE /\ \/ Goes(p, "log", "fit") /\ Len(runs[p]) < NumSpecs
                \/ Goes(p, "log", "register") /\ ~(Len(runs[p]) < NumSpecs)
             /\ UNCHANGED held[p] /\ Len(runs'[p]) = Len(runs[p])
             /\ \A i \in 1 .. Len(runs'[p]) : runs'[p][i].frames = runs[p][i].frames
    <3>1. \/ phase'[p] = "fit" /\ Len(runs'[p]) < NumSpecs
          \/ phase'[p] = "register" /\ Len(runs'[p]) = NumSpecs
      BY <1>1, <2>3 DEF Goes, CandidatesOf
    <3> QED  BY <2>3, <3>1 DEF CandidatesOf
  <2>4. CASE (Goes(p, "register", "report") \/ Goes(p, "resolve", "score"))
             /\ UNCHANGED <<held[p], runs[p]>>
    BY <2>4 DEF Goes, CandidatesOf
  <2> QED  BY <1>4, <2>1, <2>2, <2>3, <2>4 DEF Onward, Goes, CandidatesOf
<1> QED  BY <1>2, <1>3, <1>4, OwnSteps

Candidates == \A p \in Pipelines : CandidatesOf(p)

LEMMA StepsCandidates ==
    ASSUME Memory, Candidates, NEW p \in Pipelines, Acts(p) PROVE Candidates'
<1>1. CandidatesOf(p)'  BY StepCandidates DEF Candidates
<1>2. ASSUME NEW q \in Pipelines, q # p PROVE CandidatesOf(q)'
  <2>1. Untouched(q)  BY <1>2, OthersUntouched DEF Memory
  <2> QED  BY <2>1 DEF Candidates, CandidatesOf, Untouched
<1> QED  BY <1>1, <1>2 DEF Candidates

LEMMA BystanderCandidates ==
    ASSUME Memory, Candidates, Bystander PROVE Candidates'
<1>1. UNCHANGED <<phase, runs, held>>  BY BystanderOnTrack DEF memory
<1> QED  BY <1>1 DEF Candidates, CandidatesOf

\* A training trains each of its candidates once, and holds on to what it read.
LEMMA CandidatesAreCounted == Spec => []Candidates
<1>1. ASSUME Init PROVE Candidates
  <2> SUFFICES ASSUME NEW p \in Pipelines PROVE CandidatesOf(p)  BY DEF Candidates
  <2>1. Len(runs[p]) = 0 /\ phase[p] = "idle"  BY <1>1 DEF Init
  <2> QED  BY <2>1 DEF CandidatesOf
<1>2. Memory /\ Candidates /\ [Next]_vars => Candidates'
  BY Steps, BystanderCandidates, StepsCandidates
<1> QED  BY <1>1, <1>2, MemoryOnTrack, PTL DEF Spec

\* train compares all its candidates, on one reading of the splits, before it registers one.
THEOREM BestIsOfAll == Spec => []BestOfAll
<1>1. ASSUME RunsGood, Candidates PROVE BestOfAll
  <2> SUFFICES ASSUME NEW p \in Pipelines, phase[p] \in {"register", "report"}
               PROVE  /\ Len(runs[p]) = NumSpecs
                      /\ \A i \in 1 .. NumSpecs : runs[p][i].model /\ runs[p][i].frames = held[p]
    BY DEF BestOfAll
  <2>1. RunsOf(p) /\ CandidatesOf(p)  BY <1>1 DEF RunsGood, Candidates
  <2> QED  BY <2>1 DEF RunsOf, CandidatesOf
<1> QED  BY <1>1, RunsAreGood, CandidatesAreCounted, PTL

\* Chains that train at the same time, and chains that are killed, neither replace nor
\* remove a version; what is new has come from a training that had all its candidates.
THEOREM VersionsAreKept == Spec => VersionsStay
<1>1. ASSUME Memory, RunsGood, [Next]_vars
      PROVE  /\ \A v \in DOMAIN registry : v \in DOMAIN registry' /\ registry'[v] = registry[v]
             /\ registry' # registry =>
                    /\ Len(registry') = Len(registry) + 1
                    /\ \E p \in Pipelines : /\ phase[p] = "register" /\ version'[p] = Len(registry')
                                            /\ registry'[Len(registry')].by = p
  <2>t. TypeOK  BY <1>1 DEF Memory
  <2>1. CASE registry' = registry  BY <2>1
  <2>2. ASSUME NEW p \in Pipelines, Acts(p), registry' # registry
        PROVE  /\ \A v \in DOMAIN registry : v \in DOMAIN registry' /\ registry'[v] = registry[v]
               /\ Len(registry') = Len(registry) + 1
               /\ phase[p] = "register" /\ version'[p] = Len(registry')
               /\ registry'[Len(registry')].by = p
    <3>1. Grows /\ RegisterBest(p)  BY <2>t, <2>2, StepsGrow
    <3>2. /\ \A v \in DOMAIN registry : v \in DOMAIN registry' /\ registry'[v] = registry[v]
          /\ Len(registry) \in Nat
      BY <2>t, <3>1, Registered
    <3>3. /\ registry' = Append(registry, runs[p][best'[p]]) /\ best'[p] \in 1..Len(runs[p])
          /\ version'[p] = Len(registry')
      BY <2>t, <3>1, RegisterBestTypes
    <3>4. RunsOf(p)  BY <1>1 DEF RunsGood
    <3>5. runs[p][best'[p]].by = p  BY <3>3, <3>4 DEF RunsOf
    <3>6. registry \in Seq(Run) /\ runs[p][best'[p]] \in Run  BY <2>t, <3>3, RunTypes DEF TypeOK
    <3>7. Len(registry') = Len(registry) + 1 /\ registry'[Len(registry')] = runs[p][best'[p]]
      BY <3>3, <3>6
    <3> QED  BY <3>1, <3>2, <3>3, <3>5, <3>7 DEF RegisterBest
  <2>3. ASSUME Bystander PROVE registry' = registry  BY <1>1, <2>3, BystanderOnTrack
  <2> QED  BY <1>1, <2>1, <2>2, <2>3, Steps
<1>2. Memory /\ RunsGood /\ [Next]_vars
        => [/\ \A v \in DOMAIN registry : v \in DOMAIN registry' /\ registry'[v] = registry[v]
            /\ registry' # registry =>
                   /\ Len(registry') = Len(registry) + 1
                   /\ \E p \in Pipelines : /\ phase[p] = "register" /\ version'[p] = Len(registry')
                                           /\ registry'[Len(registry')].by = p]_vars
  BY <1>1
<1> QED  BY <1>2, MemoryOnTrack, RunsAreGood, PTL DEF Spec, VersionsStay
-----------------------------------------------------------------------------
\* The half of ChainsEnd that needs no fairness.

\* The steps a command has left at most: reading, writing or scoring three files, and two
\* for each candidate.
CommandLeft(p) ==
    CASE phase[p] = "load" -> 8
      [] phase[p] = "truncate" -> 8 - 2 * file[p]
      [] phase[p] = "fill" -> 7 - 2 * file[p]
      [] phase[p] = "read" -> 2 * NumSpecs + 7 - file[p]
      [] phase[p] = "fit" -> 2 * (NumSpecs - Len(runs[p])) + 2
      [] phase[p] = "log" -> 2 * (NumSpecs - Len(runs[p])) + 3
      [] phase[p] \in {"register", "resolve"} -> 2
      [] phase[p] \in {"report", "score"} -> 1
      [] OTHER -> 0

LongestCommand == 2 * NumSpecs + 10

\* ... and a chain of them.
ChainLeft(p) ==
    IF phase[p] \in Ended THEN 0
    ELSE (Len(Commands[p]) - step[p]) * LongestCommand + CommandLeft(p)

\* Each step of a running chain brings it closer to its end, in whatever state it finds
\* the files and the registry, and no other pipeline's step takes it back.
ChainGetsCloser ==
    [][\A p \in Pipelines : phase[p] \notin Ended =>
           /\ ChainLeft(p)' <= ChainLeft(p)
           /\ Step(p) \/ Abort(p) => ChainLeft(p)' < ChainLeft(p)]_vars

LEMMA LongerByOne ==
    ASSUME NEW a \in Nat, NEW k \in Nat PROVE a * k \in Nat /\ (a + 1) * k = a * k + k
  OBVIOUS

LEMMA NumbersLeft ==
    ASSUME TypeOK, NEW p \in Pipelines
    PROVE  Len(runs[p]) \in Nat /\ NumSpecs \in Nat /\ NumSpecs > 0 /\ file[p] \in 1..3
<1>1. Len(runs[p]) \in Nat  BY RunTypes
<1>2. NumSpecs \in Nat /\ NumSpecs > 0  BY RetrainingAssumption
<1>3. file[p] \in 1..3  BY DEF TypeOK
<1> QED  BY <1>1, <1>2, <1>3

LEMMA CommandLeftBounds ==
    ASSUME TypeOK, NEW p \in Pipelines, CandidatesOf(p), phase[p] \notin Ended
    PROVE  /\ CommandLeft(p) \in Nat /\ CommandLeft(p) > 0 /\ CommandLeft(p) < LongestCommand
           /\ LongestCommand \in Nat
<1>1. Len(runs[p]) \in Nat /\ NumSpecs \in Nat /\ NumSpecs > 0 /\ file[p] \in 1..3
  BY NumbersLeft
<1>0. phase[p] \in Phase  BY DEF TypeOK
<1>2. phase[p] = "fit" => Len(runs[p]) < NumSpecs  BY DEF CandidatesOf
<1>3. phase[p] = "log" => Len(runs[p]) <= NumSpecs  BY <1>1 DEF CandidatesOf
<1>4. CASE phase[p] \in {"load", "truncate", "fill", "read"}
  <2>1. CASE phase[p] = "load"
    <3>1. CommandLeft(p) = 8  BY <2>1 DEF CommandLeft
    <3> QED  BY <1>1, <3>1 DEF LongestCommand
  <2>2. CASE phase[p] = "truncate"
    <3>1. CommandLeft(p) = 8 - 2 * file[p]  BY <2>2 DEF CommandLeft
    <3> QED  BY <1>1, <3>1 DEF LongestCommand
  <2>3. CASE phase[p] = "fill"
    <3>1. CommandLeft(p) = 7 - 2 * file[p]  BY <2>3 DEF CommandLeft
    <3> QED  BY <1>1, <3>1 DEF LongestCommand
  <2>4. CASE phase[p] = "read"
    <3>1. CommandLeft(p) = 2 * NumSpecs + 7 - file[p]  BY <2>4 DEF CommandLeft
    <3> QED  BY <1>1, <3>1 DEF LongestCommand
  <2> QED  BY <1>4, <2>1, <2>2, <2>3, <2>4
<1>5. CASE phase[p] = "fit"
  <2>1. CommandLeft(p) = 2 * (NumSpecs - Len(runs[p])) + 2  BY <1>5 DEF CommandLeft
  <2> QED  BY <1>1, <1>2, <1>5, <2>1 DEF LongestCommand
<1>6. CASE phase[p] = "log"
  <2>1. CommandLeft(p) = 2 * (NumSpecs - Len(runs[p])) + 3  BY <1>6 DEF CommandLeft
  <2> QED  BY <1>1, <1>3, <1>6, <2>1 DEF LongestCommand
<1>7. CASE phase[p] \in {"register", "report", "resolve", "score"}
  <2>1. CommandLeft(p) \in {1, 2}  BY <1>7 DEF CommandLeft
  <2> QED  BY <1>1, <2>1 DEF LongestCommand
<1>8. LongestCommand \in Nat  BY <1>1 DEF LongestCommand
<1> QED  BY <1>0, <1>4, <1>5, <1>6, <1>7, <1>8 DEF Phase

LEMMA OnwardIsCloser ==
    ASSUME TypeOK, NEW p \in Pipelines, CandidatesOf(p), Onward(p)
    PROVE  /\ CommandLeft(p)' \in Nat /\ CommandLeft(p)' < CommandLeft(p)
           /\ phase[p] \notin Ended /\ phase'[p] \notin Ended /\ step'[p] = step[p]
<1>1. Len(runs[p]) \in Nat /\ NumSpecs \in Nat /\ NumSpecs > 0 /\ file[p] \in 1..3
  BY NumbersLeft
<1> USE DEF Goes, CommandLeft, Ended
<1>2. CASE Goes(p, "load", "truncate") /\ UNCHANGED <<file[p], runs[p]>>
  BY <1>1, <1>2
<1>3. CASE Goes(p, "truncate", "fill") /\ UNCHANGED <<file[p], runs[p]>>
  BY <1>1, <1>3
<1>4. CASE Goes(p, "fill", "truncate") /\ NextFile(p)
  BY <1>1, <1>4 DEF NextFile
<1>5. CASE Goes(p, "read", "read") /\ NextFile(p)
  BY <1>1, <1>5 DEF NextFile
<1>6. CASE (Goes(p, "read", "fit") \/ Goes(p, "read", "resolve")) /\ UNCHANGED runs[p]
  <2>1. Len(runs[p]) = 0  BY <1>6 DEF CandidatesOf
  <2>2. Len(runs'[p]) = 0  BY <1>6, <2>1
  <2> QED  BY <1>1, <1>6, <2>1, <2>2
<1>7. CASE Goes(p, "fit", "log") /\ Len(runs'[p]) = Len(runs[p]) + 1
  <2>1. Len(runs[p]) < NumSpecs  BY <1>7 DEF CandidatesOf
  <2>2. CommandLeft(p) = 2 * (NumSpecs - Len(runs[p])) + 2
    BY <1>7
  <2>3. CommandLeft(p)' = 2 * (NumSpecs - (Len(runs[p]) + 1)) + 3
    BY <1>7
  <2>4. phase[p] \notin Ended /\ phase'[p] \notin Ended /\ step'[p] = step[p]
    BY <1>7
  <2> HIDE DEF CommandLeft, Goes
  <2> QED  BY <1>1, <2>1, <2>2, <2>3, <2>4
<1>8. CASE /\ Goes(p, "log", "fit") /\ Len(runs'[p]) = Len(runs[p])
           /\ Len(runs[p]) < NumSpecs
  BY <1>1, <1>8
<1>9. CASE Goes(p, "log", "register")
  <2>1. Len(runs[p]) <= NumSpecs  BY <1>1, <1>9 DEF CandidatesOf
  <2> QED  BY <1>1, <1>9, <2>1
<1>10. CASE Goes(p, "register", "report") \/ Goes(p, "resolve", "score")
  BY <1>10
<1> QED  BY <1>2, <1>3, <1>4, <1>5, <1>6, <1>7, <1>8, <1>9, <1>10 DEF Onward

LEMMA StepIsCloser ==
    ASSUME Memory, Candidates, NEW p \in Pipelines, Acts(p), phase[p] \notin Ended
    PROVE  ChainLeft(p) \in Nat /\ ChainLeft(p)' \in Nat /\ ChainLeft(p)' < ChainLeft(p)
<1> DEFINE K == LongestCommand
           rest == Len(Commands[p]) - step[p]
<1>0. TypeOK /\ CandidatesOf(p)  BY DEF Memory, Candidates
<1>1. CommandLeft(p) \in Nat /\ CommandLeft(p) > 0 /\ K \in Nat
  BY <1>0, CommandLeftBounds
<1>2. NumSpecs \in Nat  BY RetrainingAssumption
<1>3. rest \in Nat /\ step[p] \in Nat /\ Len(Commands[p]) \in Nat
  <2>1. step[p] \in Nat /\ step[p] <= Len(Commands[p])  BY <1>0 DEF TypeOK
  <2> QED  BY <2>1, Chains
<1>4. ChainLeft(p) = rest * K + CommandLeft(p) /\ rest * K \in Nat
  BY <1>1, <1>3, LongerByOne DEF ChainLeft
<1>5. CASE Over(p)
  <2>1. ChainLeft(p)' = 0  BY <1>5 DEF Over, ChainLeft
  <2> QED  BY <1>1, <1>4, <2>1
<1>6. CASE Moved(p) /\ Emptied(p)
  <2> DEFINE less == Len(Commands[p]) - (step[p] + 1)
  <2>1. less \in Nat /\ rest = less + 1  BY <1>3, <1>6 DEF Moved
  <2>2. phase'[p] \notin Ended /\ step'[p] = step[p] + 1
    BY <1>6 DEF Moved, FirstPhase, Ended
  <2>3. ChainLeft(p)' = less * K + CommandLeft(p)'
    BY <2>2 DEF ChainLeft, LongestCommand
  <2>4. CommandLeft(p)' \in Nat /\ CommandLeft(p)' < K
    <3>1. phase'[p] \in {"load", "read"} /\ file'[p] = 1
      BY <1>6 DEF Moved, Emptied, FirstPhase
    <3> QED  BY <1>2, <3>1 DEF CommandLeft, LongestCommand
  <2> HIDE DEF less, K, rest
  <2>5. less * K \in Nat /\ rest * K = less * K + K
    BY <1>1, <2>1, LongerByOne
  <2> QED  BY <1>1, <1>4, <2>3, <2>4, <2>5
<1>7. CASE Onward(p)
  <2>1. /\ CommandLeft(p)' \in Nat /\ CommandLeft(p)' < CommandLeft(p)
        /\ phase'[p] \notin Ended /\ step'[p] = step[p]
    BY <1>0, <1>7, OnwardIsCloser
  <2>2. ChainLeft(p)' = rest * K + CommandLeft(p)'
    BY <2>1 DEF ChainLeft, LongestCommand
  <2> HIDE DEF K, rest
  <2> QED  BY <1>1, <1>4, <2>1, <2>2
<1> QED  BY <1>5, <1>6, <1>7, OwnSteps DEF Begun, Ends

LEMMA OthersLeaveItAsFar ==
    ASSUME NEW p \in Pipelines, phase'[p] = phase[p], step'[p] = step[p], file'[p] = file[p],
           runs'[p] = runs[p]
    PROVE  ChainLeft(p)' = ChainLeft(p)
<1>1. CommandLeft(p)' = CommandLeft(p)  BY DEF CommandLeft
<1> QED  BY <1>1 DEF ChainLeft, LongestCommand

\* However commands overlap, no chain of them goes round in circles: ChainsEnd needs the
\* fairness of its steps and nothing else.
THEOREM ChainsGetCloser == Spec => ChainGetsCloser
<1>1. ASSUME Memory, Candidates, [Next]_vars, NEW p \in Pipelines, phase[p] \notin Ended
      PROVE  /\ ChainLeft(p)' <= ChainLeft(p)
             /\ Step(p) \/ Abort(p) => ChainLeft(p)' < ChainLeft(p)
  <2>1. CASE Acts(p)
    <3>1. ChainLeft(p) \in Nat /\ ChainLeft(p)' \in Nat /\ ChainLeft(p)' < ChainLeft(p)
      BY <1>1, <2>1, StepIsCloser
    <3> QED  BY <3>1
  <2>2. CASE ~Acts(p)
    <3>1. UNCHANGED <<phase[p], step[p], file[p], runs[p]>>
      <4>1. ASSUME NEW q \in Pipelines, Acts(q) PROVE UNCHANGED <<phase[p], step[p], file[p], runs[p]>>
        <5>1. Untouched(p)  BY <1>1, <2>2, <4>1, OthersUntouched DEF Memory
        <5> QED  BY <5>1 DEF Untouched
      <4>2. CASE Bystander  BY <1>1, <4>2, BystanderOnTrack DEF memory
      <4> QED  BY <1>1, <4>1, <4>2, Steps
    <3>2. ChainLeft(p)' = ChainLeft(p)  BY <3>1, OthersLeaveItAsFar
    <3>3. ChainLeft(p) \in Nat
      <4>1. TypeOK /\ CandidatesOf(p)  BY <1>1 DEF Memory, Candidates
      <4>2. CommandLeft(p) \in Nat /\ LongestCommand \in Nat  BY <1>1, <4>1, CommandLeftBounds
      <4>3. Len(Commands[p]) - step[p] \in Nat
        <5>1. step[p] \in Nat /\ step[p] <= Len(Commands[p])  BY <4>1 DEF TypeOK
        <5> QED  BY <5>1, Chains
      <4>4. (Len(Commands[p]) - step[p]) * LongestCommand \in Nat
        BY <4>2, <4>3, LongerByOne
      <4> QED  BY <1>1, <4>2, <4>4 DEF ChainLeft
    <3> QED  BY <2>2, <3>2, <3>3 DEF Acts
  <2> QED  BY <2>1, <2>2
<1>2. Memory /\ Candidates /\ [Next]_vars
        => [\A p \in Pipelines : phase[p] \notin Ended =>
               /\ ChainLeft(p)' <= ChainLeft(p)
               /\ Step(p) \/ Abort(p) => ChainLeft(p)' < ChainLeft(p)]_vars
  BY <1>1
<1> QED  BY <1>2, MemoryOnTrack, CandidatesAreCounted, PTL DEF Spec, ChainGetsCloser

=============================================================================
