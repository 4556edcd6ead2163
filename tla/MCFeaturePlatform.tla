-------------------------- MODULE MCFeaturePlatform -------------------------
(* Two keys an hour apart, and a dataset that holds both. *)
EXTENDS FeaturePlatform, FeaturePipeline, TLC

CONSTANTS k1, k2, r1, r2

MCStepOf == k1 :> 0 @@ k2 :> 1

\* Feature vectors that are all different, one of each transaction.
MCFeatureVector == Transaction
MCFeatureOf == [t \in Transaction |-> t]

\* ... and those the pipeline computes from two transfers an hour apart, where r2 is r1
\* with another balance of the recipient.
MCMerchants == {"M1"}
RowOf(t) ==
    [step |-> MCStepOf[t.key], type |-> "TRANSFER", amount |-> 5,
     nameOrig |-> "C1", nameDest |-> "C2", oldbalanceOrg |-> 5, newbalanceOrig |-> 0,
     oldbalanceDest |-> 0, newbalanceDest |-> IF t.rest = r1 THEN 5 ELSE 0]
PipelineFeatureOf == [t \in Transaction |-> Features(RowOf(t))]
PipelineFeatureVector == {PipelineFeatureOf[t] : t \in Transaction}

MCDataset == <<[key |-> k1, rest |-> r1], [key |-> k2, rest |-> r1]>>

\* The materialize processes are interchangeable.
MCSymmetry == Permutations(Jobs)

=============================================================================
