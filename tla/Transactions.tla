---------------------------- MODULE Transactions ----------------------------
(***************************************************************************)
(* The vocabulary every component shares.                                  *)
(*                                                                         *)
(* A transaction has nine raw fields.  Six of them (step, type, nameOrig,  *)
(* nameDest, amount, oldbalanceOrg) are hashed into the Feast entity key;  *)
(* the other three (newbalanceOrig, oldbalanceDest, newbalanceDest) are    *)
(* not, although the engineered features are computed from all of them.    *)
(* So a transaction is a key part and a rest part.                         *)
(***************************************************************************)
EXTENDS Naturals

CONSTANTS
    Key,            \* values of the six fields the entity key is made of
    Rest,           \* values of the three balance fields it leaves out
    StepOf,         \* the simulated hour, one of the six fields
    FeatureVector,  \* values of the nine engineered features
    FeatureOf,      \* what FeaturePipeline computes, row by row, from one transaction
    Malformed,      \* a Kafka value that raises InvalidTransactionError
    Overflowing     \* Kafka values that raise something else: int() of an infinite step
                    \* raises OverflowError, which transaction_from_dict does not catch

Transaction == [key : Key, rest : Rest]

ASSUME VocabularyAssumption ==
    /\ StepOf \in [Key -> Nat]
    /\ FeatureOf \in [Transaction -> FeatureVector]
    /\ Malformed \notin Transaction \cup Overflowing
    /\ Overflowing \cap Transaction = {}

\* What deserialize_transaction makes of a Kafka value: a transaction, or one of two
\* kinds of exception.
Message == Transaction \cup {Malformed} \cup Overflowing

\* compute_entity_id: a digest of the six key fields and of nothing else.
ComputeEntityId(t) == t.key

\* FeaturePipeline.transform_one, and transform on each row of a batch: a pure
\* function of all nine fields.
TransformOne(t) == FeatureOf[t]

\* The transactions in use are told apart by their entity key, as far as their
\* features go.  The code does not enforce it; see ServedFeaturesAreOwn.
KeyIdentifiesFeatures ==
    \A t, u \in Transaction : t.key = u.key => FeatureOf[t] = FeatureOf[u]

=============================================================================
