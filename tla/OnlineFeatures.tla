--------------------------- MODULE OnlineFeatures ---------------------------
(***************************************************************************)
(* What the feature platform promises to whoever reads it, without its     *)
(* topic, its worker, its batch jobs or its timestamps: a table that maps  *)
(* an entity key to the features of SOME ingested transaction with that    *)
(* key, or to nothing, and that after a crash returns to a state it saved. *)
(***************************************************************************)
EXTENDS Transactions

CONSTANTS
    Historical,     \* the transactions of the raw dataset, known from the start
    Missing         \* what a key without features maps to

VARIABLES
    ingested,       \* transactions that entered the platform
    served,         \* the features a lookup of each key returns
    saved           \* the table a crash returns to

Init ==
    /\ ingested = Historical
    /\ served = [k \in Key |-> Missing]
    /\ saved = served

\* A transaction enters the platform.
Ingest(t) ==
    /\ ingested' = ingested \cup {t}
    /\ UNCHANGED <<served, saved>>

\* The features of an ingested transaction become readable under its key.
Publish(t) ==
    /\ t \in ingested
    /\ served' = [served EXCEPT ![t.key] = FeatureOf[t]]
    /\ UNCHANGED <<ingested, saved>>

Save ==
    /\ saved' = served
    /\ UNCHANGED <<ingested, served>>

Recover ==
    /\ served' = saved
    /\ UNCHANGED <<ingested, saved>>

Next ==
    \/ \E t \in Transaction : Ingest(t) \/ Publish(t)
    \/ Save
    \/ Recover

Spec == Init /\ [][Next]_<<ingested, served, saved>>

=============================================================================
