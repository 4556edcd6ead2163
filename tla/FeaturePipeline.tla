--------------------------- MODULE FeaturePipeline ---------------------------
(***************************************************************************)
(* What FeaturePipeline.transform does to one row: six transformers, each  *)
(* assigning columns to the row, and the registry its result is checked    *)
(* against.  Every transformer works on each row of a frame by itself.     *)
(* Amounts are whole numbers, and a quotient is its two parts.             *)
(***************************************************************************)
EXTENDS Integers

CONSTANT Merchants      \* the account names that start with "M"

RawColumns == {"step", "type", "amount", "nameOrig", "oldbalanceOrg", "newbalanceOrig",
               "nameDest", "oldbalanceDest", "newbalanceDest"}

\* FEATURE_REGISTRY: each feature and the raw columns it says it comes from.
SourceColumns ==
    [orig_balance_error |-> {"oldbalanceOrg", "amount", "newbalanceOrig"},
     dest_balance_error |-> {"oldbalanceDest", "amount", "newbalanceDest"},
     orig_balance_delta |-> {"newbalanceOrig", "oldbalanceOrg"},
     dest_balance_delta |-> {"newbalanceDest", "oldbalanceDest"},
     is_orig_balance_depleted |-> {"oldbalanceOrg", "newbalanceOrig"},
     is_dest_balance_untouched |-> {"oldbalanceDest", "newbalanceDest", "amount"},
     amount_to_orig_balance_ratio |-> {"amount", "oldbalanceOrg"},
     hour_of_day |-> {"step"},
     is_dest_merchant |-> {"nameDest"}]

FeatureNames == DOMAIN SourceColumns

Flag(condition) == IF condition THEN 1 ELSE 0

\* DataFrame.assign: columns are added, or replaced.
Assign(row, columns) ==
    [c \in DOMAIN row \union DOMAIN columns |->
        IF c \in DOMAIN columns THEN columns[c] ELSE row[c]]

BalanceErrors(row) ==
    [orig_balance_error |-> row["oldbalanceOrg"] - row["amount"] - row["newbalanceOrig"],
     dest_balance_error |-> row["oldbalanceDest"] + row["amount"] - row["newbalanceDest"]]

BalanceDeltas(row) ==
    [orig_balance_delta |-> row["newbalanceOrig"] - row["oldbalanceOrg"],
     dest_balance_delta |-> row["newbalanceDest"] - row["oldbalanceDest"]]

BalanceFlags(row) ==
    [is_orig_balance_depleted |->
        Flag(row["oldbalanceOrg"] > 0 /\ row["newbalanceOrig"] = 0),
     is_dest_balance_untouched |->
        Flag(row["oldbalanceDest"] = 0 /\ row["newbalanceDest"] = 0 /\ row["amount"] > 0)]

AmountRatio(row) ==
    [amount_to_orig_balance_ratio |-> <<row["amount"], row["oldbalanceOrg"] + 1>>]

Temporal(row) == [hour_of_day |-> row["step"] % 24]

MerchantFlag(row) == [is_dest_merchant |-> Flag(row["nameDest"] \in Merchants)]

Transformers == {"balance_error", "balance_delta", "balance_flag", "amount_ratio",
                 "temporal", "merchant_flag"}

\* The columns a transformer computes.
Computed(t, row) ==
    CASE t = "balance_error" -> BalanceErrors(row)
      [] t = "balance_delta" -> BalanceDeltas(row)
      [] t = "balance_flag"  -> BalanceFlags(row)
      [] t = "amount_ratio"  -> AmountRatio(row)
      [] t = "temporal"      -> Temporal(row)
      [] t = "merchant_flag" -> MerchantFlag(row)

Apply(t, row) == Assign(row, Computed(t, row))

\* The loop of transform over DEFAULT_TRANSFORMERS.
Transformed(row) ==
    Apply("merchant_flag", Apply("temporal", Apply("amount_ratio",
        Apply("balance_flag", Apply("balance_delta", Apply("balance_error", row))))))

\* validate_features_present: FeatureRegistryError unless the result has them all.
HasFeatures(row) == FeatureNames \subseteq DOMAIN row

\* What is pushed to the online store and written to the parquet file.
Features(row) ==
    [f \in FeatureNames |-> Transformed(row)[f]]

\* The six fields compute_entity_id puts in the entity key.
KeyColumns == {"step", "type", "nameOrig", "nameDest", "amount", "oldbalanceOrg"}
=============================================================================
