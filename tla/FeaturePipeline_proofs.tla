----------------------- MODULE FeaturePipeline_proofs -----------------------
(***************************************************************************)
(* Proofs about the feature transformers, for rows with any values.        *)
(***************************************************************************)
EXTENDS FeaturePipeline, TLAPS

\* A DataFrame's row: any columns, the raw ones among them.
IsRow(row) == row = [c \in DOMAIN row |-> row[c]] /\ RawColumns \subseteq DOMAIN row

SameRaw(row, other) == \A c \in RawColumns : row[c] = other[c]

Columns(t) ==
    CASE t = "balance_error" -> {"orig_balance_error", "dest_balance_error"}
      [] t = "balance_delta" -> {"orig_balance_delta", "dest_balance_delta"}
      [] t = "balance_flag"  -> {"is_orig_balance_depleted", "is_dest_balance_untouched"}
      [] t = "amount_ratio"  -> {"amount_to_orig_balance_ratio"}
      [] t = "temporal"      -> {"hour_of_day"}
      [] t = "merchant_flag" -> {"is_dest_merchant"}

LEMMA ComputedColumns ==
    ASSUME NEW t \in Transformers, NEW row PROVE DOMAIN Computed(t, row) = Columns(t)
<1>1. CASE t = "balance_error"
  BY <1>1 DEF Computed, Columns, BalanceErrors
<1>2. CASE t = "balance_delta"
  BY <1>2 DEF Computed, Columns, BalanceDeltas
<1>3. CASE t = "balance_flag"
  BY <1>3 DEF Computed, Columns, BalanceFlags
<1>4. CASE t = "amount_ratio"
  BY <1>4 DEF Computed, Columns, AmountRatio
<1>5. CASE t = "temporal"
  BY <1>5 DEF Computed, Columns, Temporal
<1>6. CASE t = "merchant_flag"
  BY <1>6 DEF Computed, Columns, MerchantFlag
<1> QED  BY <1>1, <1>2, <1>3, <1>4, <1>5, <1>6 DEF Transformers

\* A transformer reads raw columns only.
LEMMA ComputedFromRaw ==
    ASSUME NEW t \in Transformers, NEW row, NEW other, SameRaw(row, other)
    PROVE  Computed(t, row) = Computed(t, other)
<1>0. /\ row["step"] = other["step"] /\ row["amount"] = other["amount"]
      /\ row["oldbalanceOrg"] = other["oldbalanceOrg"]
      /\ row["newbalanceOrig"] = other["newbalanceOrig"]
      /\ row["nameDest"] = other["nameDest"]
      /\ row["oldbalanceDest"] = other["oldbalanceDest"]
      /\ row["newbalanceDest"] = other["newbalanceDest"]
  BY DEF SameRaw, RawColumns
<1>1. CASE t = "balance_error"
  BY <1>0, <1>1 DEF Computed, BalanceErrors
<1>2. CASE t = "balance_delta"
  BY <1>0, <1>2 DEF Computed, BalanceDeltas
<1>3. CASE t = "balance_flag"
  BY <1>0, <1>3 DEF Computed, BalanceFlags
<1>4. CASE t = "amount_ratio"
  BY <1>0, <1>4 DEF Computed, AmountRatio
<1>5. CASE t = "temporal"
  BY <1>0, <1>5 DEF Computed, Temporal
<1>6. CASE t = "merchant_flag"
  BY <1>0, <1>6 DEF Computed, MerchantFlag
<1> QED  BY <1>1, <1>2, <1>3, <1>4, <1>5, <1>6 DEF Transformers

\* No transformer replaces a raw column or another one's.
LEMMA ColumnsAreOwn ==
    /\ \A t \in Transformers : Columns(t) \cap RawColumns = {}
    /\ \A t, u \in Transformers : t # u => Columns(t) \cap Columns(u) = {}
  BY DEF Columns, RawColumns, Transformers

LEMMA Applied ==
    ASSUME NEW t \in Transformers, NEW row, IsRow(row)
    PROVE  /\ IsRow(Apply(t, row)) /\ SameRaw(Apply(t, row), row)
           /\ DOMAIN Apply(t, row) = DOMAIN row \union Columns(t)
           /\ \A c \in Columns(t) : Apply(t, row)[c] = Computed(t, row)[c]
           /\ \A c \in DOMAIN row \ Columns(t) : Apply(t, row)[c] = row[c]
<1> DEFINE columns == Computed(t, row)
           result == Assign(row, columns)
<1>1. Apply(t, row) = result
  BY DEF Apply
<1>2. result = [c \in DOMAIN row \union DOMAIN columns |->
                   IF c \in DOMAIN columns THEN columns[c] ELSE row[c]]
  BY DEF Assign
<1>3. DOMAIN columns = Columns(t)
  BY ComputedColumns
<1> HIDE DEF columns, result
<1>4. DOMAIN result = DOMAIN row \union Columns(t)
  BY <1>2, <1>3
<1>5. \A c \in Columns(t) : result[c] = columns[c]
  BY <1>2, <1>3
<1>6. \A c \in DOMAIN row \ Columns(t) : result[c] = row[c]
  BY <1>2, <1>3
<1>7. RawColumns \subseteq DOMAIN row \ Columns(t)
  BY ColumnsAreOwn DEF IsRow
<1>8. SameRaw(result, row)
  BY <1>6, <1>7 DEF SameRaw
<1>9. IsRow(result)
  BY <1>2, <1>4, <1>7 DEF IsRow
<1> QED  BY <1>1, <1>4, <1>5, <1>6, <1>8, <1>9 DEF columns

\* The order of DEFAULT_TRANSFORMERS does not matter, although transform hands each one
\* the frame that the last one returned.
THEOREM TransformersCommute ==
    ASSUME NEW t \in Transformers, NEW u \in Transformers, t # u, NEW row, IsRow(row)
    PROVE  Apply(t, Apply(u, row)) = Apply(u, Apply(t, row))
<1> DEFINE left == Apply(t, Apply(u, row))
           right == Apply(u, Apply(t, row))
<1>1. IsRow(Apply(u, row)) /\ IsRow(Apply(t, row))
  BY Applied
<1>2. IsRow(left) /\ IsRow(right)
  BY <1>1, Applied
<1>3. DOMAIN left = DOMAIN right
  <2>1. DOMAIN left = DOMAIN Apply(u, row) \union Columns(t)
    BY <1>1, Applied
  <2>2. DOMAIN right = DOMAIN Apply(t, row) \union Columns(u)
    BY <1>1, Applied
  <2>3. DOMAIN Apply(u, row) = DOMAIN row \union Columns(u)
    BY Applied
  <2>4. DOMAIN Apply(t, row) = DOMAIN row \union Columns(t)
    BY Applied
  <2> HIDE DEF left, right
  <2> QED  BY <2>1, <2>2, <2>3, <2>4
<1>7. /\ \A c \in Columns(t) : left[c] = Computed(t, Apply(u, row))[c]
      /\ \A c \in DOMAIN Apply(u, row) \ Columns(t) : left[c] = Apply(u, row)[c]
  BY <1>1, Applied, ZenonT(30)
<1>8. /\ \A c \in Columns(u) : right[c] = Computed(u, Apply(t, row))[c]
      /\ \A c \in DOMAIN Apply(t, row) \ Columns(u) : right[c] = Apply(t, row)[c]
  BY <1>1, Applied
<1>4. Columns(t) \cap Columns(u) = {}
  BY ColumnsAreOwn
<1>5. Computed(t, Apply(u, row)) = Computed(t, row) /\ Computed(u, Apply(t, row)) = Computed(u, row)
  BY Applied, ComputedFromRaw
<1>6. \A c \in DOMAIN left : left[c] = right[c]
  <2> SUFFICES ASSUME NEW c \in DOMAIN left PROVE left[c] = right[c]
    OBVIOUS
  <2>0. DOMAIN left = (DOMAIN row \union Columns(u)) \union Columns(t)
    BY <1>1, Applied
  <2>1. CASE c \in Columns(t)
    <3>1. left[c] = Computed(t, Apply(u, row))[c]
      BY <1>7, <2>1
    <3>2. c \in DOMAIN Apply(t, row) \ Columns(u)
      BY <1>4, <2>1, Applied
    <3>3. right[c] = Apply(t, row)[c]
      BY <1>8, <3>2
    <3>4. Apply(t, row)[c] = Computed(t, row)[c]
      BY <2>1, Applied
    <3> QED  BY <3>1, <3>3, <3>4, <1>5
  <2>2. CASE c \in Columns(u)
    <3>1. right[c] = Computed(u, Apply(t, row))[c]
      BY <1>8, <2>2
    <3>2. c \in DOMAIN Apply(u, row) \ Columns(t)
      BY <1>4, <2>2, Applied
    <3>3. left[c] = Apply(u, row)[c]
      BY <1>7, <3>2
    <3>4. Apply(u, row)[c] = Computed(u, row)[c]
      BY <2>2, Applied
    <3> QED  BY <3>1, <3>3, <3>4, <1>5
  <2>3. CASE c \notin Columns(t) /\ c \notin Columns(u)
    <3>1. c \in DOMAIN row \ Columns(t) /\ c \in DOMAIN row \ Columns(u)
      BY <2>0, <2>3
    <3>2. c \in DOMAIN Apply(u, row) \ Columns(t) /\ c \in DOMAIN Apply(t, row) \ Columns(u)
      BY <2>3, <3>1, Applied, ZenonT(30)
    <3>3. Apply(u, row)[c] = row[c]
      BY <3>1, Applied, ZenonT(30)
    <3>4. Apply(t, row)[c] = row[c]
      <4>1. \A d \in DOMAIN row \ Columns(t) : Apply(t, row)[d] = row[d]
        BY Applied, ZenonT(30)
      <4> QED  BY <3>1, <4>1
    <3> QED  BY <1>7, <1>8, <3>2, <3>3, <3>4
  <2> QED  BY <2>1, <2>2, <2>3
<1> HIDE DEF left, right
<1>9. left = right
  BY <1>2, <1>3, <1>6 DEF IsRow
<1> QED  BY <1>9 DEF left, right
-----------------------------------------------------------------------------
(* The result of transform: what each transformer computed from the row.   *)

LEMMA ApplyKeeps ==
    ASSUME NEW t \in Transformers, NEW u \in Transformers, t # u,
           NEW row, IsRow(row), NEW result, IsRow(result), SameRaw(result, row),
           Columns(u) \subseteq DOMAIN result,
           \A c \in Columns(u) : result[c] = Computed(u, row)[c]
    PROVE  /\ Columns(u) \subseteq DOMAIN Apply(t, result)
           /\ \A c \in Columns(u) : Apply(t, result)[c] = Computed(u, row)[c]
<1>1. Columns(u) \subseteq DOMAIN result \ Columns(t)
  BY ColumnsAreOwn
<1>2. DOMAIN Apply(t, result) = DOMAIN result \union Columns(t)
  BY Applied
<1>3. \A c \in DOMAIN result \ Columns(t) : Apply(t, result)[c] = result[c]
  BY Applied, ZenonT(30)
<1> QED  BY <1>1, <1>2, <1>3

LEMMA ApplyAdds ==
    ASSUME NEW t \in Transformers, NEW row, IsRow(row),
           NEW result, IsRow(result), SameRaw(result, row)
    PROVE  /\ IsRow(Apply(t, result)) /\ SameRaw(Apply(t, result), row)
           /\ Columns(t) \subseteq DOMAIN Apply(t, result)
           /\ \A c \in Columns(t) : Apply(t, result)[c] = Computed(t, row)[c]
<1>1. IsRow(Apply(t, result)) /\ SameRaw(Apply(t, result), result)
  BY Applied
<1>2. SameRaw(Apply(t, result), row)
  BY <1>1 DEF SameRaw
<1>3. Computed(t, result) = Computed(t, row)
  BY ComputedFromRaw
<1>4. DOMAIN Apply(t, result) = DOMAIN result \union Columns(t)
  BY Applied
<1>5. \A c \in Columns(t) : Apply(t, result)[c] = Computed(t, result)[c]
  BY Applied
<1> QED  BY <1>1, <1>2, <1>3, <1>4, <1>5

LEMMA TransformedColumns ==
    ASSUME NEW row, IsRow(row)
    PROVE  \A t \in Transformers :
               /\ Columns(t) \subseteq DOMAIN Transformed(row)
               /\ \A c \in Columns(t) : Transformed(row)[c] = Computed(t, row)[c]
<1> DEFINE Has(t, result) ==
               /\ Columns(t) \subseteq DOMAIN result
               /\ \A c \in Columns(t) : result[c] = Computed(t, row)[c]
           r1 == Apply("balance_error", row)
           r2 == Apply("balance_delta", r1)
           r3 == Apply("balance_flag", r2)
           r4 == Apply("amount_ratio", r3)
           r5 == Apply("temporal", r4)
           r6 == Apply("merchant_flag", r5)
<1>0. SameRaw(row, row)
  BY DEF SameRaw
<1>t. /\ "balance_error" \in Transformers /\ "balance_delta" \in Transformers
      /\ "balance_flag" \in Transformers /\ "amount_ratio" \in Transformers
      /\ "temporal" \in Transformers /\ "merchant_flag" \in Transformers
  BY DEF Transformers
<1>1. IsRow(r1) /\ SameRaw(r1, row) /\ Has("balance_error", r1)
  BY <1>0, <1>t, ApplyAdds
<1> HIDE DEF r1
<1>2. /\ IsRow(r2) /\ SameRaw(r2, row)
      /\ Has("balance_delta", r2) /\ Has("balance_error", r2)
  <2>1. IsRow(r2) /\ SameRaw(r2, row) /\ Has("balance_delta", r2)
    BY <1>1, <1>t, ApplyAdds
  <2>2. Has("balance_error", r2)
    BY <1>1, <1>t, ApplyKeeps
  <2> QED  BY <2>1, <2>2
<1> HIDE DEF r2
<1>3. /\ IsRow(r3) /\ SameRaw(r3, row)
      /\ Has("balance_flag", r3) /\ Has("balance_delta", r3) /\ Has("balance_error", r3)
  <2>1. IsRow(r3) /\ SameRaw(r3, row) /\ Has("balance_flag", r3)
    BY <1>2, <1>t, ApplyAdds
  <2>2. Has("balance_delta", r3)
    BY <1>2, <1>t, ApplyKeeps
  <2>3. Has("balance_error", r3)
    BY <1>2, <1>t, ApplyKeeps
  <2> QED  BY <2>1, <2>2, <2>3
<1> HIDE DEF r3
<1>4. /\ IsRow(r4) /\ SameRaw(r4, row) /\ Has("amount_ratio", r4)
      /\ Has("balance_flag", r4) /\ Has("balance_delta", r4) /\ Has("balance_error", r4)
  <2>1. IsRow(r4) /\ SameRaw(r4, row) /\ Has("amount_ratio", r4)
    BY <1>3, <1>t, ApplyAdds
  <2>2. Has("balance_flag", r4)
    BY <1>3, <1>t, ApplyKeeps
  <2>3. Has("balance_delta", r4)
    BY <1>3, <1>t, ApplyKeeps
  <2>4. Has("balance_error", r4)
    BY <1>3, <1>t, ApplyKeeps
  <2> QED  BY <2>1, <2>2, <2>3, <2>4
<1> HIDE DEF r4
<1>5. /\ IsRow(r5) /\ SameRaw(r5, row) /\ Has("temporal", r5) /\ Has("amount_ratio", r5)
      /\ Has("balance_flag", r5) /\ Has("balance_delta", r5) /\ Has("balance_error", r5)
  <2>1. IsRow(r5) /\ SameRaw(r5, row) /\ Has("temporal", r5)
    BY <1>4, <1>t, ApplyAdds
  <2>2. Has("amount_ratio", r5)
    BY <1>4, <1>t, ApplyKeeps
  <2>3. Has("balance_flag", r5)
    BY <1>4, <1>t, ApplyKeeps
  <2>4. Has("balance_delta", r5)
    BY <1>4, <1>t, ApplyKeeps
  <2>5. Has("balance_error", r5)
    BY <1>4, <1>t, ApplyKeeps
  <2> QED  BY <2>1, <2>2, <2>3, <2>4, <2>5
<1> HIDE DEF r5
<1>6. /\ Has("merchant_flag", r6) /\ Has("temporal", r6) /\ Has("amount_ratio", r6)
      /\ Has("balance_flag", r6) /\ Has("balance_delta", r6) /\ Has("balance_error", r6)
  <2>1. Has("merchant_flag", r6)
    BY <1>5, <1>t, ApplyAdds
  <2>2. Has("temporal", r6)
    BY <1>5, <1>t, ApplyKeeps
  <2>3. Has("amount_ratio", r6)
    BY <1>5, <1>t, ApplyKeeps
  <2>4. Has("balance_flag", r6)
    BY <1>5, <1>t, ApplyKeeps
  <2>5. Has("balance_delta", r6)
    BY <1>5, <1>t, ApplyKeeps
  <2>6. Has("balance_error", r6)
    BY <1>5, <1>t, ApplyKeeps
  <2> QED  BY <2>1, <2>2, <2>3, <2>4, <2>5, <2>6
<1>7. Transformed(row) = r6
  BY DEF Transformed, r1, r2, r3, r4, r5
<1> HIDE DEF r6
<1> QED  BY <1>6, <1>7 DEF Transformers

\* Which transformer a feature is from.
From(f) == CHOOSE t \in Transformers : f \in Columns(t)

LEMMA FromSomeTransformer ==
    ASSUME NEW f \in FeatureNames PROVE From(f) \in Transformers /\ f \in Columns(From(f))
<1>1. FeatureNames = {"orig_balance_error", "dest_balance_error", "orig_balance_delta",
                      "dest_balance_delta", "is_orig_balance_depleted",
                      "is_dest_balance_untouched", "amount_to_orig_balance_ratio",
                      "hour_of_day", "is_dest_merchant"}
  BY DEF FeatureNames, SourceColumns
<1>2. \E t \in Transformers : f \in Columns(t)
  BY <1>1 DEF Transformers, Columns
<1> QED  BY <1>2 DEF From

LEMMA FeatureIsComputed ==
    ASSUME NEW row, IsRow(row), NEW f \in FeatureNames
    PROVE  f \in DOMAIN Transformed(row) /\ Features(row)[f] = Computed(From(f), row)[f]
  BY FromSomeTransformer, TransformedColumns DEF Features

\* transform gives every registered feature, so validate_features_present never raises
\* for a frame with the raw columns.
THEOREM RegistryIsSatisfied == ASSUME NEW row, IsRow(row) PROVE HasFeatures(Transformed(row))
  BY FeatureIsComputed DEF HasFeatures

\* The registry tells the truth: a feature depends on no column that is not among its
\* source_columns.  feature_version hashes them.
THEOREM FeaturesComeFromSources ==
    ASSUME NEW row, IsRow(row), NEW other, IsRow(other), NEW f \in FeatureNames,
           \A c \in SourceColumns[f] : row[c] = other[c]
    PROVE  Features(row)[f] = Features(other)[f]
<1>0. \A t \in Transformers : f \in Columns(t) => From(f) = t
  BY FromSomeTransformer, ColumnsAreOwn
<1>a. /\ Features(row)[f] = Computed(From(f), row)[f]
      /\ Features(other)[f] = Computed(From(f), other)[f]
  BY FeatureIsComputed
<1> SUFFICES Computed(From(f), row)[f] = Computed(From(f), other)[f]
  BY <1>a
<1>1. CASE f \in {"orig_balance_error", "dest_balance_error"}
  <2>1. From(f) = "balance_error"
    BY <1>0, <1>1 DEF Transformers, Columns
  <2> QED  BY <1>1, <2>1 DEF Computed, BalanceErrors, SourceColumns
<1>2. CASE f \in {"orig_balance_delta", "dest_balance_delta"}
  <2>1. From(f) = "balance_delta"
    BY <1>0, <1>2 DEF Transformers, Columns
  <2> QED  BY <1>2, <2>1 DEF Computed, BalanceDeltas, SourceColumns
<1>3. CASE f \in {"is_orig_balance_depleted", "is_dest_balance_untouched"}
  <2>1. From(f) = "balance_flag"
    BY <1>0, <1>3 DEF Transformers, Columns
  <2> QED  BY <1>3, <2>1 DEF Computed, BalanceFlags, SourceColumns
<1>4. CASE f = "amount_to_orig_balance_ratio"
  <2>1. From(f) = "amount_ratio"
    BY <1>0, <1>4 DEF Transformers, Columns
  <2> QED  BY <1>4, <2>1 DEF Computed, AmountRatio, SourceColumns
<1>5. CASE f = "hour_of_day"
  <2>1. From(f) = "temporal"
    BY <1>0, <1>5 DEF Transformers, Columns
  <2> QED  BY <1>5, <2>1 DEF Computed, Temporal, SourceColumns
<1>6. CASE f = "is_dest_merchant"
  <2>1. From(f) = "merchant_flag"
    BY <1>0, <1>6 DEF Transformers, Columns
  <2> QED  BY <1>6, <2>1 DEF Computed, MerchantFlag, SourceColumns
<1> QED  BY <1>1, <1>2, <1>3, <1>4, <1>5, <1>6 DEF FeatureNames, SourceColumns
-----------------------------------------------------------------------------
(* The entity key and the features.                                        *)

IsNumericRow(row) ==
    /\ IsRow(row)
    /\ row["amount"] \in Int /\ row["step"] \in Int
    /\ row["oldbalanceOrg"] \in Int /\ row["newbalanceOrig"] \in Int
    /\ row["oldbalanceDest"] \in Int /\ row["newbalanceDest"] \in Int

SameKey(row, other) == \A c \in KeyColumns : row[c] = other[c]

Untouched(row) == BalanceFlags(row).is_dest_balance_untouched

LEMMA ValuesOfFeatures ==
    ASSUME NEW row, IsRow(row)
    PROVE  /\ Features(row)["orig_balance_error"] = BalanceErrors(row).orig_balance_error
           /\ Features(row)["dest_balance_error"] = BalanceErrors(row).dest_balance_error
           /\ Features(row)["is_dest_balance_untouched"] = Untouched(row)
<1>1. /\ "balance_error" \in Transformers /\ "balance_flag" \in Transformers
      /\ {"orig_balance_error", "dest_balance_error", "is_dest_balance_untouched"}
             \subseteq FeatureNames
  BY DEF Transformers, FeatureNames, SourceColumns
<1>2. /\ "orig_balance_error" \in Columns("balance_error")
      /\ "dest_balance_error" \in Columns("balance_error")
      /\ "is_dest_balance_untouched" \in Columns("balance_flag")
  BY DEF Columns
<1>3. \A t \in Transformers : \A c \in Columns(t) :
          Transformed(row)[c] = Computed(t, row)[c]
  BY TransformedColumns
<1>4. Computed("balance_error", row) = BalanceErrors(row)
  BY DEF Computed
<1>5. Computed("balance_flag", row) = BalanceFlags(row)
  BY DEF Computed
<1> QED  BY <1>1, <1>2, <1>3, <1>4, <1>5 DEF Features, Untouched

\* Exactly when two transactions that share an entity key have the same features, and a
\* lookup cannot tell which of them was pushed: the sender's new balance, the change of
\* the recipient's, and the untouched flag agree.  Nothing else of the three balances
\* outside the key can be seen.
THEOREM CollisionsAreInvisibleExactly ==
    ASSUME NEW row, IsNumericRow(row), NEW other, IsNumericRow(other), SameKey(row, other)
    PROVE  Features(row) = Features(other) <=>
               /\ row["newbalanceOrig"] = other["newbalanceOrig"]
               /\ row["newbalanceDest"] - row["oldbalanceDest"]
                     = other["newbalanceDest"] - other["oldbalanceDest"]
               /\ Untouched(row) = Untouched(other)
<1>1. /\ row["step"] = other["step"] /\ row["amount"] = other["amount"]
      /\ row["oldbalanceOrg"] = other["oldbalanceOrg"]
      /\ row["nameDest"] = other["nameDest"]
  BY DEF SameKey, KeyColumns
<1>2. IsRow(row) /\ IsRow(other)
  BY DEF IsNumericRow
<1>3. ASSUME Features(row) = Features(other)
      PROVE  /\ row["newbalanceOrig"] = other["newbalanceOrig"]
             /\ row["newbalanceDest"] - row["oldbalanceDest"]
                   = other["newbalanceDest"] - other["oldbalanceDest"]
             /\ Untouched(row) = Untouched(other)
  <2>1. /\ BalanceErrors(row).orig_balance_error = BalanceErrors(other).orig_balance_error
        /\ BalanceErrors(row).dest_balance_error = BalanceErrors(other).dest_balance_error
        /\ Untouched(row) = Untouched(other)
    BY <1>2, <1>3, ValuesOfFeatures
  <2>2. row["oldbalanceOrg"] - row["amount"] - row["newbalanceOrig"]
            = other["oldbalanceOrg"] - other["amount"] - other["newbalanceOrig"]
    BY <2>1 DEF BalanceErrors
  <2>3. row["oldbalanceDest"] + row["amount"] - row["newbalanceDest"]
            = other["oldbalanceDest"] + other["amount"] - other["newbalanceDest"]
    BY <2>1 DEF BalanceErrors
  <2> QED  BY <1>1, <2>1, <2>2, <2>3 DEF IsNumericRow
<1>4. ASSUME row["newbalanceOrig"] = other["newbalanceOrig"],
             row["newbalanceDest"] - row["oldbalanceDest"]
                 = other["newbalanceDest"] - other["oldbalanceDest"],
             Untouched(row) = Untouched(other)
      PROVE  Features(row) = Features(other)
  <2>1. BalanceErrors(row) = BalanceErrors(other)
    <3>1. row["oldbalanceDest"] + row["amount"] - row["newbalanceDest"]
              = other["oldbalanceDest"] + other["amount"] - other["newbalanceDest"]
      BY <1>1, <1>4 DEF IsNumericRow
    <3> QED  BY <1>1, <1>4, <3>1 DEF BalanceErrors
  <2>2. BalanceDeltas(row) = BalanceDeltas(other)
    BY <1>1, <1>4 DEF BalanceDeltas
  <2>3. BalanceFlags(row) = BalanceFlags(other)
    BY <1>1, <1>4 DEF BalanceFlags, Untouched
  <2>4. AmountRatio(row) = AmountRatio(other)
    BY <1>1 DEF AmountRatio
  <2>5. Temporal(row) = Temporal(other)
    BY <1>1 DEF Temporal
  <2>6. MerchantFlag(row) = MerchantFlag(other)
    BY <1>1 DEF MerchantFlag
  <2>7. \A t \in Transformers : Computed(t, row) = Computed(t, other)
    BY <2>1, <2>2, <2>3, <2>4, <2>5, <2>6 DEF Computed, Transformers
  <2>8. \A f \in FeatureNames : Features(row)[f] = Features(other)[f]
    BY <1>2, <2>7, FeatureIsComputed, FromSomeTransformer
  <2> QED  BY <2>8 DEF Features
<1> QED  BY <1>3, <1>4
=============================================================================
