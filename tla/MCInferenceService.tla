------------------------- MODULE MCInferenceService -------------------------
(* Replicas and clients are interchangeable, and so are the column lists. *)
EXTENDS InferenceService, TLC

MCSymmetry == Permutations(Replicas) \cup Permutations(Clients) \cup Permutations(Columns)

=============================================================================
