---------------------------- MODULE MCRetraining ----------------------------
\* The weekly and the daily DAG over one directory, and a Job in its own pod.
EXTENDS Retraining

MCRow == 1..6
MCFraud == {1, 2, 3}
MCTypeOf == [r \in MCRow |-> IF r <= 3 THEN "TRANSFER" ELSE "PAYMENT"]
Both == {1, 2, 3, 4}
TransfersOnly == {1, 2, 3}
NoFraud == {4, 5, 6}
MCCsv == {Both, TransfersOnly, NoFraud}

\* Three orders of dealing; each seed deals differently, and so does each CSV.
Deal(a, b, c) ==
    [part \in Part |-> IF part = "train" THEN a ELSE IF part = "validation" THEN b ELSE c]
MCSplitWith ==
    [x \in MCCsv \X Seed |->
        CASE x[1] = Both -> IF x[2] = 42 THEN Deal({1, 4}, {2}, {3}) ELSE Deal({3, 4}, {1}, {2})
          [] x[1] = TransfersOnly -> IF x[2] = 42 THEN Deal({3}, {1}, {2}) ELSE Deal({1}, {2}, {3})
          [] OTHER -> IF x[2] = 42 THEN Deal({4}, {5}, {6}) ELSE Deal({6}, {4}, {5})]

MCCommands ==
    [p \in Pipelines |->
        CASE p = "weekly" -> <<"preprocess", "train", "evaluate">>
          [] p = "daily" -> <<"preprocess">>
          [] p = "job" -> <<"preprocess", "train">>]
MCDirOf == [p \in Pipelines |-> IF p = "job" THEN "/tmp/processed" ELSE "/app/data/processed"]
MCRetries == [p \in Pipelines |-> IF p = "job" THEN 1 ELSE 0]
MCMaxAttempts == [p \in Pipelines |-> 1]
=============================================================================
