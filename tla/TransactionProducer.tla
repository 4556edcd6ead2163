------------------------- MODULE TransactionProducer ------------------------
(***************************************************************************)
(* fraud-detection producer: rows of the raw CSV, through librdkafka's     *)
(* queue, onto the `transactions` topic.  librdkafka is modelled from how  *)
(* produce_transactions uses it: no idempotence, no waiting for acks.      *)
(***************************************************************************)
EXTENDS Naturals, Sequences, FiniteSets

CONSTANTS
    NumRows,        \* rows of the CSV after head(limit)
    InvalidRows,    \* rows transaction_from_dict rejects
    QueueMax,       \* messages librdkafka's queue holds
    MaxRetries      \* bound: acknowledgements that get lost

Rows == 1 .. NumRows

ASSUME ProducerAssumption ==
    /\ NumRows \in Nat /\ InvalidRows \subseteq Rows
    /\ QueueMax \in Nat \ {0} /\ MaxRetries \in Nat

VARIABLES
    phase,          \* of produce_transactions
    row,            \* rows the loop has been through
    sent,           \* the number it will return
    skipped,
    outbox,         \* rows in librdkafka's queue, sent or not, without an ack
    topic,          \* the log
    reported,       \* rows _delivery_callback logged an error for
    retries

vars == <<phase, row, sent, skipped, outbox, topic, reported, retries>>

TypeOK ==
    /\ phase \in {"running", "flushing", "returned", "died"}
    /\ row \in 0 .. NumRows
    /\ sent \in 0 .. NumRows
    /\ skipped \in 0 .. NumRows
    /\ outbox \in SUBSET Rows /\ Cardinality(outbox) <= QueueMax
    /\ topic \in Seq(Rows)
    /\ reported \in SUBSET Rows
    /\ retries \in 0 .. MaxRetries

Init ==
    /\ phase = "running"
    /\ row = 0 /\ sent = 0 /\ skipped = 0
    /\ outbox = {}
    /\ topic = <<>>
    /\ reported = {}
    /\ retries = 0

NextRow == row + 1

\* transaction_from_dict raises InvalidTransactionError.
SkipInvalidRow ==
    /\ phase = "running" /\ row < NumRows /\ NextRow \in InvalidRows
    /\ row' = NextRow
    /\ skipped' = skipped + 1
    /\ UNCHANGED <<phase, sent, outbox, topic, reported, retries>>

ValidRow == phase = "running" /\ row < NumRows /\ NextRow \notin InvalidRows

\* Mutant: a full queue drops its oldest message to make room.
ProduceOverwriting ==
    /\ ValidRow
    /\ outbox' = {m \in outbox : Cardinality(outbox) < QueueMax} \cup {NextRow}
    /\ sent' = sent + 1
    /\ row' = NextRow
    /\ UNCHANGED <<phase, skipped, topic, reported, retries>>

\* Mutant: nothing limits the queue.
ProduceUnlimited ==
    /\ ValidRow
    /\ outbox' = outbox \cup {NextRow}
    /\ sent' = sent + 1
    /\ row' = NextRow
    /\ UNCHANGED <<phase, skipped, topic, reported, retries>>

\* producer.produce() only enqueues.
Produce ==
    /\ ValidRow /\ Cardinality(outbox) < QueueMax
    /\ outbox' = outbox \cup {NextRow}
    /\ sent' = sent + 1
    /\ row' = NextRow
    /\ UNCHANGED <<phase, skipped, topic, reported, retries>>

\* ... and raises BufferError on a full queue, which nothing catches.
QueueFull ==
    /\ ValidRow /\ Cardinality(outbox) = QueueMax
    /\ phase' = "died"
    /\ UNCHANGED <<row, sent, skipped, outbox, topic, reported, retries>>

\* The broker appends a message, in any order, and its ack may get lost: the
\* message is then sent again.
BrokerAppends(m) ==
    /\ m \in outbox
    /\ topic' = Append(topic, m)
    /\ \/ outbox' = outbox \ {m} /\ UNCHANGED retries
       \/ retries < MaxRetries /\ retries' = retries + 1 /\ UNCHANGED outbox
    /\ UNCHANGED <<phase, row, sent, skipped, reported>>

\* librdkafka gives up on a message, and poll or flush runs the callback.
DeliveryFails(m) ==
    /\ phase \in {"running", "flushing"} /\ m \in outbox
    /\ outbox' = outbox \ {m}
    /\ reported' = reported \cup {m}
    /\ UNCHANGED <<phase, row, sent, skipped, topic, retries>>

StartFlush ==
    /\ phase = "running" /\ row = NumRows
    /\ phase' = "flushing"
    /\ UNCHANGED <<row, sent, skipped, outbox, topic, reported, retries>>

\* Mutant: flush() without a timeout.
FlushUntilEmpty ==
    /\ phase = "flushing" /\ outbox = {}
    /\ phase' = "returned"
    /\ UNCHANGED <<row, sent, skipped, outbox, topic, reported, retries>>

\* flush(10) returns with an empty queue or after ten seconds, and how many
\* messages it left behind is ignored.
FlushReturns ==
    /\ phase = "flushing"
    /\ phase' = "returned"
    /\ UNCHANGED <<row, sent, skipped, outbox, topic, reported, retries>>

\* The process is killed.
Killed ==
    /\ phase \in {"running", "flushing"}
    /\ phase' = "died"
    /\ UNCHANGED <<row, sent, skipped, outbox, topic, reported, retries>>

Loop == SkipInvalidRow \/ Produce \/ QueueFull \/ StartFlush \/ FlushReturns

Next ==
    \/ Loop \/ Killed
    \/ \E m \in Rows : BrokerAppends(m) \/ DeliveryFails(m)

Spec == Init /\ [][Next]_vars

\* The loop is sequential code without waits of its own but flush's; nothing
\* obliges the broker to answer or librdkafka to give up within those ten seconds.
FairSpec == Spec /\ WF_vars(Loop)

-----------------------------------------------------------------------------
(* Properties.                                                             *)

Published == {topic[i] : i \in DOMAIN topic}

\* No row the loop has been through vanishes without a trace in the process: it was
\* skipped, published, reported by the callback, or it still waits in the queue.
EveryRowAccountedFor ==
    \A m \in 1 .. row : m \in InvalidRows \cup Published \cup reported \cup outbox

\* The producer ends, by returning or by dying, although the broker never answers.
ProducerEnds == phase \in {"running", "flushing"} ~> phase \in {"returned", "died"}

=============================================================================
