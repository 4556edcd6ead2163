---------------------- MODULE TransactionProducer_proofs --------------------
(***************************************************************************)
(* Proofs about the producer, for any file, queue length and number of     *)
(* lost acknowledgements.                                                  *)
(***************************************************************************)
EXTENDS TransactionProducer, FiniteSetTheorems, TLAPS

\* The loop is at most as far as the rows it counted.
CountsAddUp == sent + skipped = row

LEMMA OutboxIsFinite == ASSUME TypeOK PROVE IsFiniteSet(outbox) /\ Cardinality(outbox) \in Nat
<1>1. NumRows \in Nat /\ outbox \in SUBSET (1 .. NumRows)
  BY ProducerAssumption DEF TypeOK, Rows
<1>2. IsFiniteSet(1 .. NumRows)
  BY <1>1, FS_Interval
<1>3. IsFiniteSet(outbox)
  BY <1>1, <1>2, FS_Subset
<1> QED  BY <1>3, FS_CardinalityType

LEMMA ProducerInvariance == Spec => [](TypeOK /\ CountsAddUp)
<1>1. Init => TypeOK /\ CountsAddUp
  <2> SUFFICES ASSUME Init PROVE TypeOK /\ CountsAddUp
    OBVIOUS
  <2>1. Cardinality(outbox) = 0
    BY FS_EmptySet DEF Init
  <2> QED  BY <2>1, ProducerAssumption DEF Init, TypeOK, CountsAddUp, Rows
<1>2. TypeOK /\ CountsAddUp /\ [Next]_vars => (TypeOK /\ CountsAddUp)'
  <2> SUFFICES ASSUME TypeOK, CountsAddUp, [Next]_vars PROVE (TypeOK /\ CountsAddUp)'
    OBVIOUS
  <2> USE ProducerAssumption DEF vars
  <2>0. IsFiniteSet(outbox) /\ Cardinality(outbox) \in Nat
    BY OutboxIsFinite
  <2>1. CASE SkipInvalidRow
    BY <2>1 DEF SkipInvalidRow, NextRow, TypeOK, CountsAddUp
  <2>2. CASE Produce
    <3>1. Cardinality(outbox') <= Cardinality(outbox) + 1 /\ Cardinality(outbox') \in Nat
      <4>1. outbox' = outbox \cup {NextRow}
        BY <2>2 DEF Produce
      <4>2. /\ IsFiniteSet(outbox \cup {NextRow})
            /\ Cardinality(outbox \cup {NextRow})
                 = IF NextRow \in outbox THEN Cardinality(outbox) ELSE Cardinality(outbox) + 1
        BY <2>0, FS_AddElement
      <4> QED  BY <2>0, <4>1, <4>2
    <3>2. Cardinality(outbox') <= QueueMax
      BY <2>0, <2>2, <3>1 DEF Produce
    <3> QED  BY <2>2, <3>2 DEF Produce, ValidRow, NextRow, Rows, TypeOK, CountsAddUp
  <2>3. CASE QueueFull \/ StartFlush \/ FlushReturns \/ Killed
    BY <2>3 DEF QueueFull, StartFlush, FlushReturns, Killed, TypeOK, CountsAddUp
  <2>4. ASSUME NEW m \in Rows, BrokerAppends(m) \/ DeliveryFails(m)
        PROVE  (TypeOK /\ CountsAddUp)'
    <3>1. outbox' \in SUBSET outbox
      BY <2>4 DEF BrokerAppends, DeliveryFails
    <3>2. Cardinality(outbox') <= Cardinality(outbox) /\ Cardinality(outbox') \in Nat
      BY <2>0, <3>1, FS_Subset, FS_CardinalityType
    <3>3. Cardinality(outbox') <= QueueMax
      BY <2>0, <3>2 DEF TypeOK
    <3>4. topic' \in Seq(Rows)
      BY <2>4 DEF BrokerAppends, DeliveryFails, TypeOK
    <3>5. outbox' \in SUBSET Rows /\ reported' \in SUBSET Rows /\ retries' \in 0 .. MaxRetries
      BY <2>4, <3>1 DEF BrokerAppends, DeliveryFails, TypeOK
    <3>6. UNCHANGED <<phase, row, sent, skipped>>
      BY <2>4 DEF BrokerAppends, DeliveryFails
    <3> QED  BY <3>3, <3>4, <3>5, <3>6 DEF TypeOK, CountsAddUp
  <2>5. CASE UNCHANGED vars
    BY <2>5 DEF TypeOK, CountsAddUp
  <2> QED  BY <2>1, <2>2, <2>3, <2>4, <2>5 DEF Next, Loop
<1> QED  BY <1>1, <1>2, PTL DEF Spec

\* Type correctness: librdkafka's queue never exceeds its limit, and the two counts
\* of the loop stay within the rows of the file.
THEOREM ProducerTypeCorrect == Spec => []TypeOK
BY ProducerInvariance, PTL

\* Whatever the broker does, each row the loop has been through was skipped or
\* published, or its failure was reported, or it is still in the queue.
THEOREM RowsAccountedFor == Spec => []EveryRowAccountedFor
<1>1. Init => EveryRowAccountedFor
  BY DEF Init, EveryRowAccountedFor
<1>2. TypeOK /\ EveryRowAccountedFor /\ [Next]_vars => EveryRowAccountedFor'
  <2> SUFFICES ASSUME TypeOK, EveryRowAccountedFor, [Next]_vars, NEW m \in 1 .. row'
               PROVE  m \in InvalidRows \cup Published' \cup reported' \cup outbox'
    BY DEF EveryRowAccountedFor
  <2> USE DEF vars
  <2>0. row \in Nat
    BY DEF TypeOK
  <2>1. CASE SkipInvalidRow
    <3>1. UNCHANGED <<Published, reported, outbox>> /\ row' = row + 1 /\ row + 1 \in InvalidRows
      BY <2>1 DEF SkipInvalidRow, Published, NextRow
    <3> QED  BY <2>0, <3>1 DEF EveryRowAccountedFor
  <2>2. CASE Produce
    <3>1. UNCHANGED <<Published, reported>> /\ row' = row + 1 /\ outbox' = outbox \cup {row + 1}
      BY <2>2 DEF Produce, Published, NextRow
    <3> QED  BY <2>0, <3>1 DEF EveryRowAccountedFor
  <2>3. CASE QueueFull \/ StartFlush \/ FlushReturns \/ Killed \/ UNCHANGED vars
    <3>1. UNCHANGED <<Published, reported, outbox, row>>
      BY <2>3 DEF QueueFull, StartFlush, FlushReturns, Killed, Published
    <3> QED  BY <3>1 DEF EveryRowAccountedFor
  <2>4. ASSUME NEW p \in Rows, BrokerAppends(p)
        PROVE  m \in InvalidRows \cup Published' \cup reported' \cup outbox'
    <3>1. /\ DOMAIN topic' = 1 .. Len(topic) + 1 /\ DOMAIN topic = 1 .. Len(topic)
          /\ Len(topic) \in Nat
          /\ \A i \in 1 .. Len(topic) : topic'[i] = topic[i]
          /\ topic'[Len(topic) + 1] = p
      BY <2>4 DEF BrokerAppends, TypeOK
    <3>2. Published \subseteq Published' /\ p \in Published'
      BY <3>1 DEF Published
    <3>3. row' = row /\ reported' = reported /\ outbox \subseteq outbox' \cup {p}
      BY <2>4 DEF BrokerAppends
    <3> QED  BY <3>2, <3>3 DEF EveryRowAccountedFor
  <2>5. ASSUME NEW p \in Rows, DeliveryFails(p)
        PROVE  m \in InvalidRows \cup Published' \cup reported' \cup outbox'
    <3>1. /\ row' = row /\ Published' = Published
          /\ reported' = reported \cup {p} /\ outbox' = outbox \ {p}
      BY <2>5 DEF DeliveryFails, Published
    <3> QED  BY <3>1 DEF EveryRowAccountedFor
  <2> QED  BY <2>1, <2>2, <2>3, <2>4, <2>5 DEF Next, Loop
<1> QED  BY ProducerTypeCorrect, <1>1, <1>2, PTL DEF Spec

-----------------------------------------------------------------------------
(* The accounts of librdkafka's queue, to the message.                     *)

\* A row is in one place only on its way: rows in the queue, published or reported were
\* valid ones the loop had come to, and what is reported has left the queue.
RowsOnTheirWay ==
    /\ outbox \cup Published \cup reported \subseteq (1 .. row) \ InvalidRows
    /\ outbox \cap reported = {}

LEMMA PublishedBy ==
    ASSUME TypeOK, NEW m \in Rows, BrokerAppends(m)
    PROVE  Published' = Published \cup {m} /\ Len(topic') = Len(topic) + 1 /\ Len(topic) \in Nat
<1>1. /\ DOMAIN topic' = 1 .. Len(topic) + 1 /\ DOMAIN topic = 1 .. Len(topic)
      /\ Len(topic) \in Nat /\ Len(topic') = Len(topic) + 1
      /\ \A i \in 1 .. Len(topic) : topic'[i] = topic[i]
      /\ topic'[Len(topic) + 1] = m
  BY DEF BrokerAppends, TypeOK
<1>2. DOMAIN topic' = DOMAIN topic \cup {Len(topic) + 1}
  BY <1>1
<1> QED  BY <1>1, <1>2 DEF Published

LEMMA RowsStayOnTheirWay == Spec => []RowsOnTheirWay
<1>1. Init => RowsOnTheirWay
  BY DEF Init, RowsOnTheirWay, Published
<1>2. TypeOK /\ RowsOnTheirWay /\ [Next]_vars => RowsOnTheirWay'
  <2> SUFFICES ASSUME TypeOK, RowsOnTheirWay, [Next]_vars PROVE RowsOnTheirWay'
    OBVIOUS
  <2> USE DEF vars
  <2>0. row \in Nat
    BY DEF TypeOK
  <2>1. CASE SkipInvalidRow
    BY <2>0, <2>1 DEF SkipInvalidRow, Published, NextRow, RowsOnTheirWay
  <2>2. CASE Produce
    BY <2>0, <2>2 DEF Produce, ValidRow, Published, NextRow, RowsOnTheirWay
  <2>3. CASE QueueFull \/ StartFlush \/ FlushReturns \/ Killed \/ UNCHANGED vars
    BY <2>3 DEF QueueFull, StartFlush, FlushReturns, Killed, Published, RowsOnTheirWay
  <2>4. ASSUME NEW m \in Rows, BrokerAppends(m) PROVE RowsOnTheirWay'
    <3>1. Published' = Published \cup {m}
      BY <2>4, PublishedBy
    <3> QED  BY <2>4, <3>1 DEF BrokerAppends, RowsOnTheirWay
  <2>5. ASSUME NEW m \in Rows, DeliveryFails(m) PROVE RowsOnTheirWay'
    BY <2>5 DEF DeliveryFails, Published, RowsOnTheirWay
  <2> QED  BY <2>1, <2>2, <2>3, <2>4, <2>5 DEF Next, Loop
<1> QED  BY ProducerTypeCorrect, <1>1, <1>2, PTL DEF Spec

\* What is in the topic, by messages and not by rows: every message the loop counted as
\* sent is there once, or waits, or was reported, and beyond that there is one copy for
\* each acknowledgement that got lost.  Published copies that nobody counted, or a
\* reported row that is published after all without a lost acknowledgement, do not exist.
MessagesAddUp ==
    Len(topic) + Cardinality(outbox) + Cardinality(reported) = sent + retries

LEMMA ReportedIsFinite == ASSUME TypeOK PROVE IsFiniteSet(reported) /\ Cardinality(reported) \in Nat
<1>1. NumRows \in Nat /\ reported \in SUBSET (1 .. NumRows)
  BY ProducerAssumption DEF TypeOK, Rows
<1>2. IsFiniteSet(1 .. NumRows)
  BY <1>1, FS_Interval
<1>3. IsFiniteSet(reported)
  BY <1>1, <1>2, FS_Subset
<1> QED  BY <1>3, FS_CardinalityType

\* Retries included: the topic is longer than what was sent by what was sent twice only.
THEOREM ProducerMessagesAddUp == Spec => []MessagesAddUp
<1>1. Init => MessagesAddUp
  BY FS_EmptySet DEF Init, MessagesAddUp
<1>2. TypeOK /\ RowsOnTheirWay /\ MessagesAddUp /\ [Next]_vars => MessagesAddUp'
  <2> SUFFICES ASSUME TypeOK, RowsOnTheirWay, MessagesAddUp, [Next]_vars PROVE MessagesAddUp'
    OBVIOUS
  <2> USE DEF vars
  <2>0. /\ IsFiniteSet(outbox) /\ Cardinality(outbox) \in Nat
        /\ IsFiniteSet(reported) /\ Cardinality(reported) \in Nat
        /\ Len(topic) \in Nat /\ sent \in Nat /\ retries \in Nat /\ row \in Nat
    BY OutboxIsFinite, ReportedIsFinite DEF TypeOK
  <2>1. CASE Produce
    <3>1. NextRow \notin outbox /\ outbox' = outbox \cup {NextRow}
      BY <2>0, <2>1 DEF Produce, NextRow, RowsOnTheirWay
    <3>2. Cardinality(outbox') = Cardinality(outbox) + 1
      BY <2>0, <3>1, FS_AddElement
    <3> QED  BY <2>0, <2>1, <3>2 DEF Produce, MessagesAddUp
  <2>2. CASE SkipInvalidRow \/ QueueFull \/ StartFlush \/ FlushReturns \/ Killed \/ UNCHANGED vars
    BY <2>2
    DEF SkipInvalidRow, QueueFull, StartFlush, FlushReturns, Killed, MessagesAddUp
  <2>3. ASSUME NEW m \in Rows, BrokerAppends(m) PROVE MessagesAddUp'
    <3>1. Len(topic') = Len(topic) + 1 /\ m \in outbox /\ UNCHANGED <<sent, reported>>
      BY <2>3, PublishedBy DEF BrokerAppends
    <3>2. CASE outbox' = outbox \ {m} /\ UNCHANGED retries
      <4>1. Cardinality(outbox') = Cardinality(outbox) - 1
        BY <2>0, <3>1, <3>2, FS_RemoveElement
      <4> QED  BY <2>0, <3>1, <3>2, <4>1 DEF MessagesAddUp
    <3>3. CASE retries' = retries + 1 /\ UNCHANGED outbox
      BY <2>0, <3>1, <3>3 DEF MessagesAddUp
    <3> QED  BY <2>3, <3>2, <3>3 DEF BrokerAppends
  <2>4. ASSUME NEW m \in Rows, DeliveryFails(m) PROVE MessagesAddUp'
    <3>1. /\ m \in outbox /\ m \notin reported
          /\ outbox' = outbox \ {m} /\ reported' = reported \cup {m}
          /\ UNCHANGED <<sent, topic, retries>>
      BY <2>4 DEF DeliveryFails, RowsOnTheirWay
    <3>2. Cardinality(outbox') = Cardinality(outbox) - 1
      BY <2>0, <3>1, FS_RemoveElement
    <3>3. Cardinality(reported') = Cardinality(reported) + 1
      BY <2>0, <3>1, FS_AddElement
    <3> QED  BY <2>0, <3>1, <3>2, <3>3 DEF MessagesAddUp
  <2> QED  BY <2>1, <2>2, <2>3, <2>4 DEF Next, Loop
<1> QED  BY ProducerTypeCorrect, RowsStayOnTheirWay, <1>1, <1>2, PTL DEF Spec

\* No consumer ever meets a row of the file that transaction_from_dict rejects, or one
\* the loop has not come to: what is in the topic is valid and in the part of the file
\* that was read, duplicates and all.
THEOREM OnlyValidRowsPublished == Spec => [](Published \subseteq (1 .. row) \ InvalidRows)
<1>1. RowsOnTheirWay => Published \subseteq (1 .. row) \ InvalidRows
  BY DEF RowsOnTheirWay
<1> QED  BY <1>1, RowsStayOnTheirWay, PTL

\* The steps the loop has left: a row each, the flush and its return.
LoopLeft ==
    IF phase = "running" THEN (NumRows - row) + 2
    ELSE IF phase = "flushing" THEN 1 ELSE 0

\* The half of ProducerEnds that a proof can reach: each step of the loop brings the
\* producer closer to its end, and neither the broker, which may answer, answer twice or
\* stay silent, nor librdkafka's callbacks ever take it further away.
THEOREM ProducerGetsCloser ==
    Spec => [][LoopLeft' <= LoopLeft /\ (Loop => LoopLeft' < LoopLeft)]_vars
<1>1. TypeOK /\ [Next]_vars
        => [LoopLeft' <= LoopLeft /\ (Loop => LoopLeft' < LoopLeft)]_vars
  <2> SUFFICES ASSUME TypeOK, Next
               PROVE  LoopLeft' <= LoopLeft /\ (Loop => LoopLeft' < LoopLeft)
    BY DEF vars
  <2>0. NumRows \in Nat /\ row \in 0 .. NumRows /\ LoopLeft \in Nat
    BY ProducerAssumption DEF TypeOK, LoopLeft
  <2>1. CASE SkipInvalidRow \/ Produce
    <3>1. phase = "running" /\ phase' = "running" /\ row' = row + 1
      BY <2>1 DEF SkipInvalidRow, Produce, ValidRow, NextRow
    <3>2. LoopLeft = (NumRows - row) + 2 /\ LoopLeft' = (NumRows - (row + 1)) + 2
      BY <3>1 DEF LoopLeft
    <3> QED  BY <2>0, <3>2
  <2>2. CASE QueueFull \/ StartFlush \/ FlushReturns
    BY <2>0, <2>2 DEF QueueFull, ValidRow, StartFlush, FlushReturns, LoopLeft
  <2>3. CASE UNCHANGED <<phase, row>>
    <3>1. LoopLeft' = LoopLeft
      BY <2>3 DEF LoopLeft
    <3>2. ~Loop
      BY <2>0, <2>3
      DEF Loop, SkipInvalidRow, Produce, QueueFull, ValidRow, NextRow, StartFlush, FlushReturns
    <3> QED  BY <2>0, <3>1, <3>2
  <2>4. CASE Killed
    <3>1. LoopLeft' = 0 /\ LoopLeft > 0 /\ phase \in {"running", "flushing"}
      BY <2>0, <2>4 DEF Killed, LoopLeft
    <3> QED  BY <2>0, <3>1
  <2> QED  BY <2>1, <2>2, <2>3, <2>4 DEF Next, Loop, BrokerAppends, DeliveryFails
<1> QED  BY <1>1, ProducerTypeCorrect, PTL DEF Spec

=============================================================================
