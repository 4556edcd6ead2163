--------------------- MODULE TransactionConsumer_proofs ---------------------
(***************************************************************************)
(* Proofs about the consumer, for any length of the topic, any number of   *)
(* stops and any --max-messages.                                           *)
(***************************************************************************)
EXTENDS TransactionConsumer, FiniteSetTheorems, TLAPS

\* Type correctness: what is stored is between what is committed and what was polled.
THEOREM ConsumerTypeCorrect == Spec => []TypeOK
<1>1. Init => TypeOK
  BY ConsumerAssumption DEF Init, TypeOK
<1>2. TypeOK /\ [Next]_vars => TypeOK'
  <2> SUFFICES ASSUME TypeOK, [Next]_vars PROVE TypeOK'
    OBVIOUS
  <2> USE ConsumerAssumption DEF vars
  <2>1. ASSUME NEW kind \in Kind, Produce(kind) PROVE TypeOK'
    <3>1. topic' \in Seq(Kind) /\ Len(topic') = Len(topic) + 1
      BY <2>1 DEF Produce, TypeOK
    <3> QED  BY <2>1, <3>1 DEF Produce, TypeOK
  <2>2. CASE Start
    BY <2>2 DEF Start, TypeOK
  <2>3. CASE Poll
    BY <2>3 DEF Poll, TypeOK
  <2>4. CASE HandleValid
    BY <2>4 DEF HandleValid, TypeOK
  <2>5. CASE PassOver
    BY <2>5 DEF PassOver, TypeOK
  <2>6. CASE AutoCommit
    BY <2>6 DEF AutoCommit, TypeOK
  <2>7. CASE Finish
    BY <2>7 DEF Finish, Close, TypeOK
  <2>8. CASE Interrupted
    BY <2>8 DEF Interrupted, StopCounted, Close, TypeOK
  <2>9. CASE Killed
    BY <2>9 DEF Killed, StopCounted, TypeOK
  <2>10. CASE Raises
    BY <2>10 DEF Raises, Close, TypeOK
  <2>11. CASE UNCHANGED vars
    BY <2>11 DEF TypeOK
  <2> QED
    BY <2>1, <2>2, <2>3, <2>4, <2>5, <2>6, <2>7, <2>8, <2>9, <2>10, <2>11
    DEF Next, Handle, PollTimesOut
<1> QED  BY <1>1, <1>2, PTL DEF Spec

-----------------------------------------------------------------------------
(* LossIsBounded is not inductive: a commit that has not happened yet may  *)
(* lose the message in hand.  Counting up to what is stored is.            *)

\* The valid messages poll has returned that have not been handled.
Unhandled(n) == {o \in 1 .. n : topic[o] = "valid" /\ o \notin handled}

LossInv ==
    /\ stored = position
    /\ hand \in {0, position}
    /\ phase = "stopped" => hand = 0
    /\ Cardinality(Unhandled(position) \ {hand}) <= torn

LEMMA UnhandledIsFinite ==
    ASSUME NEW n \in Nat PROVE IsFiniteSet(Unhandled(n)) /\ Cardinality(Unhandled(n)) \in Nat
<1>1. Unhandled(n) \in SUBSET (1 .. n)
  BY DEF Unhandled
<1>2. IsFiniteSet(1 .. n)
  BY FS_Interval
<1>3. IsFiniteSet(Unhandled(n))
  BY <1>1, <1>2, FS_Subset
<1> QED  BY <1>3, FS_CardinalityType

\* What a stop can make of the unhandled messages: at most the one in hand is added.
LEMMA StopLosesTheHand ==
    ASSUME TypeOK, LossInv, NEW n \in 0 .. position
    PROVE  Cardinality(Unhandled(n)) <= torn + (IF HandIsValid THEN 1 ELSE 0)
<1>0. position \in Nat /\ n \in Nat /\ torn \in Nat
  BY DEF TypeOK
<1> DEFINE U == Unhandled(position) \ {hand}
<1>1. IsFiniteSet(U) /\ Cardinality(U) \in Nat /\ Cardinality(U) <= torn
  BY <1>0, UnhandledIsFinite, FS_RemoveElement, FS_CardinalityType DEF LossInv
<1>2. CASE ~HandIsValid
  <2>1. Unhandled(n) \in SUBSET U
    BY <1>0, <1>2 DEF Unhandled, HandIsValid
  <2>2. Cardinality(Unhandled(n)) <= Cardinality(U)
    BY <1>1, <2>1, FS_Subset
  <2> QED  BY <1>0, <1>1, <1>2, <2>2, UnhandledIsFinite
<1>3. CASE HandIsValid
  <2>1. Unhandled(n) \in SUBSET (U \cup {hand})
    BY <1>0 DEF Unhandled
  <2>2. IsFiniteSet(U \cup {hand}) /\ Cardinality(U \cup {hand}) <= Cardinality(U) + 1
    BY <1>1, FS_AddElement
  <2>3. Cardinality(Unhandled(n)) <= Cardinality(U \cup {hand})
    BY <2>1, <2>2, FS_Subset
  <2>4. Cardinality(U \cup {hand}) \in Nat
    BY <2>2, FS_CardinalityType
  <2> QED  BY <1>0, <1>1, <1>3, <2>2, <2>3, <2>4, UnhandledIsFinite
<1> QED  BY <1>2, <1>3

\* A stop, with or without its last commit, keeps the invariant.
LEMMA StopKeepsLossInv ==
    ASSUME TypeOK, LossInv, NEW n \in 0 .. position,
           UNCHANGED <<topic, handled>>, phase' = "stopped", hand' = 0,
           position' = n, stored' = n, torn' = torn + (IF HandIsValid THEN 1 ELSE 0)
    PROVE  LossInv'
<1>1. Unhandled(position)' = Unhandled(n)
  BY DEF Unhandled
<1>2. 0 \notin Unhandled(n)
  BY DEF Unhandled
<1>3. Unhandled(n) \ {0} = Unhandled(n)
  BY <1>2
<1>4. Cardinality((Unhandled(position) \ {hand})') <= torn'
  BY <1>1, <1>3, StopLosesTheHand
<1> QED  BY <1>4 DEF LossInv

LEMMA LossInvariance == Spec => []LossInv
<1>1. Init => LossInv
  <2> SUFFICES ASSUME Init PROVE LossInv
    OBVIOUS
  <2>1. Unhandled(position) \ {hand} = {}
    BY DEF Init, Unhandled
  <2> QED  BY <2>1, FS_EmptySet DEF Init, LossInv
<1>2. TypeOK /\ LossInv /\ [Next]_vars => LossInv'
  <2> SUFFICES ASSUME TypeOK, LossInv, [Next]_vars PROVE LossInv'
    OBVIOUS
  <2> USE DEF vars
  <2>1. ASSUME NEW kind \in Kind, Produce(kind) PROVE LossInv'
    <3>1. \A o \in 1 .. position : topic'[o] = topic[o]
      BY <2>1 DEF Produce, TypeOK
    <3>2. Unhandled(position)' = Unhandled(position)
      BY <2>1, <3>1 DEF Produce, Unhandled
    <3> QED  BY <2>1, <3>2 DEF Produce, LossInv
  <2>2. CASE Start
    <3>1. committed \in 0 .. position /\ hand = 0
      BY <2>2 DEF Start, TypeOK, LossInv
    <3>2. Unhandled(position)' = Unhandled(committed) /\ Unhandled(committed) \ {0} = Unhandled(committed)
      BY <2>2 DEF Start, Unhandled
    <3>3. Cardinality(Unhandled(committed)) <= torn
      BY <3>1, StopLosesTheHand DEF TypeOK, HandIsValid
    <3> QED  BY <2>2, <3>1, <3>2, <3>3 DEF Start, LossInv
  <2>3. CASE Poll
    <3>1. (Unhandled(position) \ {hand})' = Unhandled(position) \ {hand}
      BY <2>3 DEF Poll, Unhandled, TypeOK
    <3> QED  BY <2>3, <3>1 DEF Poll, LossInv
  <2>4. CASE HandleValid
    <3>1. (Unhandled(position) \ {hand})' = Unhandled(position) \ {hand}
      BY <2>4 DEF HandleValid, Unhandled, TypeOK
    <3> QED  BY <2>4, <3>1 DEF HandleValid, LossInv
  <2>5. CASE PassOver
    <3>1. (Unhandled(position) \ {hand})' = Unhandled(position) \ {hand}
      BY <2>5 DEF PassOver, Unhandled, TypeOK
    <3> QED  BY <2>5, <3>1 DEF PassOver, LossInv
  <2>6. CASE AutoCommit \/ UNCHANGED vars \/ PollTimesOut
    <3>1. (Unhandled(position) \ {hand})' = Unhandled(position) \ {hand}
      BY <2>6 DEF AutoCommit, PollTimesOut, Unhandled
    <3> QED  BY <2>6, <3>1 DEF AutoCommit, PollTimesOut, LossInv
  <2>7. CASE Finish
    <3>1. PICK n \in {stored, committed} : committed' = n
      BY <2>7 DEF Finish, Close
    <3>2. n \in 0 .. position /\ torn \in Nat
      BY <3>1 DEF TypeOK
    <3> QED  BY <2>7, <3>1, <3>2, StopKeepsLossInv DEF Finish, Close, HandIsValid
  <2>8. CASE Interrupted
    <3>1. PICK n \in {stored, committed} : committed' = n
      BY <2>8 DEF Interrupted, Close
    <3>2. n \in 0 .. position
      BY <3>1 DEF TypeOK
    <3> QED  BY <2>8, <3>1, <3>2, StopKeepsLossInv DEF Interrupted, StopCounted, Close
  <2>9. CASE Killed
    <3>1. committed \in 0 .. position
      BY DEF TypeOK
    <3> QED  BY <2>9, <3>1, StopKeepsLossInv DEF Killed, StopCounted
  <2>10. CASE Raises
    <3>1. PICK n \in {stored, committed} : committed' = n
      BY <2>10 DEF Raises, Close
    <3>2. n \in 0 .. position /\ torn \in Nat
      BY <3>1 DEF TypeOK
    <3> QED  BY <2>10, <3>1, <3>2, StopKeepsLossInv DEF Raises, Close, HandIsValid
  <2> QED
    BY <2>1, <2>2, <2>3, <2>4, <2>5, <2>6, <2>7, <2>8, <2>9, <2>10 DEF Next, Handle
<1> QED  BY ConsumerTypeCorrect, <1>1, <1>2, PTL DEF Spec

\* Committing before handling loses at most one message for each stop that met a valid
\* one in hand (consumer.py: librdkafka's auto-commit, close() in the finally clause).
THEOREM LossBounded == Spec => []LossIsBounded
<1>1. TypeOK /\ LossInv => LossIsBounded
  <2> SUFFICES ASSUME TypeOK, LossInv PROVE LossIsBounded
    OBVIOUS
  <2>1. Lost \ {hand} \in SUBSET (Unhandled(position) \ {hand})
    BY DEF Lost, Unhandled, TypeOK
  <2>2. IsFiniteSet(Unhandled(position) \ {hand})
    <3>1. position \in Nat
      BY DEF TypeOK
    <3> QED  BY <3>1, UnhandledIsFinite, FS_RemoveElement
  <2>3. Cardinality(Lost \ {hand}) <= Cardinality(Unhandled(position) \ {hand})
    BY <2>1, <2>2, FS_Subset
  <2>4. /\ Cardinality(Lost \ {hand}) \in Nat
        /\ Cardinality(Unhandled(position) \ {hand}) \in Nat /\ torn \in Nat
    BY <2>1, <2>2, FS_Subset, FS_CardinalityType DEF TypeOK
  <2> QED  BY <2>3, <2>4 DEF LossInv, LossIsBounded
<1> QED  BY ConsumerTypeCorrect, LossInvariance, <1>1, PTL

-----------------------------------------------------------------------------
(* What a restart can and cannot repeat.                                   *)

\* The group's offset never goes back, whoever commits it and however the process ends,
\* never gets ahead of what this process has polled, and no message at or behind it is
\* ever handed out again: with the loss above, delivery is at most once for what is
\* committed (the thread commits what poll stored, close() does so once more).
CommitsMoveForward ==
    [][/\ committed' \in committed .. position
       /\ hand' \notin {0, hand} => hand' > committed /\ committed' = committed]_vars

\* Stops, crashes and new starts included: a start goes on from what is committed.
THEOREM CommitsForward == Spec => CommitsMoveForward
<1>1. TypeOK /\ [Next]_vars
        => [/\ committed' \in committed .. position
            /\ hand' \notin {0, hand} => hand' > committed /\ committed' = committed]_vars
  <2> SUFFICES ASSUME TypeOK, Next
               PROVE  /\ committed' \in committed .. position
                      /\ hand' \notin {0, hand} => hand' > committed /\ committed' = committed
    BY DEF vars
  <2>0. /\ committed \in Nat /\ stored \in committed .. position /\ position \in Nat
        /\ hand \in Nat
    BY DEF TypeOK
  <2>1. CASE Poll
    BY <2>0, <2>1 DEF Poll
  <2>2. CASE HandleValid \/ PassOver \/ Killed \/ AutoCommit
    BY <2>0, <2>2 DEF HandleValid, PassOver, Killed, AutoCommit
  <2>3. CASE Finish \/ Raises \/ Interrupted
    <3>1. committed' \in {stored, committed} /\ hand' = 0
      BY <2>3 DEF Finish, Raises, Interrupted, Close
    <3> QED  BY <2>0, <3>1
  <2>4. CASE UNCHANGED <<committed, hand>>
    BY <2>0, <2>4
  <2> QED
    BY <2>1, <2>2, <2>3, <2>4 DEF Next, Produce, Start, PollTimesOut, Handle, vars
<1> QED  BY <1>1, ConsumerTypeCorrect, PTL DEF Spec, CommitsMoveForward

\* A run with --max-messages never counts more than it was told to: the limit is looked
\* at before each poll, and only the message in hand can still count.
StopsAtMax == limit # 0 => processed <= limit

\* Inductive once the message in hand is counted with the processed ones.
THEOREM StopsAtItsMax == Spec => []StopsAtMax
<1> DEFINE IInv ==
      limit # 0 => processed <= limit /\ (hand # 0 => processed < limit)
<1>1. Init => IInv
  BY DEF Init
<1>2. TypeOK /\ LossInv /\ IInv /\ [Next]_vars => IInv'
  <2> SUFFICES ASSUME TypeOK, LossInv, IInv, [Next]_vars PROVE IInv'
    OBVIOUS
  <2> USE DEF vars
  <2>0. processed \in Nat /\ limit \in Nat
    BY ConsumerAssumption DEF TypeOK
  <2>1. CASE Start
    BY <2>1, ConsumerAssumption DEF Start, LossInv
  <2>2. CASE Poll
    BY <2>0, <2>2 DEF Poll, MaxReached
  <2>3. CASE HandleValid
    BY <2>0, <2>3 DEF HandleValid
  <2>4. CASE UNCHANGED <<limit, processed>> /\ hand' \in {0, hand}
    BY <2>4
  <2> QED
    BY <2>1, <2>2, <2>3, <2>4
    DEF Next, Produce, PollTimesOut, Handle, PassOver, AutoCommit, Finish, Raises,
        Interrupted, Killed, Close
<1>3. IInv => StopsAtMax
  BY DEF StopsAtMax
<1> QED  BY ConsumerTypeCorrect, LossInvariance, <1>1, <1>2, <1>3, PTL DEF Spec

=============================================================================
