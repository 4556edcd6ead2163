------------------------- MODULE TransactionConsumer ------------------------
(***************************************************************************)
(* fraud-detection consumer: poll, deserialize, log, count.  Offsets are   *)
(* left to librdkafka's defaults: poll stores the offset of the message it *)
(* returns, before it is handled, and a background thread commits what is  *)
(* stored.  One consumer of the group reads the topic's one partition.     *)
(***************************************************************************)
EXTENDS Naturals, Sequences, FiniteSets

CONSTANTS
    MaxMessages,    \* values of --max-messages, 0 for None
    MaxTopic,       \* bound: messages in the topic
    MaxStops        \* bound: times the consumer is stopped from outside

\* What the value of a message does to the loop: it counts, raises
\* InvalidTransactionError, is null, or raises the OverflowError of an infinite step.
Kind == {"valid", "invalid", "tombstone", "overflowing"}
Offsets == 1 .. MaxTopic

ASSUME ConsumerAssumption ==
    MaxMessages \subseteq Nat /\ MaxTopic \in Nat /\ MaxStops \in Nat

VARIABLES
    topic,          \* what kind of message is at each offset
    phase,          \* of consume_transactions
    limit,          \* the --max-messages of this run
    position,       \* messages poll has returned, from the start of the topic
    hand,           \* the message being handled, or 0
    stored,         \* the offset poll stored for the next commit
    committed,      \* the group's offset at the broker
    processed,      \* valid transactions of this run
    handled,        \* history: valid messages whose handling was completed
    stops,          \* how often the consumer was stopped
    torn            \* history: how many of these stops met a valid message in hand

vars == <<topic, phase, limit, position, hand, stored, committed, processed, handled, stops, torn>>

TypeOK ==
    /\ topic \in Seq(Kind) /\ Len(topic) <= MaxTopic
    /\ phase \in {"running", "stopped"}
    /\ limit \in MaxMessages \cup {0}
    /\ position \in 0 .. Len(topic)
    /\ hand \in 0 .. Len(topic)
    /\ stored \in committed .. position
    /\ committed \in 0 .. Len(topic)
    /\ processed \in Nat
    /\ handled \in SUBSET (1 .. Len(topic))
    /\ stops \in 0 .. MaxStops /\ torn \in 0 .. stops

Init ==
    /\ topic = <<>>
    /\ phase = "stopped" /\ limit = 0
    /\ position = 0 /\ hand = 0 /\ stored = 0 /\ committed = 0
    /\ processed = 0
    /\ handled = {}
    /\ stops = 0 /\ torn = 0

Produce(kind) ==
    /\ Len(topic) < MaxTopic
    /\ topic' = Append(topic, kind)
    /\ UNCHANGED <<phase, limit, position, hand, stored, committed, processed, handled, stops, torn>>

\* A new process resumes at the group's offset; a group without one, at earliest.
Start ==
    /\ phase = "stopped"
    /\ phase' = "running"
    /\ position' = committed /\ stored' = committed
    /\ limit' \in MaxMessages
    /\ processed' = 0
    /\ UNCHANGED <<topic, hand, committed, handled, stops, torn>>

MaxReached == limit # 0 /\ processed >= limit

\* Mutant: what is stored is how far the client has fetched.
PollStoringFetched ==
    /\ phase = "running" /\ hand = 0 /\ ~MaxReached
    /\ position < Len(topic)
    /\ position' = position + 1
    /\ hand' = position'
    /\ stored' = Len(topic)
    /\ UNCHANGED <<topic, phase, limit, committed, processed, handled, stops, torn>>

\* consumer.poll() returns a message.
Poll ==
    /\ phase = "running" /\ hand = 0 /\ ~MaxReached
    /\ position < Len(topic)
    /\ position' = position + 1
    /\ hand' = position'
    /\ stored' = position'
    /\ UNCHANGED <<topic, phase, limit, committed, processed, handled, stops, torn>>

\* poll times out, and the loop polls again.
PollTimesOut ==
    /\ phase = "running" /\ hand = 0 /\ ~MaxReached
    /\ position = Len(topic)
    /\ UNCHANGED vars

\* The loop body: a valid transaction counts, an invalid one is skipped, a null
\* value is ignored.
HandleValid ==
    /\ hand # 0 /\ topic[hand] = "valid"
    /\ processed' = processed + 1
    /\ handled' = handled \cup {hand}
    /\ hand' = 0
    /\ UNCHANGED <<topic, phase, limit, position, stored, committed, stops, torn>>

\* Mutant: an invalid message ends the process.
PassOverDying ==
    /\ hand # 0 /\ topic[hand] \in {"invalid", "tombstone"}
    /\ hand' = 0
    /\ phase' = "stopped"
    /\ position' = committed /\ stored' = committed
    /\ UNCHANGED <<topic, limit, committed, processed, handled, stops, torn>>

PassOver ==
    /\ hand # 0 /\ topic[hand] \in {"invalid", "tombstone"}
    /\ hand' = 0
    /\ UNCHANGED <<topic, phase, limit, position, stored, committed, processed, handled, stops, torn>>

\* enable.auto.commit's background thread, whatever the loop is doing.
AutoCommit ==
    /\ phase = "running" /\ committed # stored
    /\ committed' = stored
    /\ UNCHANGED <<topic, phase, limit, position, hand, stored, processed, handled, stops, torn>>

\* close() commits once more, unless the broker cannot be reached.
Close ==
    /\ committed' \in {stored, committed}
    /\ phase' = "stopped"
    /\ hand' = 0
    /\ position' = committed' /\ stored' = committed'
    /\ UNCHANGED <<topic, limit, processed, handled>>

\* Mutant: the last commit takes everything that was there.
FinishAtEnd ==
    /\ phase = "running" /\ hand = 0 /\ MaxReached
    /\ phase' = "stopped"
    /\ committed' = Len(topic) /\ position' = committed' /\ stored' = committed'
    /\ UNCHANGED <<topic, limit, hand, processed, handled, stops, torn>>

\* The loop is left because --max-messages were processed.
Finish ==
    /\ phase = "running" /\ hand = 0 /\ MaxReached
    /\ Close
    /\ UNCHANGED <<stops, torn>>

\* Nothing catches the OverflowError; the finally clause closes the consumer.
Raises ==
    /\ hand # 0 /\ topic[hand] = "overflowing"
    /\ Close
    /\ UNCHANGED <<stops, torn>>

HandIsValid == hand # 0 /\ topic[hand] = "valid"

StopCounted ==
    /\ phase = "running" /\ stops < MaxStops
    /\ stops' = stops + 1
    /\ torn' = torn + (IF HandIsValid THEN 1 ELSE 0)

\* Ctrl+C anywhere in the loop, or poll returning an error, which is raised: the
\* finally clause closes the consumer.
Interrupted ==
    /\ StopCounted
    /\ Close

\* SIGTERM or SIGKILL: no finally clause runs.
Killed ==
    /\ StopCounted
    /\ phase' = "stopped"
    /\ hand' = 0
    /\ position' = committed /\ stored' = committed
    /\ UNCHANGED <<topic, limit, committed, processed, handled>>

Handle == HandleValid \/ PassOver

Next ==
    \/ \E kind \in Kind : Produce(kind)
    \/ Start \/ Poll \/ PollTimesOut \/ Handle \/ AutoCommit \/ Finish \/ Raises
    \/ Interrupted \/ Killed

Spec == Init /\ [][Next]_vars

\* The loop polls for ever, the commit thread ticks every few seconds, whoever runs
\* the consumer starts it again, and the broker is not unreachable each time the
\* consumer closes.
FairSpec ==
    /\ Spec
    /\ WF_vars(Start) /\ WF_vars(Poll) /\ WF_vars(Handle) /\ WF_vars(AutoCommit)
    /\ WF_vars(Raises) /\ SF_vars(Raises /\ committed' = stored)
    /\ WF_vars(Finish) /\ SF_vars(Finish /\ committed' = stored)

-----------------------------------------------------------------------------
(* Properties.                                                             *)

\* Valid messages the group will not see again and nobody has handled.
Lost == {o \in 1 .. committed : topic[o] = "valid" /\ o \notin handled}

\* Committing before handling loses at most one message for each stop that met a
\* valid one in hand: a consumer that is stopped between two messages, by
\* --max-messages or by an exception of its own, loses none, however often it was
\* started and whenever the thread committed.
LossIsBounded == Cardinality(Lost \ {hand}) <= torn

\* The group's offset gets past every message, those that end the process included:
\* what poll stored before the exception is committed on the way out.
EveryMessagePassed == \A n \in Offsets : Len(topic) >= n ~> committed >= n

=============================================================================
