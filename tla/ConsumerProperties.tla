------------------------- MODULE ConsumerProperties -------------------------
(* What is claimed of KafkaConsumer.                                       *)
EXTENDS KafkaConsumer

Busy == pc \in {"process", "commit", "skip"}

\* Offsets are offsets, and neither the group nor the process is beyond the log: a group
\* that committed one too many would skip the next message.
TypeOK ==
    /\ logEnd \in [Partition -> 0 .. MaxLog]
    /\ committed \in [Partition -> Nat \cup {None}]
    /\ position \in [Partition -> Nat]
    /\ pc \in {"stopped", "poll", "process", "commit", "skip"}
    /\ msg \in [partition : Partition \cup {None}, offset : Nat \cup {None}]
    /\ Busy => msg.partition \in Partition /\ msg.offset \in Nat
    /\ settled \in [Partition -> SUBSET Nat]
    /\ missed \in [Partition -> SUBSET Nat]
    /\ \A p \in Partition :
        /\ position[p] <= logEnd[p]
        /\ committed[p] # None => committed[p] <= logEnd[p]

Done(p) == settled[p] \cup missed[p]

\* No message is lost by a commit, although it commits the positions of all partitions
\* and not the message in hand: what lies before a committed offset was handled, or
\* skipped on purpose, or older than the first commit (consumer.py:173-192).
CommittedSettled ==
    \A p \in Partition :
        committed[p] # None => 0 .. committed[p] - 1 \subseteq Done(p)

\* The messages of a partition take effect in their order, whatever fails and restarts
\* between them (consumer.py:192).
SettledInOrder ==
    \A p \in Partition : \A o \in settled[p] : 0 .. o \subseteq Done(p)

\* Once a partition has a committed offset, at most one of its messages is handled again
\* after a restart, the one at that offset: failed commits do not pile up
\* (consumer.py:174, 185-192).
OneRepeated ==
    \A p \in Partition :
        committed[p] # None => \A o \in settled[p] : o <= committed[p]

\* A message whose bytes are not text waits in a log: each start reads it again and ends.
Blocked ==
    \E p \in Partition : \E o \in Undecodable[p] : o < logEnd[p] /\ o \notin missed[p]

\* While no message blocks the process, every message is handled or skipped in the end, or
\* was passed over at a start, unless one before it in its partition always fails; a
\* partition that such a failure holds up does not hold up the others, and none is passed
\* over that the group's first commit left to do (consumer.py:185-192,
\* application.py:51-56).
EverySettled ==
    \A p \in Partition, o \in Offset : 0 .. o \cap Poison[p] = {} =>
        \/ <>[]Blocked
        \/ /\ o < logEnd[p] ~> o \in Done(p)
           /\ o < logEnd[p] /\ committed[p] # None /\ committed[p] <= o
                ~> o \in settled[p]

---------------------------------------------------------------------------
(* What the repository says of the program and the code does not do.       *)

\* test_confirmation_consumer.py:276-283 and consumer.py:162-168: a message that is not JSON
\* is malformed, and is logged, skipped and committed; so in the end each of them is done,
\* where no message before it always fails.
MalformedSkipped ==
    \A p \in Partition, o \in Offset :
        o \in Malformed[p] \cup Undecodable[p] /\ 0 .. o \cap Poison[p] = {}
            => (o < logEnd[p] ~> o \in Done(p))

---------------------------------------------------------------------------
(* Why the invariants hold.                                                *)

\* The process has passed only what is done and the message in hand, which it sought from
\* no further than the committed offset.
PositionOK ==
    /\ Busy => position[msg.partition] = msg.offset + 1
    /\ \A p \in Partition :
        /\ \A o \in 0 .. position[p] - 1 :
            o \in Done(p) \/ (pc = "process" /\ msg = [partition |-> p, offset |-> o])
        /\ \A o \in settled[p] : o < logEnd[p]
        /\ pc # "stopped" =>
            /\ \A o \in settled[p] :
                IF Busy /\ msg.partition = p THEN o < position[p] ELSE o <= position[p]
            /\ committed[p] # None =>
                \/ position[p] <= committed[p]
                \/ Busy /\ msg.partition = p /\ position[p] = committed[p] + 1

IInv ==
    TypeOK /\ CommittedSettled /\ SettledInOrder /\ OneRepeated /\ PositionOK
============================================================================
