--------------------------- MODULE KafkaConsumer ---------------------------
(* The consumer of event-service's topics: one process of the group, which *)
(* handles one message at a time and commits by hand.                      *)
(*                                                                         *)
(* commit() stores the positions of all partitions, not of the message in  *)
(* hand; it may fail, and may be stored although it fails.  A message that *)
(* does not parse is skipped, unless its bytes are not even text: that     *)
(* error is caught by nobody and ends the process, as does a commit that   *)
(* fails after a skipped message.  A message that fails is sought again.   *)
(* The process may die at any await; somebody starts it again.             *)
(*                                                                         *)
(* What a handled message does is ConfirmationService; here it is settled. *)
EXTENDS Integers

CONSTANTS
    Partition,
    MaxLog,     \* bound: messages of a partition
    Malformed,  \* per partition, the offsets of messages that do not parse,
    Undecodable,\* of messages whose bytes are not text,
    Poison,     \* and of messages whose handling always raises
    None        \* no committed offset

Offset == 0 .. MaxLog - 1

ASSUME LogAssumption ==
    /\ MaxLog \in Nat
    /\ Malformed \in [Partition -> SUBSET Offset]
    /\ Undecodable \in [Partition -> SUBSET Offset]
    /\ \A p \in Partition : Malformed[p] \cap Undecodable[p] = {}
    /\ Poison \in [Partition -> SUBSET Offset]
    /\ None \notin Nat

VARIABLES
    logEnd,     \* the offset after the last message of a partition
    committed,  \* the offset that the group has committed, or None
    position,   \* the offset of the next message that the process receives
    pc,         \* where _process is suspended
    msg,        \* the partition and the offset of the message in hand
    settled,    \* offsets that were handled, or skipped on purpose
    missed      \* offsets that a start without a committed offset passed over

brokerVars == <<logEnd, committed>>
vars == <<brokerVars, position, pc, msg, settled, missed>>

NoMessage == [partition |-> None, offset |-> None]

Init ==
    /\ logEnd = [p \in Partition |-> 0]
    /\ committed = [p \in Partition |-> None]
    /\ position = [p \in Partition |-> 0]
    /\ pc = "stopped"
    /\ msg = NoMessage
    /\ settled = [p \in Partition |-> {}]
    /\ missed = [p \in Partition |-> {}]

---------------------------------------------------------------------------
(* event-service, and the start of the process.                            *)

Produce(p) ==
    /\ logEnd[p] < MaxLog
    /\ logEnd' = [logEnd EXCEPT ![p] = @ + 1]
    /\ UNCHANGED <<committed, position, pc, msg, settled, missed>>

\* Mutant: a restart reads the partitions from their beginning.
StartOver ==
    /\ pc = "stopped"
    /\ position' = [p \in Partition |-> 0]
    /\ pc' = "poll"
    /\ UNCHANGED <<brokerVars, msg, settled, missed>>

\* auto_offset_reset has its default, "latest".
Start ==
    /\ pc = "stopped"
    /\ position' = [p \in Partition |->
                      IF committed[p] = None THEN logEnd[p] ELSE committed[p]]
    /\ missed' = [p \in Partition |->
                    IF committed[p] = None
                    THEN missed[p] \cup ((0 .. logEnd[p] - 1) \ settled[p])
                    ELSE missed[p]]
    /\ pc' = "poll"
    /\ UNCHANGED <<brokerVars, msg, settled>>

---------------------------------------------------------------------------
(* KafkaConsumerController                                                 *)

\* Mutant: offsets are committed when messages are received.
ReceiveCommitting(p) ==
    /\ pc = "poll"
    /\ position[p] < logEnd[p]
    /\ msg' = [partition |-> p, offset |-> position[p]]
    /\ position' = [position EXCEPT ![p] = @ + 1]
    /\ committed' = position'
    /\ pc' = "process"
    /\ UNCHANGED <<logEnd, settled, missed>>

Receive(p) ==
    /\ pc = "poll"
    /\ position[p] < logEnd[p]
    /\ msg' = [partition |-> p, offset |-> position[p]]
    /\ position' = [position EXCEPT ![p] = @ + 1]
    /\ pc' = "process"
    /\ UNCHANGED <<brokerVars, settled, missed>>

Settle == settled' = [settled EXCEPT ![msg.partition] = @ \cup {msg.offset}]

\* JSONDecodeError, ValidationError, TypeError: the message is logged and skipped.
SkipMalformed ==
    /\ pc = "process"
    /\ msg.offset \in Malformed[msg.partition]
    /\ Settle
    /\ pc' = "skip"
    /\ UNCHANGED <<brokerVars, position, msg, missed>>

CanDispatch ==
    /\ pc = "process"
    /\ msg.offset \notin Malformed[msg.partition]
    /\ msg.offset \notin Undecodable[msg.partition]

Dispatch ==
    /\ CanDispatch
    /\ msg.offset \notin Poison[msg.partition]
    /\ Settle
    /\ pc' = "commit"
    /\ UNCHANGED <<brokerVars, position, msg, missed>>

\* The team or the track does not exist.
SkipNotFound ==
    /\ CanDispatch
    /\ msg.offset \notin Poison[msg.partition]
    /\ Settle
    /\ pc' = "skip"
    /\ UNCHANGED <<brokerVars, position, msg, missed>>

\* Mutant: a message that fails is only logged.
LogOnly == UNCHANGED position /\ pc' = "poll" /\ msg' = NoMessage

SeekBack ==
    /\ position' = [position EXCEPT ![msg.partition] = msg.offset]
    /\ pc' = "poll"
    /\ msg' = NoMessage

\* The service raises anything else: its effects may be stored all the same.
DispatchFails ==
    /\ CanDispatch
    /\ \/ UNCHANGED settled
       \/ msg.offset \notin Poison[msg.partition] /\ Settle
    /\ SeekBack
    /\ UNCHANGED <<brokerVars, missed>>

\* Mutant: the offset after the next message is committed.
CommitNext ==
    /\ pc \in {"commit", "skip"}
    /\ committed' = [p \in Partition |-> position[p] + 1]
    /\ pc' = "poll"
    /\ msg' = NoMessage
    /\ UNCHANGED <<logEnd, position, settled, missed>>

Commit ==
    /\ pc \in {"commit", "skip"}
    /\ committed' = position
    /\ pc' = "poll"
    /\ msg' = NoMessage
    /\ UNCHANGED <<logEnd, position, settled, missed>>

\* Mutant: a commit that fails is left to the next one.
CommitFailsGoingOn ==
    /\ pc = "commit"
    /\ committed' \in {committed, position}
    /\ LogOnly
    /\ UNCHANGED <<logEnd, settled, missed>>

\* The commit after a handled message is inside the try.
CommitFails ==
    /\ pc = "commit"
    /\ committed' \in {committed, position}
    /\ SeekBack
    /\ UNCHANGED <<logEnd, settled, missed>>

Stop ==
    /\ pc' = "stopped"
    /\ position' = [p \in Partition |-> 0]
    /\ msg' = NoMessage

\* json.loads raises UnicodeDecodeError for bytes that are not text, which is none of the
\* three errors that are caught: start() raises and the process ends.
DecodeFails ==
    /\ pc = "process"
    /\ msg.offset \in Undecodable[msg.partition]
    /\ Stop
    /\ UNCHANGED <<brokerVars, settled, missed>>

\* The commit after a skipped message is outside the try: start() raises.
SkipCommitFails ==
    /\ pc = "skip"
    /\ committed' \in {committed, position}
    /\ Stop
    /\ UNCHANGED <<logEnd, settled, missed>>

\* The process dies, after or before the service has saved.
Crash ==
    /\ pc # "stopped"
    /\ \/ UNCHANGED settled
       \/ CanDispatch /\ msg.offset \notin Poison[msg.partition] /\ Settle
    /\ Stop
    /\ UNCHANGED <<brokerVars, missed>>

Process == SkipMalformed \/ DecodeFails \/ Dispatch \/ SkipNotFound \/ DispatchFails

Next ==
    \/ \E p \in Partition : Produce(p) \/ Receive(p)
    \/ Process \/ Commit \/ CommitFails \/ SkipCommitFails
    \/ Start \/ Crash

Spec == Init /\ [][Next]_vars

\* The process is started again and goes on; a partition with messages is not passed over
\* forever; of a partition, not every commit fails, and not every handling of a message
\* that parses, Poison apart.  A message in Malformed is skipped unless the process dies
\* just then, each time; of one in Undecodable nothing is assumed.
FairSpec ==
    /\ Spec
    /\ WF_vars(Start)
    /\ WF_vars(Process)
    /\ \A p \in Partition :
        /\ SF_vars(Receive(p))
        /\ SF_vars((SkipMalformed \/ Dispatch) /\ msg.partition = p)
        /\ SF_vars(Commit /\ msg.partition = p)
============================================================================
