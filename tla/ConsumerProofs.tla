--------------------------- MODULE ConsumerProofs ---------------------------
(* The invariants of ConsumerProperties hold for any partitions, any       *)
(* messages and any bound.                                                 *)
EXTENDS ConsumerProperties, TLAPS

\* Before the first start nothing is committed, settled or in hand.
LEMMA InvariantInit == Init => IInv
  BY LogAssumption
  DEF Init, IInv, TypeOK, CommittedSettled, SettledInOrder, OneRepeated, PositionOK,
      Busy, Done, NoMessage

\* A message at the end of a log is beyond everything the invariant speaks of.
LEMMA ProduceInvariant ==
    ASSUME IInv, NEW p \in Partition, Produce(p) PROVE IInv'
  <1> USE DEF Produce, Busy, Done
  <1>1. TypeOK'
    BY LogAssumption DEF IInv, TypeOK
  <1>2. CommittedSettled' /\ SettledInOrder' /\ OneRepeated'
    BY DEF IInv, CommittedSettled, SettledInOrder, OneRepeated
  <1>3. PositionOK'
    BY LogAssumption DEF IInv, TypeOK, PositionOK
  <1>4. QED
    BY <1>1, <1>2, <1>3 DEF IInv

\* A start goes to the committed offset, or passes over what the log holds.
LEMMA StartInvariant == ASSUME IInv, Start PROVE IInv'
  <1> USE DEF Start, Busy, Done, brokerVars
  <1>1. TypeOK'
    BY LogAssumption DEF IInv, TypeOK
  <1>2. CommittedSettled' /\ SettledInOrder' /\ OneRepeated'
    BY DEF IInv, TypeOK, CommittedSettled, SettledInOrder, OneRepeated
  <1>3. PositionOK'
    BY LogAssumption
    DEF IInv, TypeOK, PositionOK, CommittedSettled, OneRepeated
  <1>4. QED
    BY <1>1, <1>2, <1>3 DEF IInv

\* The position passes the message that comes into hand.
LEMMA ReceiveInvariant ==
    ASSUME IInv, NEW p \in Partition, Receive(p) PROVE IInv'
  <1> USE DEF Receive, Busy, Done, brokerVars
  <1>1. TypeOK'
    BY LogAssumption DEF IInv, TypeOK
  <1>2. CommittedSettled' /\ SettledInOrder' /\ OneRepeated'
    BY DEF IInv, CommittedSettled, SettledInOrder, OneRepeated
  <1>3. PositionOK'
    <2>1. None \notin Nat
      BY LogAssumption
    <2>2. QED
      BY <2>1 DEF IInv, TypeOK, PositionOK
  <1>4. QED
    BY <1>1, <1>2, <1>3 DEF IInv

\* A message in hand is handled or skipped, and the commit comes next.
LEMMA SettleInvariant ==
    ASSUME IInv, pc = "process", Settle, pc' \in {"commit", "skip"},
           UNCHANGED <<brokerVars, position, msg, missed>>
    PROVE  IInv'
  <1> USE DEF Settle, Busy, Done, brokerVars
  <1>1. TypeOK'
    BY LogAssumption DEF IInv, TypeOK
  <1>2. CommittedSettled'
    BY DEF IInv, TypeOK, CommittedSettled
  <1>3. SettledInOrder'
    BY DEF IInv, TypeOK, SettledInOrder, PositionOK
  <1>4. OneRepeated'
    BY DEF IInv, TypeOK, OneRepeated, PositionOK
  <1>5. PositionOK'
    BY LogAssumption DEF IInv, TypeOK, PositionOK
  <1>6. QED
    BY <1>1, <1>2, <1>3, <1>4, <1>5 DEF IInv

\* A message in hand is sought again; what was done for it, and the commit, may be stored.
LEMMA SeekBackInvariant ==
    ASSUME IInv, Busy, SeekBack,
           UNCHANGED settled \/ (pc = "process" /\ Settle),
           UNCHANGED committed \/ (pc # "process" /\ committed' = position),
           UNCHANGED <<logEnd, missed>>
    PROVE  IInv'
  <1> USE DEF Settle, SeekBack, Busy, Done, NoMessage
  <1>1. TypeOK'
    BY LogAssumption DEF IInv, TypeOK, PositionOK
  <1>2. CommittedSettled'
    BY DEF IInv, TypeOK, CommittedSettled, PositionOK
  <1>3. SettledInOrder'
    <2>1. CASE UNCHANGED settled
      BY <2>1 DEF IInv, TypeOK, SettledInOrder, PositionOK
    <2>2. CASE pc = "process" /\ Settle
      BY <2>2 DEF IInv, TypeOK, SettledInOrder, PositionOK
    <2>3. QED
      BY <2>1, <2>2
  <1>4. OneRepeated'
    BY DEF IInv, TypeOK, OneRepeated, PositionOK
  <1>5. PositionOK'
    <2>1. CASE UNCHANGED settled
      BY <2>1, LogAssumption DEF IInv, TypeOK, PositionOK
    <2>2. CASE pc = "process" /\ Settle
      BY <2>2, LogAssumption DEF IInv, TypeOK, PositionOK
    <2>3. QED
      BY <2>1, <2>2
  <1>6. QED
    BY <1>1, <1>2, <1>3, <1>4, <1>5 DEF IInv

\* The positions that are committed have passed only what is done.
LEMMA CommitInvariant == ASSUME IInv, Commit PROVE IInv'
  <1> USE DEF Commit, Busy, Done, NoMessage
  <1>1. TypeOK'
    BY LogAssumption DEF IInv, TypeOK
  <1>2. CommittedSettled' /\ SettledInOrder' /\ OneRepeated'
    BY DEF IInv, TypeOK, CommittedSettled, SettledInOrder, OneRepeated, PositionOK
  <1>3. PositionOK'
    BY LogAssumption DEF IInv, TypeOK, PositionOK
  <1>4. QED
    BY <1>1, <1>2, <1>3 DEF IInv

\* The process ends; what was done for the message in hand, and the commit, may be stored.
LEMMA StopInvariant ==
    ASSUME IInv, Stop,
           UNCHANGED settled \/ (pc = "process" /\ Settle),
           UNCHANGED committed \/ (pc = "skip" /\ committed' = position),
           UNCHANGED <<logEnd, missed>>
    PROVE  IInv'
  <1> USE DEF Settle, Stop, Busy, Done, NoMessage
  <1>1. TypeOK'
    BY LogAssumption DEF IInv, TypeOK, PositionOK
  <1>2. CommittedSettled'
    <2>1. CASE UNCHANGED settled
      BY <2>1 DEF IInv, TypeOK, CommittedSettled, PositionOK
    <2>2. CASE pc = "process" /\ Settle
      BY <2>2 DEF IInv, TypeOK, CommittedSettled, PositionOK
    <2>3. QED
      BY <2>1, <2>2
  <1>3. SettledInOrder'
    BY DEF IInv, TypeOK, SettledInOrder, PositionOK
  <1>4. OneRepeated'
    <2>1. CASE UNCHANGED settled
      BY <2>1 DEF IInv, TypeOK, OneRepeated, PositionOK
    <2>2. CASE pc = "process" /\ Settle
      BY <2>2 DEF IInv, TypeOK, OneRepeated, PositionOK
    <2>3. QED
      BY <2>1, <2>2
  <1>5. PositionOK'
    <2>1. CASE UNCHANGED settled
      BY <2>1, LogAssumption DEF IInv, TypeOK, PositionOK
    <2>2. CASE pc = "process" /\ Settle
      BY <2>2, LogAssumption DEF IInv, TypeOK, PositionOK
    <2>3. QED
      BY <2>1, <2>2
  <1>6. QED
    BY <1>1, <1>2, <1>3, <1>4, <1>5 DEF IInv

\* Every step of the consumer and of the broker keeps the invariant.
LEMMA InvariantStep == IInv /\ [Next]_vars => IInv'
  <1> SUFFICES ASSUME IInv, [Next]_vars PROVE IInv'
    OBVIOUS
  <1>1. CASE \E p \in Partition : Produce(p)
    BY <1>1, ProduceInvariant
  <1>2. CASE \E p \in Partition : Receive(p)
    BY <1>2, ReceiveInvariant
  <1>3. CASE SkipMalformed \/ Dispatch \/ SkipNotFound
    BY <1>3, SettleInvariant DEF SkipMalformed, Dispatch, SkipNotFound, CanDispatch
  <1>4. CASE DispatchFails
    BY <1>4, SeekBackInvariant DEF DispatchFails, CanDispatch, Busy, brokerVars
  <1>5. CASE CommitFails
    BY <1>5, SeekBackInvariant DEF CommitFails, Busy
  <1>6. CASE Commit
    BY <1>6, CommitInvariant
  <1>7. CASE SkipCommitFails
    BY <1>7, StopInvariant DEF SkipCommitFails
  <1>8. CASE Crash \/ DecodeFails
    BY <1>8, StopInvariant DEF Crash, DecodeFails, CanDispatch, brokerVars
  <1>9. CASE Start
    BY <1>9, StartInvariant
  <1>10. CASE UNCHANGED vars
    BY <1>10
    DEF vars, brokerVars, IInv, TypeOK, CommittedSettled, SettledInOrder, OneRepeated,
        PositionOK, Busy, Done
  <1>11. QED
    BY <1>1, <1>2, <1>3, <1>4, <1>5, <1>6, <1>7, <1>8, <1>9, <1>10
    DEF Next, Process

\* The conjunction of the invariants and of what the process has passed is inductive.
THEOREM Invariant == Spec => []IInv
  BY InvariantInit, InvariantStep, PTL DEF Spec

\* Neither the group nor the process is ever beyond the end of a log.
THEOREM TypeCorrect == Spec => []TypeOK
  <1>1. IInv => TypeOK
    BY DEF IInv
  <1>2. QED
    BY <1>1, Invariant, PTL

\* Committing all positions after every message never commits one that is not done.
THEOREM CommitLosesNothing == Spec => []CommittedSettled
  <1>1. IInv => CommittedSettled
    BY DEF IInv
  <1>2. QED
    BY <1>1, Invariant, PTL

\* A partition's messages take effect in order, under failures, seeks and restarts.
THEOREM EffectsInOrder == Spec => []SettledInOrder
  <1>1. IInv => SettledInOrder
    BY DEF IInv
  <1>2. QED
    BY <1>1, Invariant, PTL

\* At most one message of a partition is handled again after a restart.
THEOREM AtMostOneRepeated == Spec => []OneRepeated
  <1>1. IInv => OneRepeated
    BY DEF IInv
  <1>2. QED
    BY <1>1, Invariant, PTL
============================================================================
