---------------------------- MODULE SystemProofs ----------------------------
(* What the composition inherits from its parts, and what it adds, for any *)
(* history of messages, any requests and any number of faults.             *)
EXTENDS SystemProperties, ServiceProofs, FiniteSetTheorems

C == INSTANCE ConsumerProofs WITH
    pc <- consuming,
    Undecodable <- [p \in Partition |-> {}],
    Poison <- [p \in Partition |-> {}]

---------------------------------------------------------------------------
(* The offsets of a history.                                               *)

\* The messages before the i-th in its partition.
Before(i) == {j \in 1 .. i - 1 : History[j].partition = History[i].partition}

\* A message is of a partition, and asks for what a message of event-service may ask.
LEMMA HistoryType ==
    ASSUME NEW i \in DOMAIN History
    PROVE  /\ History[i].partition \in Partition
           /\ History[i].request # None =>
                History[i].request \in Inbox[Consumer] /\ History[i].request.op \in MessageOps
  <1> DEFINE Message == [partition : Partition, request : Request \cup {None}]
  <1>1. History \in Seq(Message)
    BY HistoryAssumption
  <1>2. History[i] \in Message
    <2> HIDE DEF Message
    <2>1. QED
      BY <1>1
  <1>3. QED
    BY <1>2, HistoryAssumption

\* An offset counts the earlier messages of the partition, and is below the history's length.
LEMMA OffsetBound ==
    ASSUME NEW i \in DOMAIN History
    PROVE  /\ IsFiniteSet(Before(i))
           /\ OffsetOf[i] = Cardinality(Before(i))
           /\ OffsetOf[i] \in 0 .. MaxLog - 1
  <1>1. i \in Nat /\ 1 <= i /\ i <= MaxLog /\ MaxLog \in Nat
    BY HistoryAssumption DEF MaxLog
  <1>2. IsFiniteSet(1 .. i - 1) /\ Cardinality(1 .. i - 1) = i - 1
    <2>1. 1 \in Int /\ i - 1 \in Int
      BY <1>1
    <2>2. QED
      BY <1>1, <2>1, FS_Interval
  <1>3. IsFiniteSet(Before(i)) /\ Cardinality(Before(i)) <= i - 1
    BY <1>2, FS_Subset DEF Before
  <1>4. Cardinality(Before(i)) \in Nat
    BY <1>3, FS_CardinalityType
  <1>5. OffsetOf[i] = Cardinality(Before(i))
    BY DEF OffsetOf, Before
  <1>6. QED
    BY <1>1, <1>3, <1>4, <1>5

\* Two messages of a partition have different offsets.
LEMMA OffsetUnique ==
    ASSUME NEW i \in DOMAIN History, NEW j \in DOMAIN History,
           History[i].partition = History[j].partition, OffsetOf[i] = OffsetOf[j]
    PROVE  i = j
  <1>1. i \in Nat /\ j \in Nat
    BY HistoryAssumption
  <1>2. ASSUME NEW a \in DOMAIN History, NEW b \in DOMAIN History, a < b,
               History[a].partition = History[b].partition
        PROVE  OffsetOf[a] < OffsetOf[b]
    <2>1. a \in Nat /\ b \in Nat /\ 1 <= a
      BY HistoryAssumption
    <2>2. Before(a) \cup {a} \subseteq Before(b)
      BY <1>2, <2>1 DEF Before
    <2>3. a \notin Before(a)
      BY <2>1 DEF Before
    <2>4. Cardinality(Before(a) \cup {a}) = Cardinality(Before(a)) + 1
      BY <2>3, OffsetBound, FS_AddElement
    <2>5. Cardinality(Before(a) \cup {a}) <= Cardinality(Before(b))
      BY <2>2, OffsetBound, FS_Subset
    <2>6. QED
      BY <2>4, <2>5, OffsetBound
  <1>3. OffsetOf[i] \in Nat
    BY OffsetBound
  <1>4. QED
    BY <1>1, <1>2, <1>3

---------------------------------------------------------------------------
(* The consumer.                                                           *)

\* The history is one of the logs that ConsumerProofs is about.
LEMMA LogAssumptionHolds == C!LogAssumption
  <1>1. MaxLog \in Nat
    BY HistoryAssumption DEF MaxLog
  <1>2. Malformed \in [Partition -> SUBSET (0 .. MaxLog - 1)]
    BY OffsetBound DEF Malformed
  <1>3. None \notin Nat
    BY NoneAssumption
  <1>4. QED
    BY <1>1, <1>2, <1>3 DEF C!LogAssumption, C!Offset

\* Each step of the process is one of the consumer's, or leaves the consumer alone.
LEMMA ConsumerStep == [SystemNext]_sysVars => [K!Next]_K!vars
  <1> SUFFICES ASSUME [SystemNext]_sysVars PROVE K!Next \/ UNCHANGED K!vars
    OBVIOUS
  <1>1. ASSUME NEW i \in DOMAIN History, Publish(i) PROVE K!Next
    <2>1. History[i].partition \in Partition
      BY HistoryType
    <2>2. QED
      BY <1>1, <2>1 DEF Publish, K!Next
  <1>2. CASE \E p \in Partition : Receive(p)
    BY <1>2 DEF Receive, K!Next
  <1>3. CASE Start \/ SkipMalformed \/ Commit \/ CommitFails \/ SkipCommitFails \/ Crash
    BY <1>3 DEF Start, SkipMalformed, Commit, CommitFails, SkipCommitFails, Crash,
                K!Next, K!Process
  <1>4. CASE Return \/ Skip \/ Refused \/ ConnectionLost
    BY <1>4 DEF Return, Skip, Refused, ConnectionLost, K!Next, K!Process
  <1>5. CASE UNCHANGED consumerVars
    BY <1>5 DEF consumerVars, K!vars, K!brokerVars
  <1>6. QED
    BY <1>1, <1>2, <1>3, <1>4, <1>5
    DEF SystemNext, Handle, BeginMessage, Proceed, Http, SetRule, sysVars

\* The consumer of the system is the one of KafkaConsumer: what is proved of that one, for
\* messages that fail at will, holds here, where the tables decide which fail.
THEOREM SystemImplementsConsumer == SystemSpec => K!Spec
  <1>1. SystemInit => K!Init
    BY DEF SystemInit
  <1>2. QED
    BY <1>1, ConsumerStep, PTL DEF SystemSpec, K!Spec

\* Offsets, positions and what is settled stay as they are proved to be in ConsumerProofs.
LEMMA ConsumerInvariant == SystemSpec => []K!IInv
  <1>1. C!Spec => []C!IInv
    BY LogAssumptionHolds, C!Invariant
  <1>2. C!Init <=> K!Init
    BY DEF C!Init, K!Init, C!NoMessage, K!NoMessage
  <1>3. [K!Next]_K!vars => [C!Next]_C!vars
    BY DEF K!Next, K!Process, K!Produce, K!Receive, K!Start, K!SkipMalformed, K!Dispatch,
           K!SkipNotFound, K!DispatchFails, K!Commit, K!CommitFails, K!SkipCommitFails,
           K!DecodeFails, K!Crash, K!CanDispatch, K!Settle, K!SeekBack, K!Stop, K!NoMessage, K!brokerVars,
           K!vars,
           C!Next, C!Process, C!Produce, C!Receive, C!Start, C!SkipMalformed, C!Dispatch,
           C!SkipNotFound, C!DispatchFails, C!Commit, C!CommitFails, C!SkipCommitFails,
           C!DecodeFails, C!Crash, C!CanDispatch, C!Settle, C!SeekBack, C!Stop, C!NoMessage, C!brokerVars,
           C!vars
  <1>4. C!IInv => K!IInv
    BY DEF K!IInv, K!TypeOK, K!CommittedSettled, K!SettledInOrder, K!OneRepeated,
           K!PositionOK, K!Busy, K!Done,
           C!IInv, C!TypeOK, C!CommittedSettled, C!SettledInOrder, C!OneRepeated,
           C!PositionOK, C!Busy, C!Done
  <1>5. QED
    BY <1>1, <1>2, <1>3, <1>4, SystemImplementsConsumer, PTL DEF C!Spec, K!Spec

---------------------------------------------------------------------------
(* The message in hand.                                                    *)

\* At most one message is in hand.
LEMMA SameOffset ==
    ASSUME NEW i \in DOMAIN History, NEW j \in DOMAIN History, InHand(i), InHand(j)
    PROVE  i = j
  <1>1. History[i].partition = History[j].partition /\ OffsetOf[i] = OffsetOf[j]
    BY DEF InHand
  <1>2. QED
    BY <1>1, OffsetUnique

\* What the consumer is about to ask of the service is what the message in hand asks.
LEMMA ReceivedInHand ==
    ASSUME NEW i \in DOMAIN History, InHand(i)
    PROVE  Received = History[i].request
  <1> DEFINE c == CHOOSE j \in DOMAIN History : InHand(j)
  <1>1. c \in DOMAIN History /\ InHand(c)
    OBVIOUS
  <1>2. c = i
    BY <1>1, SameOffset
  <1>3. QED
    BY <1>2 DEF Received

\* A message that gets past the parser carries a request.
LEMMA WellFormed ==
    ASSUME NEW i \in DOMAIN History, InHand(i), K!CanDispatch
    PROVE  /\ History[i].request # None
           /\ History[i].request \in Inbox[Consumer]
           /\ History[i].request \in Request
           /\ History[i].request.op \in MessageOps
  <1>1. msg.partition = History[i].partition /\ msg.offset = OffsetOf[i]
    BY DEF InHand
  <1>2. History[i].partition \in Partition
    BY HistoryType
  <1>3. History[i].request # None
    BY <1>1, <1>2 DEF K!CanDispatch, Malformed
  <1>4. Inbox[Consumer] \subseteq Request
    BY InboxAssumption, SystemAssumption
  <1>5. QED
    BY <1>3, <1>4, HistoryType

\* Logs hold messages of the history only, and the consumer processes only such.
LEMMA LogStep ==
    ASSUME LogOK, HandOK, K!IInv, [SystemNext]_sysVars
    PROVE  LogOK' /\ HandOK'
  <1>1. logEnd \in [Partition -> Nat]
    BY LogAssumptionHolds DEF K!IInv, K!TypeOK, C!LogAssumption
  <1>2. ASSUME NEW i \in DOMAIN History, Publish(i)
        PROVE  LogOK' /\ HandOK'
    <2> DEFINE q == History[i].partition
    <2>1. q \in Partition /\ OffsetOf[i] = logEnd[q]
          /\ logEnd' = [logEnd EXCEPT ![q] = @ + 1]
          /\ UNCHANGED <<consuming, msg>>
      BY <1>2, HistoryType DEF Publish, K!Produce
    <2>2. ASSUME NEW p \in Partition, NEW o \in 0 .. logEnd'[p] - 1
          PROVE  \E j \in DOMAIN History : History[j].partition = p /\ OffsetOf[j] = o
      <3>1. CASE p = q /\ o = logEnd[q]
        BY <2>1, <3>1
      <3>2. CASE ~(p = q /\ o = logEnd[q])
        <4>1. o \in 0 .. logEnd[p] - 1
          BY <1>1, <2>1, <3>2
        <4>2. QED
          BY <4>1 DEF LogOK
      <3>3. QED
        BY <3>1, <3>2
    <2>3. LogOK'
      BY <2>2 DEF LogOK
    <2>4. HandOK'
      BY <2>1 DEF HandOK, InHand
    <2>5. QED
      BY <2>3, <2>4
  <1>3. ASSUME NEW p \in Partition, Receive(p)
        PROVE  LogOK' /\ HandOK'
    <2>1. /\ position[p] \in Nat /\ position[p] < logEnd[p] /\ logEnd' = logEnd
          /\ msg' = [partition |-> p, offset |-> position[p]]
      BY <1>3 DEF Receive, K!Receive, K!brokerVars, K!IInv, K!TypeOK
    <2>2. PICK i \in DOMAIN History :
            History[i].partition = p /\ OffsetOf[i] = position[p]
      BY <1>1, <2>1 DEF LogOK
    <2>3. QED
      BY <2>1, <2>2 DEF LogOK, HandOK, InHand
  <1>4. CASE logEnd' = logEnd /\ (consuming' = "process" => consuming = "process" /\ msg' = msg)
    BY <1>4 DEF LogOK, HandOK, InHand
  <1>5. CASE UNCHANGED consumerVars
    BY <1>4, <1>5 DEF consumerVars
  <1>6. CASE Start \/ SkipMalformed \/ Commit \/ CommitFails \/ SkipCommitFails \/ Crash
    BY <1>4, <1>6
    DEF Start, SkipMalformed, Commit, CommitFails, SkipCommitFails, Crash, K!Start,
        K!SkipMalformed, K!Commit, K!CommitFails, K!SkipCommitFails, K!Crash, K!SeekBack,
        K!Stop, K!brokerVars
  <1>7. CASE Return \/ Skip \/ Refused \/ ConnectionLost
    BY <1>4, <1>7
    DEF Return, Skip, Refused, ConnectionLost, K!Dispatch, K!SkipNotFound,
        K!DispatchFails, K!SeekBack, K!brokerVars
  <1>8. QED
    BY <1>2, <1>3, <1>5, <1>6, <1>7
    DEF SystemNext, Handle, BeginMessage, Proceed, Http, SetRule, sysVars

\* These two need nothing of the service.
LEMMA HandInvariant == SystemSpec => [](LogOK /\ HandOK)
  <1>1. SystemInit => LogOK /\ HandOK
    BY DEF SystemInit, K!Init, LogOK, HandOK
  <1>2. (LogOK /\ HandOK) /\ K!IInv /\ [SystemNext]_sysVars => (LogOK /\ HandOK)'
    BY LogStep
  <1>3. QED
    BY <1>1, <1>2, ConsumerInvariant, PTL DEF SystemSpec

---------------------------------------------------------------------------
(* The service.                                                            *)

\* A track's roles stored for a message are stored by an announcement that is in hand.
LEMMA RolesStep ==
    ASSUME HandOK, RolesStored
    PROVE  /\ UpdateTrackRoles(Consumer)
           /\ \E i \in DOMAIN History : InHand(i) /\ Asks(i, "roles")
           /\ UNCHANGED locals
  <1>1. PICK i \in DOMAIN History : InHand(i)
    BY DEF HandOK, RolesStored, K!CanDispatch
  <1>2. Received = History[i].request /\ Received # None /\ Received \in Inbox[Consumer]
    BY <1>1, ReceivedInHand, WellFormed DEF RolesStored
  <1>3. QED
    BY <1>1, <1>2 DEF RolesStored, UpdateTrackRoles, StoreTrackRoles, Asks

\* Each step of the process is one of the service's, or leaves the service alone.
LEMMA ServiceStep ==
    ASSUME HandOK, [SystemNext]_sysVars
    PROVE  [Next]_vars
  <1>1. Consumer \in Handlers
    BY SystemAssumption
  <1>2. ASSUME Effect PROVE Next
    BY <1>1, <1>2, RolesStep DEF Effect, Next, Call
  <1>3. CASE Return \/ Skip \/ Refused \/ ConnectionLost
    BY <1>1, <1>2, <1>3
    DEF Return, Skip, NotFound, Refused, ConnectionLost, Next, Call
  <1>4. CASE BeginMessage \/ Proceed
    BY <1>1, <1>4 DEF BeginMessage, Proceed, Next, Call
  <1>5. CASE SkipCommitFails \/ Crash
    BY <1>5 DEF SkipCommitFails, Crash, Next
  <1>6. CASE \/ \E h \in Handlers : Http(h)
             \/ \E k \in Tracks : SetRule(k)
    BY <1>6 DEF Http, SetRule, Next
  <1>7. CASE \/ \E i \in DOMAIN History : Publish(i)
             \/ \E p \in Partition : Receive(p)
             \/ Start \/ SkipMalformed \/ Commit \/ CommitFails
    BY <1>7 DEF Publish, Receive, Start, SkipMalformed, Commit, CommitFails
  <1>8. QED
    BY <1>3, <1>4, <1>5, <1>6, <1>7 DEF SystemNext, Handle, sysVars

\* The composition adds no behaviour to the service: whatever the consumer's outcomes, its
\* tables and calls go through steps of ConfirmationService, and what is proved of those
\* (RowCoherent, DecisionAnnounced) holds in the process.
THEOREM SystemImplementsService == SystemSpec => Spec
  <1>1. SystemInit => Init
    BY DEF SystemInit
  <1>2. HandOK /\ [SystemNext]_sysVars => [Next]_vars
    BY ServiceStep
  <1>3. QED
    BY <1>1, <1>2, HandInvariant, PTL DEF SystemSpec, Spec

\* Rows, deadlines and announced decisions stay as they are proved to be in ServiceProofs.
LEMMA ServiceInvariant == SystemSpec => []IInv
  BY SystemImplementsService, Invariant, PTL

---------------------------------------------------------------------------
(* What is stored stays.                                                   *)

\* A save leaves a row of its team and touches no other team and no track.
LEMMA SavedRow ==
    ASSUME IInv, NEW h \in Handlers, Save(h)
    PROVE  /\ app[h].id \in Teams
           /\ apps'[app[h].id] # None
           /\ \A t \in Teams \ {app[h].id} : apps'[t] = apps[t]
           /\ tracks' = tracks
  BY SaveWrites DEF Save, Application

\* An announcement leaves a row of its track and removes none (confirmation.py:135-138).
LEMMA StoredTrackStays ==
    ASSUME IInv, NEW r \in Request, r.op = "roles", StoreTrackRoles(r)
    PROVE  /\ tracks'[r.track] # None
           /\ \A k \in Tracks : tracks[k] # None => tracks'[k] # None
           /\ apps' = apps
  <1> DEFINE new == [rules |-> {}, max |-> 0, auto |-> FALSE, grace |-> 24]
  <1>1. new \in Config
    BY DEF Config
  <1>2. new # None
    BY <1>1, NoneAssumption
  <1>3. r.track \in Tracks
    BY RequestTrack
  <1>4. tracks' = [tracks EXCEPT ![r.track] =
                     IF tracks[r.track] = None THEN new ELSE tracks[r.track]]
        /\ apps' = apps
    BY DEF StoreTrackRoles
  <1> HIDE DEF new
  <1>5. QED
    BY <1>2, <1>3, <1>4 DEF IInv, TypeOK, TablesTypeOK

\* Nobody removes the row of a team or of a track.
LEMMA RowsStay ==
    ASSUME IInv, [Next]_vars
    PROVE  /\ \A t \in Teams : apps[t] # None => apps'[t] # None
           /\ \A k \in Tracks : tracks[k] # None => tracks'[k] # None
  <1>1. CASE UNCHANGED <<apps, tracks>>
    BY <1>1
  <1>2. ASSUME NEW h \in Handlers, Save(h) PROVE
           /\ \A t \in Teams : apps[t] # None => apps'[t] # None
           /\ \A k \in Tracks : tracks[k] # None => tracks'[k] # None
    BY <1>2, SavedRow
  <1>3. ASSUME NEW h \in Handlers, UpdateTrackRoles(h) PROVE
           /\ \A t \in Teams : apps[t] # None => apps'[t] # None
           /\ \A k \in Tracks : tracks[k] # None => tracks'[k] # None
    <2>1. Inbox[h] \subseteq Request
      BY InboxAssumption
    <2>2. QED
      BY <1>3, <2>1, StoredTrackStays DEF UpdateTrackRoles
  <1>4. ASSUME NEW k \in Tracks, CreateRule(k) PROVE
           /\ \A t \in Teams : apps[t] # None => apps'[t] # None
           /\ \A j \in Tracks : tracks[j] # None => tracks'[j] # None
    <2>1. PICK config \in Config : tracks' = [tracks EXCEPT ![k] = config] /\ apps' = apps
      BY <1>4, ConfigsAssumption DEF CreateRule
    <2>2. config # None
      BY NoneAssumption
    <2>3. QED
      BY <2>1, <2>2 DEF IInv, TypeOK, TablesTypeOK
  <1>5. ASSUME NEW h \in Handlers, Call(h), ~Save(h), ~UpdateTrackRoles(h)
        PROVE  UNCHANGED <<apps, tracks>>
    BY <1>5
    DEF Call, Begin, ApplicationNotFound, SubmitConfirmed, SubmitOrUpdate, LoadRow,
        ChangeRoster, Decide, GiveUp, TrackNotFound, LoadTrack, LoadRoles,
        ValidateApplication, WaitlistFull, WaitlistOpen, NextWaiting, NoneWaiting,
        SelectExpired, NoneExpired, SelectExpiredMembers, ExpireOne, SaveFails, tables
  <1>6. CASE ProcessEnds \/ Tick \/ UNCHANGED vars \/ \E h \in Handlers : Abort(h)
    BY <1>6, <1>1 DEF ProcessEnds, Tick, Abort, vars, tables
  <1>7. QED
    BY <1>1, <1>2, <1>3, <1>4, <1>5, <1>6 DEF Next

---------------------------------------------------------------------------
(* The call for the message in hand.                                       *)

\* What the handler of the consumer has in memory.
Own == <<pc[Consumer], request[Consumer], app[Consumer]>>

\* A call of another handler changes nothing of the consumer's own.
LEMMA OtherCall ==
    ASSUME IInv, NEW h \in Handlers, h # Consumer, Call(h) \/ Abort(h)
    PROVE  Own' = Own
  BY SystemAssumption, OthersKeep DEF Own, Memory

\* A creation is saved at once, by the step that follows its beginning.
LEMMA CreationSaves ==
    ASSUME IInv, pc[Consumer] # "idle", request[Consumer].op = "create"
    PROVE  pc[Consumer] \notin {"row", "members", "track", "roles", "count"}
  BY SystemAssumption, CallBefore DEF CallOK, OpsAt

\* No message asks for an expiry: a save of the consumer's handler ends its call.
LEMMA NoBatch ==
    ASSUME IInv, MessageOK, pc[Consumer] # "idle"
    PROVE  batch[Consumer] = {}
  <1>1. request[Consumer].op # "expire"
    BY DEF MessageOK, MessageOps
  <1>2. QED
    BY <1>1, SystemAssumption, CallBefore DEF CallOK

\* A call that finishes leaves its handler idle.
LEMMA Ends ==
    ASSUME IInv, Finish(Consumer)
    PROVE  pc'[Consumer] = "idle"
  BY SystemAssumption DEF Finish, Goto, IInv, TypeOK, LocalsTypeOK

\* What a message has asked for takes effect in the last step of its call.
LEMMA EffectEnds ==
    ASSUME IInv, MessageOK, Effect
    PROVE  pc'[Consumer] = "idle"
  <1>1. CASE RolesStored
    BY <1>1 DEF RolesStored, StoreTrackRoles, locals
  <1>2. CASE Save(Consumer)
    <2>1. batch[Consumer] = {}
      BY <1>2, NoBatch DEF Save
    <2>2. QED
      BY <1>2, <2>1, Ends DEF Save
  <1>3. QED
    BY <1>1, <1>2 DEF Effect

\* The open call stays the one of the message in hand, whatever other handlers do.
LEMMA MessageStep ==
    ASSUME IInv, HandOK, MessageOK, [SystemNext]_sysVars
    PROVE  MessageOK'
  <1>1. CASE Own' = Own /\ (pc[Consumer] # "idle" => UNCHANGED <<consuming, msg>>)
    BY <1>1 DEF Own, MessageOK, K!CanDispatch, InHand
  <1>2. CASE pc'[Consumer] = "idle"
    BY <1>2 DEF MessageOK
  <1>3. ASSUME BeginMessage PROVE MessageOK'
    <2>1. PICK i \in DOMAIN History : InHand(i)
      BY <1>3 DEF BeginMessage, K!CanDispatch, HandOK
    <2>2. PICK r \in Inbox[Consumer] :
            /\ r.op # "roles"
            /\ request' = [request EXCEPT ![Consumer] = r]
            /\ app' = [app EXCEPT ![Consumer] =
                          IF r.op = "create" THEN BuildApplication(r) ELSE None]
      BY <1>3 DEF BeginMessage, Begin
    <2>3. request'[Consumer] = r /\ (r.op = "create" => app'[Consumer].id = r.team)
      BY <2>2, SystemAssumption
      DEF IInv, TypeOK, LocalsTypeOK, BuildApplication, NewApplication
    <2>4. r = History[i].request /\ r.op \in MessageOps
      BY <1>3, <2>1, <2>3, ReceivedInHand, WellFormed DEF BeginMessage
    <2>5. ASSUME NEW j \in DOMAIN History, InHand(j)' PROVE j = i
      <3>1. InHand(j)
        BY <1>3, <2>5 DEF BeginMessage, consumerVars, InHand
      <3>2. QED
        BY <2>1, <3>1, SameOffset
    <2>6. K!CanDispatch'
      BY <1>3 DEF BeginMessage, consumerVars, K!CanDispatch
    <2>7. QED
      BY <2>2, <2>3, <2>4, <2>5, <2>6 DEF MessageOK
  <1>4. ASSUME Proceed PROVE MessageOK'
    <2>1. pc[Consumer] \in {"row", "members", "track", "roles", "count"}
          /\ request' = request
      BY <1>4
      DEF Proceed, SubmitOrUpdate, LoadRow, ChangeRoster, LoadTrack, LoadRoles,
          ValidateApplication
    <2>2. request[Consumer].op # "create"
      BY <2>1, CreationSaves
    <2>3. QED
      BY <1>4, <2>1, <2>2 DEF Proceed, consumerVars, MessageOK, K!CanDispatch, InHand
  <1>5. CASE Return
    <2>1. pc'[Consumer] = "idle"
      BY <1>5, EffectEnds, Ends DEF Return, SubmitConfirmed, GiveUp
    <2>2. QED
      BY <1>2, <2>1
  <1>6. CASE Skip \/ Refused
    <2>1. pc'[Consumer] = "idle"
      BY <1>6, Ends
      DEF Skip, NotFound, Refused, ApplicationNotFound, TrackNotFound, SaveFails
    <2>2. QED
      BY <1>2, <2>1
  <1>7. CASE ConnectionLost
    <2>1. pc'[Consumer] = "idle"
      BY <1>7, EffectEnds, Ends DEF ConnectionLost, Abort, vars, locals
    <2>2. QED
      BY <1>2, <2>1
  <1>8. CASE SkipCommitFails \/ Crash
    <2>1. pc'[Consumer] = "idle"
      BY <1>8, SystemAssumption DEF SkipCommitFails, Crash, ProcessEnds
    <2>2. QED
      BY <1>2, <2>1
  <1>9. ASSUME NEW h \in Handlers, Http(h) PROVE MessageOK'
    BY <1>1, <1>9, OtherCall DEF Http, consumerVars
  <1>10. ASSUME NEW k \in Tracks, SetRule(k) PROVE MessageOK'
    BY <1>1, <1>10 DEF SetRule, CreateRule, locals, consumerVars, Own
  <1>11. ASSUME NEW i \in DOMAIN History, Publish(i) PROVE MessageOK'
    BY <1>1, <1>11 DEF Publish, K!Produce, vars, locals, Own
  <1>12. CASE UNCHANGED vars /\ pc[Consumer] = "idle"
    BY <1>1, <1>12 DEF vars, locals, Own
  <1>13. CASE SkipMalformed
    <2>1. ~K!CanDispatch
      BY <1>13 DEF SkipMalformed, K!SkipMalformed, K!CanDispatch
    <2>2. QED
      BY <1>12, <1>13, <2>1 DEF SkipMalformed, MessageOK
  <1>14. CASE Start \/ Commit \/ CommitFails \/ \E p \in Partition : Receive(p)
    <2>1. consuming # "process" /\ UNCHANGED vars
      BY <1>14
      DEF Start, Commit, CommitFails, Receive, K!Start, K!Commit, K!CommitFails, K!Receive
    <2>2. QED
      BY <1>12, <2>1 DEF MessageOK, K!CanDispatch
  <1>15. CASE UNCHANGED sysVars
    BY <1>1, <1>15 DEF sysVars, vars, locals, consumerVars, Own
  <1>16. QED
    BY <1>3, <1>4, <1>5, <1>6, <1>7, <1>8, <1>9, <1>10, <1>11, <1>13, <1>14, <1>15
    DEF SystemNext, Handle

---------------------------------------------------------------------------
(* What is settled is stored.                                              *)

\* What was stored for a message stays stored.
LEMMA EffectStays ==
    ASSUME IInv, [Next]_vars, NEW i \in DOMAIN History, EffectStored(i)
    PROVE  EffectStored(i)'
  <1>1. History[i].request # None => History[i].request \in Request
    BY HistoryType, InboxAssumption, SystemAssumption
  <1>2. Asks(i, "create") => History[i].request.team \in Teams
    BY <1>1, RequestTeam DEF Asks
  <1>3. Asks(i, "roles") => History[i].request.track \in Tracks
    BY <1>1, RequestTrack DEF Asks
  <1>4. QED
    BY <1>2, <1>3, RowsStay DEF EffectStored, Asks

\* Only the message in hand becomes settled.
LEMMA NewlySettled ==
    ASSUME K!IInv, consuming = "process", K!Settle,
           NEW i \in DOMAIN History, Settled(i)'
    PROVE  Settled(i) \/ InHand(i)
  <1>1. History[i].partition \in Partition
    BY HistoryType
  <1>2. /\ settled \in [Partition -> SUBSET Nat]
        /\ msg \in [partition : Partition \cup {None}, offset : Nat \cup {None}]
        /\ msg.partition \in Partition
    BY DEF K!IInv, K!TypeOK, K!Busy
  <1>3. msg = [partition |-> msg.partition, offset |-> msg.offset]
    BY <1>2
  <1>4. QED
    BY <1>1, <1>2, <1>3 DEF K!Settle, Settled, InHand

\* A call that ends without an error has stored the effect of its message.
LEMMA EffectHappens ==
    ASSUME IInv, MessageOK, Effect, consuming = "process",
           NEW i \in DOMAIN History, InHand(i)
    PROVE  EffectStored(i)'
  <1>1. CASE RolesStored
    <2>1. PICK j \in DOMAIN History : InHand(j) /\ Asks(j, "roles")
      BY <1>1, RolesStep DEF HandOK
    <2>2. j = i
      BY <2>1, SameOffset
    <2>3. Received = History[i].request /\ History[i].request \in Request
      BY <1>1, ReceivedInHand, WellFormed DEF RolesStored
    <2>4. History[i].request.op = "roles" /\ StoreTrackRoles(History[i].request)
      BY <1>1, <2>1, <2>2, <2>3 DEF RolesStored, Asks
    <2>5. tracks'[History[i].request.track] # None
      BY <2>3, <2>4, StoredTrackStays
    <2>6. QED
      BY <2>4, <2>5 DEF EffectStored, Asks
  <1>2. CASE Save(Consumer)
    <2>1. request[Consumer] = History[i].request /\ request[Consumer].op # "roles"
          /\ (request[Consumer].op = "create" => app[Consumer].id = request[Consumer].team)
      BY <1>2 DEF Save, MessageOK
    <2>2. apps'[app[Consumer].id] # None
      BY <1>2, SavedRow, SystemAssumption
    <2>3. QED
      BY <2>1, <2>2 DEF EffectStored, Asks
  <1>3. QED
    BY <1>1, <1>2 DEF Effect

\* Any other end that settles a message is not that of a creation or an announcement.
LEMMA NoEffectAsked ==
    ASSUME IInv, MessageOK, NEW i \in DOMAIN History, InHand(i),
           pc[Consumer] \in {"row", "members", "track"}
    PROVE  EffectStored(i)'
  <1>1. request[Consumer] = History[i].request /\ request[Consumer].op # "roles"
    BY DEF MessageOK
  <1>2. request[Consumer].op # "create"
    BY CreationSaves
  <1>3. QED
    BY <1>1, <1>2 DEF EffectStored, Asks

\* A message becomes settled by its effect, or by an end that only other messages have.
LEMMA SettledStep ==
    ASSUME IInv, K!IInv, HandOK, MessageOK, SettledStored, [SystemNext]_sysVars
    PROVE  SettledStored'
  <1>1. ASSUME NEW i \in DOMAIN History, Settled(i) PROVE EffectStored(i)'
    BY <1>1, ServiceStep, EffectStays DEF SettledStored
  <1>2. CASE UNCHANGED settled
    BY <1>1, <1>2 DEF SettledStored, Settled
  <1>3. ASSUME consuming = "process", K!Settle,
               \A i \in DOMAIN History : InHand(i) => EffectStored(i)'
        PROVE  SettledStored'
    BY <1>1, <1>3, NewlySettled DEF SettledStored
  <1>4. CASE Return
    <2>1. consuming = "process" /\ K!Settle
      BY <1>4 DEF Return, K!Dispatch, K!CanDispatch
    <2>2. CASE Effect
      BY <1>3, <2>1, <2>2, EffectHappens
    <2>3. CASE SubmitConfirmed(Consumer) \/ GiveUp(Consumer)
      BY <1>3, <2>1, <2>3, NoEffectAsked DEF SubmitConfirmed, GiveUp
    <2>4. QED
      BY <1>4, <2>2, <2>3 DEF Return
  <1>5. CASE Skip
    <2>1. consuming = "process" /\ K!Settle
      BY <1>5 DEF Skip, K!SkipNotFound, K!CanDispatch
    <2>2. pc[Consumer] \in {"row", "track"}
      BY <1>5 DEF Skip, NotFound, ApplicationNotFound, TrackNotFound
    <2>3. QED
      BY <1>3, <2>1, <2>2, NoEffectAsked
  <1>6. CASE ConnectionLost
    <2>1. CASE Effect /\ K!Settle
      <3>1. consuming = "process"
        BY <1>6 DEF ConnectionLost, K!DispatchFails, K!CanDispatch
      <3>2. QED
        BY <1>3, <2>1, <3>1, EffectHappens
    <2>2. CASE UNCHANGED settled
      BY <1>2, <2>2
    <2>3. QED
      BY <1>6, <2>1, <2>2 DEF ConnectionLost
  <1>7. CASE SkipMalformed
    <2>1. consuming = "process" /\ K!Settle /\ msg.offset \in Malformed[msg.partition]
      BY <1>7 DEF SkipMalformed, K!SkipMalformed
    <2>2. ASSUME NEW i \in DOMAIN History, InHand(i) PROVE EffectStored(i)'
      <3>1. History[i].partition \in Partition
            /\ msg.partition = History[i].partition /\ msg.offset = OffsetOf[i]
        BY <2>2, HistoryType DEF InHand
      <3>2. PICK j \in DOMAIN History :
              /\ History[j].partition = History[i].partition /\ History[j].request = None
              /\ OffsetOf[j] = OffsetOf[i]
        BY <2>1, <3>1 DEF Malformed
      <3>3. j = i
        BY <3>2, OffsetUnique
      <3>4. QED
        BY <3>2, <3>3 DEF EffectStored, Asks
    <2>3. QED
      BY <1>3, <2>1, <2>2
  <1>8. CASE \/ Start \/ Commit \/ CommitFails \/ SkipCommitFails \/ Crash \/ Refused
             \/ \E p \in Partition : Receive(p)
             \/ \E i \in DOMAIN History : Publish(i)
    BY <1>2, <1>8
    DEF Start, Commit, CommitFails, SkipCommitFails, Crash, Refused, Receive, Publish,
        K!Start, K!Commit, K!CommitFails, K!SkipCommitFails, K!Receive, K!Produce
  <1>9. CASE UNCHANGED consumerVars
    BY <1>2, <1>9 DEF consumerVars
  <1>10. QED
    BY <1>4, <1>5, <1>6, <1>7, <1>8, <1>9
    DEF SystemNext, Handle, BeginMessage, Proceed, Http, SetRule, sysVars

\* The four parts of SystemInv are inductive together with the invariants of the consumer
\* and of the service.
THEOREM SystemInvariant == SystemSpec => []SystemInv
  <1>1. SystemInit => MessageOK /\ SettledStored
    BY SystemAssumption, HistoryType
    DEF SystemInit, Init, K!Init, MessageOK, SettledStored, Settled
  <1>2. /\ MessageOK /\ SettledStored
        /\ IInv /\ K!IInv /\ (LogOK /\ HandOK) /\ [SystemNext]_sysVars
        => (MessageOK /\ SettledStored)'
    BY MessageStep, SettledStep
  <1>3. (LogOK /\ HandOK) /\ MessageOK /\ SettledStored => SystemInv
    BY DEF SystemInv
  <1>4. QED
    BY <1>1, <1>2, <1>3, ServiceInvariant, ConsumerInvariant, HandInvariant, PTL
    DEF SystemSpec

\* End to end: whatever is refused, fails or ends between a message's transaction and the
\* commit of its offset, a committed creation or announcement is in the tables.
THEOREM CommittedIsStored == SystemSpec => []CommittedStored
  <1>1. ASSUME SystemInv, K!IInv, NEW i \in DOMAIN History, Committed(i), ~Missed(i)
        PROVE  EffectStored(i)
    <2> DEFINE p == History[i].partition
    <2>1. p \in Partition /\ OffsetOf[i] \in Nat
      BY HistoryType, OffsetBound
    <2>2. committed[p] # None /\ OffsetOf[i] \in 0 .. committed[p] - 1
      BY <1>1, <2>1 DEF Committed, K!IInv, K!TypeOK
    <2>3. Settled(i)
      BY <1>1, <2>1, <2>2 DEF K!IInv, K!CommittedSettled, K!Done, Missed, Settled
    <2>4. QED
      BY <1>1, <2>3 DEF SystemInv, SettledStored
  <1>2. SystemInv /\ K!IInv => CommittedStored
    BY <1>1 DEF CommittedStored
  <1>3. QED
    BY <1>2, SystemInvariant, ConsumerInvariant, PTL
=============================================================================
