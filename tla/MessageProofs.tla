--------------------------- MODULE MessageProofs ---------------------------
(* What a message of event-service may still do or lose when it is handled *)
(* late, twice or never: which messages about a team are skipped, and what *)
(* a message that comes again undoes.  Proved for any history, any HTTP    *)
(* requests beside it and any number of faults.                            *)
EXTENDS SystemProofs, GraceProofs

---------------------------------------------------------------------------
(* A team that is known has a track that is known.                         *)

\* A stored application is on a stored track, and so is one that was read from its row.
\* An application that came with a payload need not be.
KnownTracks ==
    /\ \A t \in Teams : apps[t] # None => tracks[apps[t].track] # None
    /\ \A h \in Handlers :
        pc[h] \in {"members", "track"} /\ request[h].op \in RosterOps
            => tracks[app[h].track] # None

\* A step is one of a handler, or leaves its memory alone, or ends its call.
LEMMA StepOfHandler ==
    ASSUME IInv, [Next]_vars, NEW h \in Handlers
    PROVE  Memory(h)' = Memory(h) \/ Call(h) \/ pc'[h] = "idle"
<1>1. ASSUME NEW g \in Handlers, Call(g) \/ Abort(g)
      PROVE  Memory(h)' = Memory(h) \/ Call(h) \/ pc'[h] = "idle"
  BY <1>1, OthersKeep, FinishForgets DEF Abort
<1>2. CASE ProcessEnds
  BY <1>2 DEF ProcessEnds
<1>3. CASE Tick \/ UNCHANGED vars \/ \E k \in Tracks : CreateRule(k)
  BY <1>3 DEF Tick, vars, CreateRule, locals, Memory
<1> QED BY <1>1, <1>2, <1>3 DEF Next

\* The first row of a team is on a stored track, and no save moves the team.
LEMMA KnownRows ==
    ASSUME IInv, KnownTracks, [Next]_vars, NEW t \in Teams, apps'[t] # None
    PROVE  tracks'[apps'[t].track] # None
<1>1. \A k \in Tracks : tracks[k] # None => tracks'[k] # None
  BY RowsStay
<1>2. CASE apps'[t] = apps[t]
  <2>1. apps[t].track \in Tracks /\ tracks[apps[t].track] # None
    BY <1>2 DEF KnownTracks, IInv, TypeOK, TablesTypeOK, Row
  <2> QED BY <1>1, <1>2, <2>1
<1>3. ASSUME NEW h \in Handlers, Save(h), t = app[h].id
      PROVE  tracks'[apps'[t].track] # None
  <2>1. /\ app[h] \in Application
        /\ apps'[t].track = IF apps[t] = None THEN app[h].track ELSE apps[t].track
        /\ apps[t] = None => tracks[app[h].track] # None
    BY <1>3, SaveWrites DEF Save, CanSave
  <2>2. apps'[t].track \in Tracks /\ tracks[apps'[t].track] # None
    BY <2>1 DEF Application, KnownTracks, IInv, TypeOK, TablesTypeOK, Row
  <2> QED BY <1>1, <2>2
<1>4. CASE \A h \in Handlers : ~Save(h)
  BY <1>2, <1>4, OnlySavesWrite
<1> QED BY <1>2, <1>3, <1>4, SaveWrites

\* A call about a roster keeps the track of the row that it read.
LEMMA KnownCalls ==
    ASSUME IInv, KnownTracks, [Next]_vars, NEW h \in Handlers,
           pc'[h] \in {"members", "track"}, request'[h].op \in RosterOps
    PROVE  tracks'[app'[h].track] # None
<1>1. \A k \in Tracks : tracks[k] # None => tracks'[k] # None
  BY RowsStay
<1>2. ASSUME pc[h] \in {"members", "track"}, request[h].op \in RosterOps,
             app'[h].track = app[h].track
      PROVE  tracks'[app'[h].track] # None
  <2>1. app[h].track \in Tracks
    BY <1>2, CallBefore DEF CallOK, RosterOps, Undecided, Application
  <2> QED BY <1>1, <1>2, <2>1 DEF KnownTracks
<1>3. CASE Memory(h)' = Memory(h)
  BY <1>2, <1>3 DEF Memory
<1>4. CASE LoadRow(h)
  <2>1. /\ app'[h] = RowApplication(request[h].team) /\ apps[request[h].team] # None
        /\ request[h].op \in RosterOps /\ pc[h] = "row"
    BY <1>4 DEF LoadRow, IInv, TypeOK, LocalsTypeOK
  <2>2. request[h].team \in Teams
    BY <2>1, CallBefore, RequestTeam DEF CallOK, RosterOps
  <2>3. apps[request[h].team].track \in Tracks /\ tracks[apps[request[h].team].track] # None
    BY <2>1, <2>2 DEF KnownTracks, IInv, TypeOK, TablesTypeOK, Row
  <2> QED BY <1>1, <2>1, <2>3 DEF RowApplication
<1>5. CASE ChangeRoster(h)
  <2>1. pc[h] = "members" /\ request' = request
    BY <1>5 DEF ChangeRoster
  <2>2. Loaded(h) \in Application /\ Loaded(h).track = app[h].track
    BY <2>1, LoadedUndecided, CallBefore DEF Undecided, Loaded, CallOK, Application
  <2>3. PICK m, role, b :
          /\ b \in {RemoveMember(Loaded(h), m), AddMember(Loaded(h), m, role),
                    ChangeMemberRole(Loaded(h), m, role)}
          /\ app'[h] = b
    BY <1>5 DEF ChangeRoster, IInv, TypeOK, LocalsTypeOK
  <2> QED BY <1>2, <2>1, <2>2, <2>3, EditKeeps
<1>6. CASE Call(h) /\ ~LoadRow(h) /\ ~ChangeRoster(h)
  <2>1. pc'[h] \notin {"members", "track"} \/ request'[h].op \notin RosterOps
    <3>1. CASE Begin(h)
      BY <3>1 DEF Begin, Goto, FirstStep, RosterOps, IInv, TypeOK, LocalsTypeOK
    <3>2. CASE SubmitOrUpdate(h)
      BY <3>2 DEF SubmitOrUpdate, RosterOps
    <3>3. CASE NextWaiting(h)
      BY <3>3, CallBefore DEF NextWaiting, CallOK, OpsAt, RosterOps
    <3>4. CASE UpdateTrackRoles(h)
      BY <3>4 DEF UpdateTrackRoles, StoreTrackRoles, locals, IInv, TypeOK, LocalsTypeOK
    <3>5. CASE \/ ApplicationNotFound(h) \/ SubmitConfirmed(h) \/ GiveUp(h)
               \/ TrackNotFound(h) \/ WaitlistFull(h) \/ NoneWaiting(h) \/ NoneExpired(h)
               \/ SaveFails(h)
      BY <3>5, FinishForgets
      DEF ApplicationNotFound, SubmitConfirmed, GiveUp, TrackNotFound, WaitlistFull,
          NoneWaiting, NoneExpired, SaveFails
    <3>6. CASE \/ Decide(h) \/ LoadTrack(h) \/ LoadRoles(h) \/ ValidateApplication(h)
               \/ WaitlistOpen(h) \/ SelectExpired(h) \/ SelectExpiredMembers(h)
               \/ ExpireOne(h)
      BY <3>6
      DEF Decide, LoadTrack, LoadRoles, ValidateApplication, WaitlistOpen, SelectExpired,
          SelectExpiredMembers, ExpireOne, Goto, IInv, TypeOK, LocalsTypeOK
    <3>7. CASE Save(h)
      BY <3>7, SaveForgets
    <3> QED BY <1>6, <3>1, <3>2, <3>3, <3>4, <3>5, <3>6, <3>7 DEF Call
  <2> QED BY <2>1
<1> QED BY <1>3, <1>4, <1>5, <1>6, StepOfHandler

\* Teams and tracks are known together in every behaviour of the service.
THEOREM TracksKnown == Spec => []KnownTracks
<1>1. Init => KnownTracks
  BY DEF Init, KnownTracks
<1>2. IInv /\ KnownTracks /\ [Next]_vars => KnownTracks'
  BY KnownRows, KnownCalls DEF KnownTracks
<1> QED BY <1>1, <1>2, Invariant, PTL DEF Spec

---------------------------------------------------------------------------
(* A message about a team is skipped only early.                           *)

\* A message that does not parse is not about a team.
LEMMA MalformedAsksNothing ==
    ASSUME NEW i \in DOMAIN History, InHand(i), SkipMalformed
    PROVE  ~AboutTeam(i)
<1>1. /\ History[i].partition \in Partition
      /\ msg.partition = History[i].partition /\ msg.offset = OffsetOf[i]
      /\ msg.offset \in Malformed[msg.partition]
  BY HistoryType DEF InHand, SkipMalformed, K!SkipMalformed
<1>2. PICK j \in DOMAIN History :
        /\ History[j].partition = History[i].partition /\ History[j].request = None
        /\ OffsetOf[j] = OffsetOf[i]
  BY <1>1 DEF Malformed
<1>3. j = i
  BY <1>2, OffsetUnique
<1> QED BY <1>2, <1>3 DEF AboutTeam

\* The team of a skipped message has no row, so none of its creations is settled; or the
\* track of its payload has none, so none of its announcements is.
LEMMA SkippedIsEarly ==
    ASSUME SystemInv, IInv, CallInv, KnownTracks, NotFound,
           NEW i \in DOMAIN History, InHand(i)
    PROVE  LET r == History[i].request IN
           \/ \A j \in DOMAIN History :
                Asks(j, "create") /\ History[j].request.team = r.team => ~Settled(j)
           \/ /\ r.op \in {"submit", "update"}
              /\ \A j \in DOMAIN History :
                Asks(j, "roles") /\ History[j].request.track = r.track => ~Settled(j)
<1> DEFINE r == History[i].request
<1>1. \A j \in DOMAIN History : Settled(j) => EffectStored(j)
  BY DEF SystemInv, SettledStored
<1>2. pc[Consumer] \in {"row", "track"} /\ Consumer \in Handlers
  BY SystemAssumption DEF NotFound, ApplicationNotFound, TrackNotFound
<1>3. request[Consumer] = r /\ r.op \in MessageOps \ {"roles"}
  BY <1>2 DEF SystemInv, MessageOK
<1>4. CASE ApplicationNotFound(Consumer)
  <2>1. apps[r.team] = None
    BY <1>3, <1>4 DEF ApplicationNotFound
  <2> QED BY <1>1, <2>1 DEF EffectStored
<1>5. CASE TrackNotFound(Consumer)
  <2>1. pc[Consumer] = "track" /\ tracks[app[Consumer].track] = None
    BY <1>3, <1>5 DEF TrackNotFound, TrackId, MessageOps
  <2>2. r.op \in {"submit", "update"} \cup RosterOps
    BY <1>2, <1>3, <2>1, CallBefore DEF CallOK, OpsAt, MessageOps, RosterOps
  <2>3. r.op \notin RosterOps
    BY <1>2, <1>3, <2>1 DEF KnownTracks
  <2>4. app[Consumer].track = r.track
    <3>1. app[Consumer] = BuildApplication(request[Consumer])
      BY <1>2, <1>3, <2>1, <2>2, <2>3 DEF CallInv, RequestOK
    <3> QED BY <1>3, <3>1 DEF BuildApplication, NewApplication
  <2>5. tracks[r.track] = None
    BY <2>1, <2>4
  <2> QED BY <1>1, <2>2, <2>3, <2>5 DEF EffectStored
<1> QED BY <1>4, <1>5 DEF NotFound

\* Of the steps of the process only these two skip a message.
LEMMA SkipSteps ==
    ASSUME [SystemNext]_sysVars, consuming = "process", consuming' = "skip"
    PROVE  Skip \/ SkipMalformed
<1>1. CASE \/ \E i \in DOMAIN History : Publish(i)
           \/ \E p \in Partition : Receive(p)
           \/ Start \/ Commit \/ CommitFails \/ SkipCommitFails \/ Crash
  BY <1>1
  DEF Publish, Receive, Start, Commit, CommitFails, SkipCommitFails, Crash, K!Produce,
      K!Receive, K!Start, K!Commit, K!CommitFails, K!SkipCommitFails, K!Crash, K!Stop,
      K!SeekBack
<1>2. CASE Return \/ Refused \/ ConnectionLost
  BY <1>2
  DEF Return, Refused, ConnectionLost, K!Dispatch, K!DispatchFails, K!SeekBack
<1>3. CASE UNCHANGED consumerVars
  BY <1>3 DEF consumerVars
<1> QED
  BY <1>1, <1>2, <1>3
  DEF SystemNext, Handle, BeginMessage, Proceed, Http, SetRule, sysVars

\* A known team loses no message to a save that is refused for now, to a payload whose
\* track is moved, or to a message that came out of order.
THEOREM SkippedEarly == SystemSpec => SkippedOnlyEarly
<1>1. ASSUME SystemInv, IInv, CallInv, KnownTracks, [SystemNext]_sysVars,
             NEW i \in DOMAIN History, InHand(i), AboutTeam(i),
             consuming = "process", consuming' = "skip"
      PROVE  LET r == History[i].request IN
             \/ \A j \in DOMAIN History :
                  Asks(j, "create") /\ History[j].request.team = r.team => ~Settled(j)
             \/ /\ r.op \in {"submit", "update"}
                /\ \A j \in DOMAIN History :
                  Asks(j, "roles") /\ History[j].request.track = r.track => ~Settled(j)
  <2>1. NotFound
    BY <1>1, SkipSteps, MalformedAsksNothing DEF Skip
  <2> QED BY <1>1, <2>1, SkippedIsEarly
<1>2. SystemInv /\ IInv /\ CallInv /\ KnownTracks /\ [SystemNext]_sysVars
      => [\A i \in DOMAIN History :
            /\ InHand(i) /\ AboutTeam(i)
            /\ consuming = "process" /\ consuming' = "skip"
          => LET r == History[i].request IN
             \/ \A j \in DOMAIN History :
                  Asks(j, "create") /\ History[j].request.team = r.team => ~Settled(j)
             \/ /\ r.op \in {"submit", "update"}
                /\ \A j \in DOMAIN History :
                  Asks(j, "roles") /\ History[j].request.track = r.track
                      => ~Settled(j)]_sysVars
  BY <1>1
<1> QED
  BY <1>2, SystemInvariant, ServiceInvariant, SystemImplementsService,
     CallsFollowRequests, TracksKnown, PTL
  DEF SystemSpec, SkippedOnlyEarly

---------------------------------------------------------------------------
(* A decision is undone only by the last message.                          *)

\* Only the creation of a team stores the status none.
LEMMA UndoneByCreation ==
    ASSUME IInv, CallInv, [Next]_vars, NEW t \in Teams, Undone(t)
    PROVE  /\ pc[Consumer] = "save" /\ app[Consumer].id = t
           /\ request[Consumer].op = "create"
<1>1. apps'[t] # apps[t] /\ apps'[t].status = "none"
  BY DEF Undone, HasStatus
<1>2. PICK h \in Handlers : Save(h)
  BY <1>1, OnlySavesWrite
<1>3. app[h].id = t /\ app[h].status = "none"
  BY <1>1, <1>2, SaveWrites
<1>4. /\ pc[h] = "save" /\ request[h] \in Inbox[h]
      /\ "none" \in Verdicts(request[h].op)
  BY <1>2, <1>3 DEF Save, CallInv, RequestOK
<1>5. request[h].op = "create"
  BY <1>4 DEF Verdicts, RosterOps
<1>6. h = Consumer
  BY <1>4, <1>5, HttpAssumption DEF MessageOps
<1> QED BY <1>3, <1>4, <1>5, <1>6

\* What is settled of a partition is not beyond its message in hand.
LEMMA NoneSettledBeyond ==
    ASSUME K!IInv, consuming = "process",
           NEW i \in DOMAIN History, InHand(i), NEW j \in DOMAIN History,
           History[j].partition = History[i].partition, OffsetOf[j] > OffsetOf[i]
    PROVE  ~Settled(j)
<1>1. /\ History[i].partition \in Partition
      /\ msg.partition = History[i].partition /\ msg.offset = OffsetOf[i]
  BY HistoryType DEF InHand
<1>2. OffsetOf[i] \in Nat /\ OffsetOf[j] \in Nat
  BY OffsetBound
<1>3. \A o \in settled[msg.partition] : o < msg.offset + 1
  BY <1>1 DEF K!IInv, K!PositionOK, K!Busy
<1> QED BY <1>1, <1>2, <1>3 DEF Settled

\* Redelivery takes a team back to the status none, and only for as long as its creation
\* is the last message of its partition that was handled.
THEOREM DecisionsKept == SystemSpec => DecisionKept
<1>1. ASSUME SystemInv, IInv, K!IInv, CallInv, [Next]_vars, NEW t \in Teams, Undone(t)
      PROVE  \E i \in DOMAIN History :
                /\ Asks(i, "create") /\ History[i].request.team = t
                /\ InHand(i)
                /\ \A j \in DOMAIN History :
                    History[j].partition = History[i].partition
                        /\ OffsetOf[j] > OffsetOf[i]
                    => ~Settled(j)
  <2>1. /\ pc[Consumer] = "save" /\ app[Consumer].id = t
        /\ request[Consumer].op = "create"
    BY <1>1, UndoneByCreation
  <2>2. consuming = "process" /\ request[Consumer].team = t
    BY <1>1, <2>1 DEF SystemInv, MessageOK, K!CanDispatch
  <2>3. PICK i \in DOMAIN History : InHand(i)
    BY <1>1, <2>2 DEF SystemInv, HandOK
  <2>4. request[Consumer] = History[i].request /\ History[i].request # None
    BY <1>1, <2>1, <2>3, WellFormed DEF SystemInv, MessageOK
  <2>5. Asks(i, "create") /\ History[i].request.team = t
    BY <2>1, <2>2, <2>4 DEF Asks
  <2> QED BY <1>1, <2>2, <2>3, <2>5, NoneSettledBeyond
<1>2. /\ SystemInv /\ IInv /\ K!IInv /\ CallInv /\ [Next]_vars /\ [SystemNext]_sysVars
      => [\A t \in Teams : Undone(t) =>
            \E i \in DOMAIN History :
                /\ Asks(i, "create") /\ History[i].request.team = t
                /\ InHand(i)
                /\ \A j \in DOMAIN History :
                    History[j].partition = History[i].partition
                        /\ OffsetOf[j] > OffsetOf[i]
                        => ~Settled(j)]_sysVars
  BY <1>1
<1>3. HandOK /\ [SystemNext]_sysVars => [Next]_vars
  BY ServiceStep
<1> QED
  BY <1>2, <1>3, SystemInvariant, HandInvariant, ServiceInvariant, ConsumerInvariant,
     SystemImplementsService, CallsFollowRequests, PTL
  DEF SystemSpec, DecisionKept

---------------------------------------------------------------------------
(* The grace period in the running process.                                *)

\* Only messages change rosters, and the consumer handles them one at a time: in the process
\* no HTTP request, crash or redelivery prolongs a grace period.
THEOREM ProcessKeepsGrace == SystemSpec => GraceNotExtended
<1>1. Consumer \in Handlers /\ RosterHandler(Consumer)
  BY SystemAssumption, HttpAssumption DEF RosterHandler, RosterOps, MessageOps
<1>2. Spec => GraceNotExtended
  BY <1>1, GraceNeverExtended
<1> QED BY <1>2, SystemImplementsService, PTL
============================================================================
