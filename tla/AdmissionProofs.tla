-------------------------- MODULE AdmissionProofs --------------------------
(* Slots and rosters.  A call that nobody disturbs validates a team        *)
(* against the rules, the roles and the slots that are in force when it    *)
(* saves; so a slot that it gives is free, and what it accepts is a roster *)
(* that meets the rules in the database as well, with the exceptions that  *)
(* ServiceHistory names.                                                   *)
EXTENDS ServiceProofs, ServiceHistory, FiniteSetTheorems, FunctionTheorems

---------------------------------------------------------------------------
(* A slot that is given is free, and a roster that is accepted meets the   *)
(* rules, at the moment of the save.                                       *)

\* The track has a row, and a slot for one more team.
Free(k) == tracks[k] # None /\ CountConfirmed(k) < tracks[k].max

\* The track in memory is the one the tables hold...
TrackFresh(h) ==
    /\ pc[h] \in {"roles", "count"}
        => tracks[TrackId(h)] # None /\ track[h].config = tracks[TrackId(h)]
    /\ pc[h] = "count" => track[h].roles = SelectRoles(TrackId(h))

\* ... the slot that the waitlist or the validation found is still free...
SlotFree(h) ==
    /\ pc[h] = "next" => Free(request[h].track)
    /\ pc[h] = "members" /\ request[h].op = "waitlist"
        => app[h].track = request[h].track /\ Free(app[h].track)
    /\ pc[h] = "save" /\ request[h].op # "confirm" /\ "confirmed" \in app[h].events
        => Free(app[h].track)

\* ... and the roster that the validation accepted meets the rules that the tables hold.
RosterValid(h) ==
    pc[h] = "save" /\ request[h].op \in {"submit", "update"} \cup RosterOps
            /\ app[h].status \in {"validated", "confirmed"}
        => RulesHold(app[h].members, StoredTrack(app[h].track))

AdmissionOK(h) == TrackFresh(h) /\ SlotFree(h) /\ RosterValid(h)

\* A track that is not full has a free slot.
LEMMA NotFull ==
    ASSUME IsFiniteSet(Teams), IInv, NEW h \in Handlers, TrackFresh(h), pc[h] = "count",
           TrackId(h) \in Tracks, ~TrackIsFull(h)
    PROVE  Free(TrackId(h))
<1> DEFINE k == TrackId(h)
           S == {t \in Teams : apps[t] # None /\ apps[t].track = k
                                  /\ apps[t].status = "confirmed"}
<1>1. CountConfirmed(k) \in Nat
  <2>1. IsFiniteSet(S) /\ Cardinality(S) \in Nat
    BY FS_Subset, FS_CardinalityType
  <2> QED BY <2>1 DEF CountConfirmed
<1>2. tracks[k] # None /\ track[h].config = tracks[k] /\ tracks[k].max \in Int
  BY DEF TrackFresh, IInv, TypeOK, TablesTypeOK, Config
<1> QED BY <1>1, <1>2 DEF TrackIsFull, Free

\* A call that starts or reads.
LEMMA AdmissionLoad ==
    ASSUME IsFiniteSet(Teams), IInv, CallInv, NEW h \in Handlers, AdmissionOK(h),
           \/ Begin(h) \/ SubmitOrUpdate(h) \/ LoadRow(h) \/ ChangeRoster(h)
           \/ LoadTrack(h) \/ LoadRoles(h) \/ WaitlistOpen(h) \/ NextWaiting(h)
           \/ SelectExpired(h) \/ SelectExpiredMembers(h)
    PROVE  AdmissionOK(h)'
<1> USE DEF Goto
<1>1. UNCHANGED <<tracks, roles, trackRoles, apps>>
  BY DEF Begin, SubmitOrUpdate, LoadRow, ChangeRoster, LoadTrack, LoadRoles, WaitlistOpen,
         NextWaiting, SelectExpired, SelectExpiredMembers, tables
<1>2. ASSUME pc'[h] \in {"row", "track", "expired", "expired members", "expire"}
      PROVE  AdmissionOK(h)'
  BY <1>2 DEF AdmissionOK, TrackFresh, SlotFree, RosterValid
<1>3. CASE Begin(h)
  <2>1. PICK r \in Inbox[h] :
          /\ pc'[h] = FirstStep(r) /\ request'[h] = r
          /\ r.op = "create" => app'[h] = BuildApplication(r)
    BY <1>3 DEF Begin, IInv, TypeOK, LocalsTypeOK
  <2>2. CASE r.op = "create"
    <3>1. BuildApplication(r).events = {}
      BY DEF BuildApplication, NewApplication
    <3>2. pc'[h] = "save" /\ request'[h].op = "create" /\ app'[h].events = {}
      BY <2>1, <2>2, <3>1 DEF FirstStep
    <3> QED BY <3>2 DEF AdmissionOK, TrackFresh, SlotFree, RosterValid, RosterOps
  <2>3. CASE r.op # "create"
    BY <1>2, <2>1, <2>3 DEF FirstStep
  <2> QED BY <2>2, <2>3
<1>4. CASE SubmitOrUpdate(h) \/ ChangeRoster(h) \/ SelectExpired(h) \/ SelectExpiredMembers(h)
  BY <1>2, <1>4
  DEF SubmitOrUpdate, ChangeRoster, SelectExpired, SelectExpiredMembers, IInv, TypeOK,
      LocalsTypeOK
<1>5. CASE LoadRow(h)
  <2>1. pc[h] = "row" /\ pc'[h] = "members" /\ request' = request
    BY <1>5 DEF LoadRow, IInv, TypeOK, LocalsTypeOK
  <2>2. request[h].op # "waitlist"
    BY <2>1, CallBefore DEF CallOK, OpsAt
  <2> QED BY <2>1, <2>2 DEF AdmissionOK, TrackFresh, SlotFree, RosterValid
<1>6. CASE LoadTrack(h)
  <2>1. /\ pc'[h] = "roles" /\ request' = request /\ app' = app
        /\ tracks[TrackId(h)] # None
        /\ track'[h] = [config |-> tracks[TrackId(h)], roles |-> {}]
    BY <1>6 DEF LoadTrack, IInv, TypeOK, LocalsTypeOK
  <2>2. TrackId(h)' = TrackId(h) /\ track'[h].config = tracks[TrackId(h)]
    BY <2>1 DEF TrackId
  <2> QED BY <1>1, <2>1, <2>2 DEF AdmissionOK, TrackFresh, SlotFree, RosterValid
<1>7. CASE LoadRoles(h)
  <2>1. /\ pc[h] = "roles" /\ pc'[h] = "count" /\ request' = request /\ app' = app
        /\ track'[h] = [track[h] EXCEPT !.roles = SelectRoles(TrackId(h))]
    BY <1>7 DEF LoadRoles, IInv, TypeOK, LocalsTypeOK
  <2>2. track[h] \in Track
    BY <2>1, CallBefore DEF CallOK
  <2>3. /\ TrackId(h)' = TrackId(h) /\ track'[h].config = track[h].config
        /\ track'[h].roles = SelectRoles(TrackId(h))
    BY <2>1, <2>2 DEF TrackId, Track
  <2>4. SelectRoles(TrackId(h))' = SelectRoles(TrackId(h))
    BY <1>1, <2>3 DEF SelectRoles
  <2> QED
    BY <1>1, <2>1, <2>3, <2>4 DEF AdmissionOK, TrackFresh, SlotFree, RosterValid
<1>8. CASE WaitlistOpen(h)
  <2>1. /\ pc[h] = "count" /\ request[h].op = "waitlist" /\ ~TrackIsFull(h)
        /\ pc'[h] = "next" /\ request' = request
    BY <1>8 DEF WaitlistOpen, IInv, TypeOK, LocalsTypeOK
  <2>2. TrackId(h) = request[h].track /\ request[h].track \in Tracks
    BY <2>1, CallBefore, RequestTrack DEF TrackId, CallOK
  <2>3. Free(request[h].track)
    BY <2>1, <2>2, NotFull DEF AdmissionOK
  <2>4. Free(request[h].track)'
    BY <1>1, <2>1, <2>3 DEF Free, CountConfirmed
  <2> QED BY <2>1, <2>4 DEF AdmissionOK, TrackFresh, SlotFree, RosterValid
<1>9. CASE NextWaiting(h)
  <2>1. PICK t \in Teams : Waiting(t, request[h].track) /\ app'[h] = RowApplication(t)
    BY <1>9 DEF NextWaiting, IInv, TypeOK, LocalsTypeOK
  <2>2. pc[h] = "next" /\ pc'[h] = "members" /\ request' = request
    BY <1>9 DEF NextWaiting, IInv, TypeOK, LocalsTypeOK
  <2>3. app'[h].track = request[h].track /\ Free(request[h].track)
    BY <2>1, <2>2 DEF Waiting, RowApplication, AdmissionOK, SlotFree
  <2>4. Free(app[h].track)'
    BY <1>1, <2>3 DEF Free, CountConfirmed
  <2> QED BY <2>2, <2>3, <2>4 DEF AdmissionOK, TrackFresh, SlotFree, RosterValid
<1> QED BY <1>3, <1>4, <1>5, <1>6, <1>7, <1>8, <1>9

\* validate() confirms a team only if the track is not full, and accepts only a roster
\* that meets the rules.
LEMMA ValidateAdmits ==
    ASSUME NEW a \in Application, a.events = {}, NEW tr, NEW full, NEW time
    PROVE  LET v == Validate(a, tr, full, time) IN
           /\ "confirmed" \in v.events => ~full
           /\ v.status \in {"validated", "confirmed"} => RulesHold(a.members, tr)
BY DEF Validate, OnValid, OnInvalid, Reject, PushEvent, Application

\* A refusal confirms nothing.
LEMMA RefusalAdmitsNone ==
    ASSUME NEW a \in Application, a.events = {}
    PROVE  /\ "confirmed" \notin Reject(a).events
           /\ "confirmed" \notin ExpireGracePeriod(a).events
BY DEF Reject, ExpireGracePeriod, PushEvent, Application

\* A call that decides.
LEMMA AdmissionDecision ==
    ASSUME IsFiniteSet(Teams), IInv, CallInv, NEW h \in Handlers, AdmissionOK(h),
           ValidateApplication(h) \/ Decide(h) \/ ExpireOne(h)
    PROVE  AdmissionOK(h)'
<1>1. /\ UNCHANGED <<tracks, roles, trackRoles, apps>> /\ request' = request
      /\ pc'[h] = "save"
  BY DEF ValidateApplication, Decide, ExpireOne, tables, Goto, IInv, TypeOK, LocalsTypeOK
<1>2. CASE ValidateApplication(h)
  <2>1. /\ pc[h] = "count" /\ request[h].op # "waitlist"
        /\ app'[h] = Validate(app[h], track[h], TrackIsFull(h), now)
    BY <1>2 DEF ValidateApplication, IInv, TypeOK, LocalsTypeOK
  <2>2. /\ app[h] \in Application /\ app[h].events = {} /\ track[h] \in Track
        /\ request[h].op \in {"submit", "update"} \cup RosterOps
    BY <2>1, CallBefore DEF CallOK, OpsAt, Undecided, RosterOps
  <2>3. /\ app'[h].id = app[h].id /\ app'[h].track = app[h].track
        /\ app'[h].members = app[h].members
    BY <2>1, <2>2, ValidateKeeps
  <2>4. TrackId(h) = app[h].track /\ app[h].track \in Tracks
    BY <2>1, <2>2 DEF TrackId, Application
  <2>5. track[h] = StoredTrack(app[h].track)
    BY <2>1, <2>2, <2>4 DEF AdmissionOK, TrackFresh, StoredTrack, Track
  <2>6. SlotFree(h)'
    <3>1. SUFFICES ASSUME "confirmed" \in app'[h].events
                   PROVE  Free(app[h].track)
      BY <1>1, <2>3 DEF SlotFree, Free, CountConfirmed
    <3>2. ~TrackIsFull(h)
      BY <2>1, <2>2, <3>1, ValidateAdmits
    <3> QED BY <2>1, <2>4, <3>2, NotFull DEF AdmissionOK
  <2>7. RosterValid(h)'
    <3>1. app'[h].status \in {"validated", "confirmed"}
            => RulesHold(app[h].members, StoredTrack(app[h].track))
      BY <2>1, <2>2, <2>5, ValidateAdmits
    <3>2. StoredTrack(app[h].track)' = StoredTrack(app[h].track)
      BY <1>1, <2>3 DEF StoredTrack, SelectRoles
    <3> QED BY <2>3, <3>1, <3>2 DEF RosterValid
  <2> QED BY <1>1, <2>6, <2>7 DEF AdmissionOK, TrackFresh
<1>3. CASE Decide(h)
  <2>1. pc[h] = "members"
    BY <1>3 DEF Decide
  <2>2. /\ Loaded(h) \in Application /\ Loaded(h).id = app[h].id
        /\ Loaded(h).track = app[h].track /\ Loaded(h).events = {}
    BY <2>1, LoadedUndecided, CallBefore DEF Undecided, Loaded, CallOK, Application
  <2>3. \/ request[h].op \in {"confirm", "waitlist"} /\ app'[h] = Confirm(Loaded(h))
        \/ request[h].op = "reject" /\ app'[h] = Reject(Loaded(h))
    BY <1>3 DEF Decide, IInv, TypeOK, LocalsTypeOK
  <2>4. CASE request[h].op = "confirm"
    BY <1>1, <2>4 DEF AdmissionOK, TrackFresh, SlotFree, RosterValid, RosterOps
  <2>5. CASE request[h].op = "waitlist"
    <3>1. app'[h].track = app[h].track /\ Free(app[h].track)
      BY <2>1, <2>2, <2>3, <2>5, DecisionKeeps DEF AdmissionOK, SlotFree
    <3>2. Free(app[h].track)'
      BY <1>1, <3>1 DEF Free, CountConfirmed
    <3> QED
      BY <1>1, <2>5, <3>2 DEF AdmissionOK, TrackFresh, SlotFree, RosterValid, RosterOps
  <2>6. CASE request[h].op = "reject"
    <3>1. app'[h].status = "rejected" /\ "confirmed" \notin app'[h].events
      BY <2>2, <2>3, <2>6, DecisionKeeps, RefusalAdmitsNone
    <3> QED BY <1>1, <3>1 DEF AdmissionOK, TrackFresh, SlotFree, RosterValid
  <2> QED BY <2>3, <2>4, <2>5, <2>6
<1>4. CASE ExpireOne(h)
  <2>1. PICK x \in batch[h] : app'[h] = ExpireGracePeriod(x)
    BY <1>4 DEF ExpireOne, IInv, TypeOK, LocalsTypeOK
  <2>2. x \in Application /\ x.status = "invalid" /\ x.events = {}
    BY <2>1, CallBefore DEF CallOK, Undecided
  <2>3. app'[h].status = "rejected" /\ "confirmed" \notin app'[h].events
    BY <2>1, <2>2, DecisionKeeps, RefusalAdmitsNone
  <2> QED BY <1>1, <2>3 DEF AdmissionOK, TrackFresh, SlotFree, RosterValid
<1> QED BY <1>2, <1>3, <1>4

---------------------------------------------------------------------------
(* Every step keeps it, of the handlers that nobody disturbs.              *)

HistoryInv == \A h \in undisturbed : AdmissionOK(h)

\* Where nothing is validated or saved, nothing is claimed.
LEMMA AdmissionIdle ==
    ASSUME NEW h \in Handlers, pc[h] \in {"idle", "expire"}
    PROVE  AdmissionOK(h)
BY DEF AdmissionOK, TrackFresh, SlotFree, RosterValid

\* What a call knows stays true while neither the tables nor its memory change.
LEMMA AdmissionKept ==
    ASSUME NEW h, AdmissionOK(h), tables' = tables, Memory(h)' = Memory(h)
    PROVE  AdmissionOK(h)'
<1>1. /\ tracks' = tracks /\ roles' = roles /\ trackRoles' = trackRoles /\ apps' = apps
      /\ pc'[h] = pc[h] /\ request'[h] = request[h] /\ app'[h] = app[h]
      /\ track'[h] = track[h]
  BY DEF tables, Memory
<1>2. TrackFresh(h)'
  BY <1>1 DEF AdmissionOK, TrackFresh, TrackId, SelectRoles
<1>3. SlotFree(h)'
  BY <1>1 DEF AdmissionOK, SlotFree, Free, CountConfirmed
<1>4. RosterValid(h)'
  BY <1>1 DEF AdmissionOK, RosterValid, StoredTrack, SelectRoles
<1> QED BY <1>2, <1>3, <1>4 DEF AdmissionOK

\* A step of the call itself.
LEMMA AdmissionCall ==
    ASSUME IsFiniteSet(Teams), IInv, CallInv, NEW h \in Handlers, AdmissionOK(h),
           Call(h) \/ Abort(h), pc'[h] # "idle"
    PROVE  AdmissionOK(h)'
<1>1. ASSUME Finish(h) PROVE FALSE
  BY <1>1, FinishForgets
<1>2. CASE \/ ApplicationNotFound(h) \/ SubmitConfirmed(h) \/ GiveUp(h)
           \/ TrackNotFound(h) \/ WaitlistFull(h) \/ NoneWaiting(h) \/ NoneExpired(h)
           \/ SaveFails(h) \/ Abort(h)
  BY <1>1, <1>2
  DEF ApplicationNotFound, SubmitConfirmed, GiveUp, TrackNotFound, WaitlistFull,
      NoneWaiting, NoneExpired, SaveFails, Abort
<1>3. CASE UpdateTrackRoles(h)
  BY <1>3 DEF UpdateTrackRoles, StoreTrackRoles, locals
<1>4. CASE Save(h)
  <2>1. pc'[h] = "expire"
    BY <1>4, SaveForgets
  <2> QED BY <2>1 DEF AdmissionOK, TrackFresh, SlotFree, RosterValid
<1> QED BY <1>2, <1>3, <1>4, AdmissionLoad, AdmissionDecision DEF Call

\* A step of another handler, of an organiser or of the clock.
LEMMA AdmissionStep ==
    ASSUME IsFiniteSet(Teams), IInv, CallInv, HistoryInv, Next, Observe
    PROVE  HistoryInv'
<1>1. SUFFICES ASSUME NEW h \in undisturbed' PROVE AdmissionOK(h)'
  BY DEF HistoryInv
<1>2. /\ h \in Handlers /\ pc'[h] # "idle"
      /\ \/ pc[h] = "idle"
         \/ h \in undisturbed /\ (tables' = tables \/ pc'[h] # pc[h])
  BY DEF Observe
<1>3. AdmissionOK(h)
  BY <1>2, AdmissionIdle DEF HistoryInv
<1>4. ASSUME Memory(h)' = Memory(h) PROVE AdmissionOK(h)'
  <2>1. pc'[h] = pc[h]
    BY <1>4 DEF Memory
  <2>2. tables' = tables
    BY <1>2, <2>1
  <2> QED BY <1>2, <1>3, <1>4, <2>2, AdmissionKept
<1>5. ASSUME NEW g \in Handlers, Call(g) \/ Abort(g) PROVE AdmissionOK(h)'
  <2>1. CASE g = h
    BY <1>2, <1>3, <1>5, <2>1, AdmissionCall
  <2>2. CASE g # h
    BY <1>2, <1>4, <1>5, <2>2, OthersKeep
  <2> QED BY <2>1, <2>2
<1>6. CASE Tick \/ \E k \in Tracks : CreateRule(k)
  BY <1>4, <1>6 DEF Tick, CreateRule, locals, Memory
<1>7. CASE ProcessEnds
  BY <1>2, <1>7 DEF ProcessEnds
<1> QED BY <1>5, <1>6, <1>7 DEF Next

\* The history variable only observes.
LEMMA HistoryFollowsSpec == HistorySpec => Spec
<1>1. [Next /\ Observe]_<<vars, undisturbed>> => [Next]_vars
  OBVIOUS
<1> QED BY <1>1, PTL DEF HistorySpec, Spec

\* The invariants that the two theorems rest on.
LEMMA HistoryInvariant ==
    ASSUME IsFiniteSet(Teams)
    PROVE  HistorySpec => [](IInv /\ CallInv /\ HistoryInv)
<1>1. undisturbed = {} => HistoryInv
  BY DEF HistoryInv
<1>2. IInv /\ CallInv /\ HistoryInv /\ [Next /\ Observe]_<<vars, undisturbed>> => HistoryInv'
  <2>1. ASSUME IInv, CallInv, HistoryInv, Next, Observe PROVE HistoryInv'
    BY <2>1, AdmissionStep
  <2>2. ASSUME HistoryInv, UNCHANGED <<vars, undisturbed>> PROVE HistoryInv'
    <3>1. /\ tables' = tables /\ undisturbed' = undisturbed
          /\ \A h \in undisturbed : Memory(h)' = Memory(h)
      BY <2>2 DEF vars, locals, Memory
    <3>2. ASSUME NEW h \in undisturbed PROVE AdmissionOK(h)'
      BY <2>2, <3>1, <3>2, AdmissionKept DEF HistoryInv
    <3> QED BY <3>1, <3>2 DEF HistoryInv
  <2> QED BY <2>1, <2>2
<1> QED
  BY <1>1, <1>2, HistoryFollowsSpec, Invariant, CallsFollowRequests, PTL DEF HistorySpec

\* Only the handlers of the service are observed.
LEMMA UndisturbedHandlers == HistorySpec => [](undisturbed \subseteq Handlers)
<1>1. undisturbed = {} => undisturbed \subseteq Handlers
  OBVIOUS
<1>2. undisturbed \subseteq Handlers /\ [Next /\ Observe]_<<vars, undisturbed>>
      => (undisturbed \subseteq Handlers)'
  BY DEF Observe
<1> QED BY <1>1, <1>2, PTL DEF HistorySpec

---------------------------------------------------------------------------
(* What is stored of an accepted roster.                                   *)

\* The members of an application as the tables return them.
StoredForm(S) == {[id |-> x.id, role |-> x.role, joined |-> FALSE] : x \in S}

\* Members with distinct ids are as many in the tables as in memory.
LEMMA StoredFormCount ==
    ASSUME IsFiniteSet(Members), NEW S \in SUBSET Member,
           \A x, y \in S : x.id = y.id => x = y
    PROVE  Cardinality(StoredForm(S)) = Cardinality(S)
<1> DEFINE f == [x \in S |-> [id |-> x.id, role |-> x.role, joined |-> FALSE]]
           g == [x \in S |-> x.id]
<1>1. IsFiniteSet(S)
  <2>1. g \in Injection(S, Members)
    BY Fun_IsInj DEF Member
  <2> QED BY <2>1, FS_Injection
<1>2. f \in Bijection(S, StoredForm(S))
  <2>1. f \in [S -> StoredForm(S)]
    BY DEF StoredForm
  <2>2. \A x, y \in S : f[x] = f[y] => x = y
    OBVIOUS
  <2>3. \A z \in StoredForm(S) : \E x \in S : f[x] = z
    BY DEF StoredForm
  <2> QED BY <2>1, <2>2, <2>3, Fun_IsBij
<1>3. ExistsBijection(S, StoredForm(S))
  BY <1>2 DEF ExistsBijection
<1> QED BY <1>1, <1>3, FS_Bijection

\* So the rules see the same in both.
LEMMA StoredFormRules ==
    ASSUME IsFiniteSet(Members), NEW S \in SUBSET Member,
           \A x, y \in S : x.id = y.id => x = y, NEW tr, RulesHold(S, tr)
    PROVE  RulesHold(StoredForm(S), tr)
<1>1. ASSUME NEW r PROVE RoleCount(StoredForm(S), r) = RoleCount(S, r)
  <2> DEFINE Q == {m \in S : m.role = r}
  <2>1. {m \in StoredForm(S) : m.role = r} = StoredForm(Q)
    BY DEF StoredForm
  <2>2. Cardinality(StoredForm(Q)) = Cardinality(Q)
    BY StoredFormCount
  <2> QED BY <2>1, <2>2 DEF RoleCount
<1>2. Cardinality(StoredForm(S)) = Cardinality(S)
  BY StoredFormCount
<1> QED
  BY <1>1, <1>2 DEF RulesHold, RuleHolds, RoleRuleHolds, TeamSizeRuleHolds

\* A list with each member once, in the role of its row, is stored: the rows of members that are there before have the
\* roles of the list, and the links are the members of the list.
LEMMA RosterStored ==
    ASSUME IInv, NEW h \in Handlers, Save(h), ~JoinedTwice(h), ~RoleKept(h),
           NEW t \in Teams, t = app[h].id
    PROVE  SelectMembers(t)' = StoredForm(app[h].members)
<1> DEFINE a == app[h]
<1>1. a.members \subseteq Member
  BY SaveWrites DEF Application
<1>2. links'[t] = {m.id : m \in a.members}
  BY <1>1 DEF Save, ReplaceLinks, IInv, TypeOK, TablesTypeOK
<1>3. ASSUME NEW x \in a.members PROVE memberRole'[x.id] = x.role
  <2>1. memberRole'[x.id] =
            IF memberRole[x.id] = None /\ HasMember(a, x.id)
            THEN (CHOOSE y \in a.members : y.id = x.id).role
            ELSE memberRole[x.id]
    BY <1>1 DEF Save, InsertMembers, Member
  <2>2. HasMember(a, x.id)
    BY DEF HasMember
  <2>3. (CHOOSE y \in a.members : y.id = x.id) = x
    BY DEF JoinedTwice
  <2> QED BY <2>1, <2>2, <2>3 DEF RoleKept
<1>4. SelectMembers(t)' =
        {[id |-> m, role |-> memberRole'[m], joined |-> FALSE] : m \in {x.id : x \in a.members}}
  BY <1>2 DEF SelectMembers
<1> QED BY <1>3, <1>4 DEF StoredForm

---------------------------------------------------------------------------
(* The theorems.                                                           *)

\* A team that has not moved is stored on the track it is validated for.
LEMMA TrackStored ==
    ASSUME IInv, NEW h \in Handlers, Save(h), ~Moved(h), NEW t \in Teams, t = app[h].id
    PROVE  apps'[t].track = app[h].track
BY SaveWrites DEF Moved

\* A confirmation that validation or the waitlist announces takes a free slot, unless
\* another call changed a table meanwhile or the team moved: whatever calls overlap,
\* whoever sets the rules, and whatever tracks the payloads name.
THEOREM SlotsWithinCapacity ==
    ASSUME IsFiniteSet(Teams)
    PROVE  HistorySpec => AdmissionWithinCapacity
<1> DEFINE I == IInv /\ CallInv /\ HistoryInv /\ undisturbed \subseteq Handlers
<1>1. ASSUME I, NEW h \in undisturbed, NEW t \in Teams, NEW k \in Tracks,
             Save(h), app[h].id = t, apps'[t].track = k, request[h].op # "confirm",
             "confirmed" \in app[h].events, ~Moved(h)
      PROVE  CountConfirmed(k)' <= tracks[k].max
  <2>1. h \in Handlers /\ pc[h] = "save"
    BY <1>1 DEF Save
  <2>2. Free(k)
    <3>1. Free(app[h].track)
      BY <1>1, <2>1 DEF HistoryInv, AdmissionOK, SlotFree
    <3>2. app[h].track = k
      BY <1>1, <2>1, TrackStored
    <3> QED BY <3>1, <3>2
  <2> DEFINE C == {u \in Teams : apps[u] # None /\ apps[u].track = k
                                    /\ apps[u].status = "confirmed"}
             D == {u \in Teams : apps'[u] # None /\ apps'[u].track = k
                                    /\ apps'[u].status = "confirmed"}
  <2>3. IsFiniteSet(C) /\ IsFiniteSet(D)
    BY FS_Subset
  <2>4. D \subseteq C \cup {t}
    <3>1. \A u \in Teams : u # t => apps'[u] = apps[u]
      BY <1>1, <2>1, SaveWrites
    <3> QED BY <3>1
  <2>5. CountConfirmed(k) = Cardinality(C) /\ CountConfirmed(k)' = Cardinality(D)
    BY DEF CountConfirmed
  <2> HIDE DEF C, D
  <2>6. /\ IsFiniteSet(C \cup {t})
        /\ Cardinality(C \cup {t}) \in {Cardinality(C), Cardinality(C) + 1}
    BY <2>3, FS_AddElement
  <2>7. Cardinality(D) <= Cardinality(C \cup {t})
    BY <2>4, <2>6, FS_Subset
  <2>8. /\ Cardinality(C) \in Nat /\ Cardinality(D) \in Nat
        /\ tracks[k].max \in Int
    <3>1. Cardinality(C) \in Nat /\ Cardinality(D) \in Nat
      BY <2>3, FS_CardinalityType
    <3>2. tracks[k].max \in Int
      BY <1>1, <2>2 DEF Free, IInv, TypeOK, TablesTypeOK, Config
    <3> QED BY <3>1, <3>2
  <2> QED BY <2>2, <2>5, <2>6, <2>7, <2>8 DEF Free
<1>2. I => [\A h \in undisturbed, t \in Teams, k \in Tracks :
                /\ Save(h) /\ app[h].id = t /\ apps'[t].track = k
                /\ request[h].op # "confirm"
                /\ "confirmed" \in app[h].events
            => CountConfirmed(k)' <= tracks[k].max \/ Moved(h)]_vars
  BY <1>1
<1> QED BY <1>2, HistoryInvariant, UndisturbedHandlers, PTL DEF AdmissionWithinCapacity

\* What validation accepts is a roster that meets the rules in the database, unless
\* another call changed a table meanwhile, the team moved, or the list has a member twice
\* or in another role than its row.
THEOREM RosterAcceptedAsStored ==
    ASSUME IsFiniteSet(Teams), IsFiniteSet(Members)
    PROVE  HistorySpec => AcceptedRosterStored
<1> DEFINE I == IInv /\ CallInv /\ HistoryInv /\ undisturbed \subseteq Handlers
<1>1. ASSUME I, NEW h \in undisturbed, NEW t \in Teams, Save(h), app[h].id = t,
             request[h].op \notin {"confirm", "waitlist"},
             app[h].status \in {"validated", "confirmed"},
             ~Moved(h), ~JoinedTwice(h), ~RoleKept(h)
      PROVE  RosterMeetsRules(t)'
  <2>1. h \in Handlers /\ pc[h] = "save"
    BY <1>1 DEF Save
  <2>2. request[h].op \in {"submit", "update"} \cup RosterOps
    <3>1. app[h].status \in Verdicts(request[h].op)
      BY <1>1, <2>1 DEF CallInv, RequestOK
    <3>2. request[h].op \in OpsAt("save")
      BY <1>1, <2>1, CallBefore DEF CallOK
    <3> QED BY <1>1, <3>1, <3>2 DEF Verdicts, OpsAt, RosterOps
  <2>3. RulesHold(app[h].members, StoredTrack(app[h].track))
    BY <1>1, <2>1, <2>2 DEF HistoryInv, AdmissionOK, RosterValid
  <2>4. RulesHold(StoredForm(app[h].members), StoredTrack(app[h].track))
    <3>1. app[h].members \subseteq Member
      BY <1>1, <2>1, SaveWrites DEF Application
    <3>2. \A x, y \in app[h].members : x.id = y.id => x = y
      BY <1>1 DEF JoinedTwice
    <3> QED BY <2>3, <3>1, <3>2, StoredFormRules
  <2>5. SelectMembers(t)' = StoredForm(app[h].members)
    BY <1>1, <2>1, RosterStored
  <2>6. apps'[t].track = app[h].track
    BY <1>1, <2>1, TrackStored
  <2>7. StoredTrack(apps[t].track)' = StoredTrack(app[h].track)
    BY <1>1, <2>6 DEF Save, StoredTrack, SelectRoles
  <2> QED BY <2>4, <2>5, <2>7 DEF RosterMeetsRules
<1>2. I => [\A h \in undisturbed, t \in Teams :
                /\ Save(h) /\ app[h].id = t
                /\ request[h].op \notin {"confirm", "waitlist"}
                /\ app[h].status \in {"validated", "confirmed"}
            => RosterMeetsRules(t)' \/ Moved(h) \/ JoinedTwice(h) \/ RoleKept(h)]_vars
  BY <1>1
<1> QED BY <1>2, HistoryInvariant, UndisturbedHandlers, PTL DEF AcceptedRosterStored
============================================================================
