-------------------------- MODULE LifecycleProofs --------------------------
(* One call at a time.  While calls do not overlap, what a handler has in  *)
(* memory is what is stored, and each save is a step of the team's life    *)
(* cycle.  It is not so of calls that do: run confirm_race.                *)
EXTENDS ServiceProofs

\* At most one call runs: the consumer's, which awaits each message, or that of an HTTP
\* request that no other call meets.
CallsSerial == \A g, h \in Handlers : pc[g] # "idle" /\ pc[h] # "idle" => g = h

\* The decision a, after the stored one s: which may follow which, and what each
\* announces (team_application.py:58-125).
Follows(s, a) ==
    \/ a.status = "validated" /\ a.events = {"validated"}
    \/ a.status = "confirmed" /\ a.events = {"validated", "confirmed"}
    \/ s = "validated" /\ a.status = "confirmed" /\ a.events = {"confirmed"}
    \/ a.status = "rejected" /\ a.events = {"rejected"}
    \/ s = "confirmed" /\ a.status = "invalid" /\ a.events = {"became_invalid"}
    \/ s = "invalid" /\ a.status = "confirmed" /\ a.events = {"validated"}
    \/ s = "invalid" /\ a.status = "rejected" /\ a.events = {"slot_released", "rejected"}
    \/ s = "invalid" /\ a.status = "invalid" /\ a.events = {}

\* What a call that is alone has in memory: the stored status until it decides, a decision
\* that follows it, and expired applications that are still invalid.
FreshOK(step, r, a, list) ==
    /\ step = "members" => apps[a.id] # None /\ a.status = apps[a.id].status
    /\ step \in {"track", "roles", "count"} /\ r.op # "waitlist"
        => /\ apps[a.id] # None
           /\ r.op \in RosterOps => a.status = apps[a.id].status
    /\ step = "save"
        => /\ r.op # "create" => apps[a.id] # None /\ Follows(apps[a.id].status, a)
           /\ \A x \in list : x.id # a.id
    /\ \A x \in list : HasStatus(x.id, "invalid")
    /\ \A x, y \in list : x.id = y.id => x = y

FreshInv == \A h \in Handlers : FreshOK(pc[h], request[h], app[h], batch[h])

---------------------------------------------------------------------------
(* A decision follows the stored one.                                      *)

\* validate() of the stored application, or of a new one that takes its place.
LEMMA ValidateFollows ==
    ASSUME NEW a \in Application, a.events = {}, NEW s, a.status \in {s, "none"},
           NEW tr, NEW full, NEW time
    PROVE  Follows(s, Validate(a, tr, full, time))
<1>1. CASE RulesHold(a.members, tr)
  BY <1>1 DEF Validate, OnValid, PushEvent, Application, Follows
<1>2. CASE ~RulesHold(a.members, tr)
  BY <1>2 DEF Validate, OnInvalid, Reject, PushEvent, Application, Follows
<1> QED BY <1>1, <1>2

\* The other methods.
LEMMA DecisionFollows ==
    ASSUME NEW a \in Application, a.events = {}
    PROVE  /\ CanConfirm(a) => Follows(a.status, Confirm(a))
           /\ Follows(a.status, Reject(a))
           /\ a.status = "invalid" => Follows(a.status, ExpireGracePeriod(a))
BY DEF CanConfirm, Confirm, Reject, ExpireGracePeriod, PushEvent, Application, Follows

---------------------------------------------------------------------------
(* Every step keeps FreshInv.                                              *)

\* A call that starts or reads.
LEMMA FreshLoad ==
    ASSUME IInv, CallInv, FreshInv, NEW h \in Handlers,
           \/ Begin(h) \/ SubmitOrUpdate(h) \/ LoadRow(h) \/ ChangeRoster(h)
           \/ LoadTrack(h) \/ LoadRoles(h) \/ WaitlistOpen(h) \/ NextWaiting(h)
    PROVE  FreshOK(pc[h], request[h], app[h], batch[h])'
<1>1. apps' = apps /\ batch' = batch
  BY DEF Begin, SubmitOrUpdate, LoadRow, ChangeRoster, LoadTrack, LoadRoles, WaitlistOpen,
         NextWaiting, tables
<1>2. CASE Begin(h)
  <2>1. /\ batch[h] = {}
        /\ pc'[h] \in {"save", "track", "expired", "row"}
        /\ pc'[h] = "save" => request'[h].op = "create"
        /\ pc'[h] = "track" => request'[h].op = "waitlist"
    BY <1>2, CallBefore
    DEF Begin, Goto, FirstStep, CallOK, IInv, TypeOK, LocalsTypeOK
  <2> QED BY <1>1, <2>1 DEF FreshOK
<1>3. CASE SubmitOrUpdate(h)
  <2>1. /\ app'[h] = BuildApplication(request[h]) /\ pc'[h] = "track" /\ request' = request
        /\ apps[request[h].team] # None /\ request[h].op \in {"submit", "update"}
    BY <1>3 DEF SubmitOrUpdate, Goto, IInv, TypeOK, LocalsTypeOK
  <2>2. app'[h].id = request[h].team
    BY <2>1 DEF BuildApplication, NewApplication
  <2> QED BY <1>1, <2>1, <2>2 DEF FreshOK, FreshInv, HasStatus, RosterOps
<1>4. CASE LoadRow(h)
  <2>1. /\ app'[h] = RowApplication(request[h].team) /\ pc'[h] = "members"
        /\ apps[request[h].team] # None
    BY <1>4 DEF LoadRow, Goto, IInv, TypeOK, LocalsTypeOK
  <2> QED BY <1>1, <2>1 DEF FreshOK, FreshInv, HasStatus, RowApplication
<1>5. CASE NextWaiting(h)
  <2>1. PICK t \in Teams : Waiting(t, request[h].track) /\ app'[h] = RowApplication(t)
    BY <1>5 DEF NextWaiting, IInv, TypeOK, LocalsTypeOK
  <2>2. pc'[h] = "members"
    BY <1>5 DEF NextWaiting, Goto, IInv, TypeOK, LocalsTypeOK
  <2> QED BY <1>1, <2>1, <2>2 DEF FreshOK, FreshInv, HasStatus, RowApplication, Waiting
<1>6. CASE ChangeRoster(h)
  <2>1. pc[h] = "members" /\ pc'[h] = "track" /\ request' = request
    BY <1>6 DEF ChangeRoster, Goto, IInv, TypeOK, LocalsTypeOK
  <2>2. /\ Loaded(h) \in Application /\ Loaded(h).id = app[h].id
        /\ Loaded(h).status = app[h].status
    BY <2>1, LoadedUndecided, CallBefore DEF Undecided, Loaded, CallOK, Application
  <2>3. PICK m, role, b :
          /\ b \in {RemoveMember(Loaded(h), m), AddMember(Loaded(h), m, role),
                    ChangeMemberRole(Loaded(h), m, role)}
          /\ app'[h] = b
    BY <1>6 DEF ChangeRoster, IInv, TypeOK, LocalsTypeOK
  <2>4. app'[h].id = app[h].id /\ app'[h].status = app[h].status
    BY <2>2, <2>3, EditKeeps
  <2> QED BY <1>1, <2>1, <2>4 DEF FreshOK, FreshInv, HasStatus
<1>7. CASE LoadTrack(h) \/ LoadRoles(h)
  <2>1. /\ pc[h] \in {"track", "roles"} /\ pc'[h] \in {"roles", "count"}
        /\ request' = request /\ app' = app
    BY <1>7 DEF LoadTrack, LoadRoles, Goto, IInv, TypeOK, LocalsTypeOK
  <2> QED BY <1>1, <2>1 DEF FreshOK, FreshInv, HasStatus
<1>8. CASE WaitlistOpen(h)
  <2>1. pc'[h] = "next"
    BY <1>8 DEF WaitlistOpen, Goto, IInv, TypeOK, LocalsTypeOK
  <2> QED BY <1>1, <2>1 DEF FreshOK, FreshInv, HasStatus
<1> QED BY <1>2, <1>3, <1>4, <1>5, <1>6, <1>7, <1>8

\* A call that decides: the stored decision is the one it read.
LEMMA FreshDecision ==
    ASSUME IInv, CallInv, FreshInv, NEW h \in Handlers,
           ValidateApplication(h) \/ Decide(h) \/ ExpireOne(h)
    PROVE  FreshOK(pc[h], request[h], app[h], batch[h])'
<1>1. apps' = apps /\ request' = request /\ pc'[h] = "save"
  BY DEF ValidateApplication, Decide, ExpireOne, tables, Goto, IInv, TypeOK, LocalsTypeOK
<1>2. FreshOK(pc[h], request[h], app[h], batch[h])
  BY DEF FreshInv
<1>3. ASSUME batch' = batch, batch[h] = {}, app'[h].id = app[h].id, apps[app[h].id] # None,
             Follows(apps[app[h].id].status, app'[h])
      PROVE  FreshOK(pc[h], request[h], app[h], batch[h])'
  BY <1>1, <1>3 DEF FreshOK, Follows
<1>4. CASE ValidateApplication(h)
  <2>1. /\ pc[h] = "count" /\ request[h].op # "waitlist" /\ batch' = batch
        /\ app'[h] = Validate(app[h], track[h], TrackIsFull(h), now)
    BY <1>4 DEF ValidateApplication, IInv, TypeOK, LocalsTypeOK
  <2>2. /\ app[h] \in Application /\ app[h].events = {} /\ batch[h] = {}
        /\ request[h].op \in {"submit", "update"} \cup RosterOps
    BY <2>1, CallBefore DEF CallOK, OpsAt, Undecided, RosterOps
  <2>3. apps[app[h].id] # None /\ app[h].status \in {apps[app[h].id].status, "none"}
    <3>1. CASE request[h].op \in RosterOps
      BY <1>2, <2>1, <3>1 DEF FreshOK
    <3>2. CASE request[h].op \in {"submit", "update"}
      <4>1. BuildApplication(request[h]).status = "none"
        BY DEF BuildApplication, NewApplication
      <4>2. app[h].status = "none"
        BY <2>1, <3>2, <4>1 DEF CallInv, RequestOK
      <4> QED BY <1>2, <2>1, <4>2 DEF FreshOK
    <3> QED BY <2>2, <3>1, <3>2
  <2>4. app'[h].id = app[h].id
    BY <2>1, <2>2, ValidateKeeps
  <2>5. Follows(apps[app[h].id].status, app'[h])
    BY <2>1, <2>2, <2>3, ValidateFollows
  <2> QED BY <1>3, <2>1, <2>2, <2>3, <2>4, <2>5
<1>5. CASE Decide(h)
  <2>1. pc[h] = "members" /\ batch' = batch
    BY <1>5 DEF Decide
  <2>2. /\ Loaded(h) \in Application /\ Loaded(h).id = app[h].id
        /\ Loaded(h).status = app[h].status /\ Loaded(h).events = {}
        /\ batch[h] = {}
    BY <2>1, LoadedUndecided, CallBefore DEF Undecided, Loaded, CallOK, Application, OpsAt
  <2>3. \/ CanConfirm(Loaded(h)) /\ app'[h] = Confirm(Loaded(h))
        \/ app'[h] = Reject(Loaded(h))
    BY <1>5, <2>2 DEF Decide, CanConfirm, IInv, TypeOK, LocalsTypeOK
  <2>4. apps[app[h].id] # None /\ app[h].status = apps[app[h].id].status
    BY <1>2, <2>1 DEF FreshOK
  <2>5. Follows(apps[app[h].id].status, app'[h]) /\ app'[h].id = app[h].id
    BY <2>2, <2>3, <2>4, DecisionFollows, DecisionKeeps
  <2> QED BY <1>3, <2>1, <2>2, <2>4, <2>5
<1>6. CASE ExpireOne(h)
  <2>1. PICK x \in batch[h] :
          app'[h] = ExpireGracePeriod(x) /\ batch'[h] = batch[h] \ {x}
    BY <1>6 DEF ExpireOne, IInv, TypeOK, LocalsTypeOK
  <2>2. x \in Application /\ x.status = "invalid" /\ x.events = {}
    BY <2>1, CallBefore DEF CallOK, Undecided
  <2>3. app'[h].id = x.id /\ Follows("invalid", app'[h])
    BY <2>1, <2>2, DecisionKeeps, DecisionFollows
  <2>4. /\ \A y \in batch[h] : HasStatus(y.id, "invalid")
        /\ \A y, z \in batch[h] : y.id = z.id => y = z
    BY <1>2 DEF FreshOK
  <2>5. apps[x.id] # None /\ Follows(apps[x.id].status, app'[h])
    BY <2>1, <2>3, <2>4 DEF HasStatus
  <2> QED BY <1>1, <2>1, <2>3, <2>4, <2>5 DEF FreshOK, HasStatus
<1> QED BY <1>4, <1>5, <1>6

\* A call that reads the expired applications.
LEMMA FreshList ==
    ASSUME IInv, FreshInv, NEW h \in Handlers,
           SelectExpired(h) \/ SelectExpiredMembers(h)
    PROVE  FreshOK(pc[h], request[h], app[h], batch[h])'
<1>1. apps' = apps /\ pc'[h] \in {"expired members", "expire"}
  BY DEF SelectExpired, SelectExpiredMembers, tables, Goto, IInv, TypeOK, LocalsTypeOK
<1>2. CASE SelectExpired(h)
  <2>1. batch'[h] = {RowApplication(t) : t \in {u \in Teams : Expired(u)}}
    BY <1>2 DEF SelectExpired, IInv, TypeOK, LocalsTypeOK
  <2>2. /\ \A x \in batch'[h] : HasStatus(x.id, "invalid") /\ x = RowApplication(x.id)
    BY <2>1 DEF RowApplication, Expired, HasStatus
  <2> QED BY <1>1, <2>2 DEF FreshOK, HasStatus
<1>3. CASE SelectExpiredMembers(h)
  <2>1. batch'[h] = {[x EXCEPT !.members = SelectMembers(x.id)] : x \in batch[h]}
    BY <1>3 DEF SelectExpiredMembers, IInv, TypeOK, LocalsTypeOK
  <2>2. \A y \in batch'[h] : \E x \in batch[h] :
            y.id = x.id /\ y = [x EXCEPT !.members = SelectMembers(x.id)]
    <3>1. \A x \in batch[h] : x \in Application
      BY DEF IInv, TypeOK, LocalsTypeOK
    <3> QED BY <2>1, <3>1 DEF Application
  <2>3. /\ \A x \in batch[h] : HasStatus(x.id, "invalid")
        /\ \A x, y \in batch[h] : x.id = y.id => x = y
    BY DEF FreshInv, FreshOK
  <2>4. \A x, y \in batch'[h] : x.id = y.id => x = y
    BY <2>2, <2>3
  <2>5. \A y \in batch'[h] : HasStatus(y.id, "invalid")
    BY <2>2, <2>3
  <2> QED BY <1>1, <2>4, <2>5 DEF FreshOK, HasStatus
<1> QED BY <1>2, <1>3

\* A call that saves, and may go on with the rest of the list.
LEMMA FreshSave ==
    ASSUME IInv, FreshInv, NEW h \in Handlers, Save(h)
    PROVE  FreshOK(pc[h], request[h], app[h], batch[h])'
<1>1. CASE pc'[h] = "idle" /\ batch'[h] = {}
  BY <1>1 DEF FreshOK
<1>2. CASE pc'[h] = "expire" /\ batch'[h] = batch[h]
  <2>1. /\ \A x \in batch[h] : HasStatus(x.id, "invalid") /\ x.id # app[h].id
        /\ \A x, y \in batch[h] : x.id = y.id => x = y
    BY DEF FreshInv, FreshOK, Save
  <2>2. \A x \in batch[h] : x.id \in Teams
    BY CallBefore DEF CallOK, Undecided, Application
  <2>3. \A x \in batch[h] : apps'[x.id] = apps[x.id]
    BY <2>1, <2>2, SaveWrites
  <2> QED BY <1>2, <2>1, <2>3 DEF FreshOK, HasStatus
<1> QED BY <1>1, <1>2, SaveForgets

\* Each of these steps belongs to a call: it starts one or finds one.
LEMMA StepLeavesIdle ==
    ASSUME IInv, NEW h \in Handlers,
           \/ Begin(h) \/ SubmitOrUpdate(h) \/ LoadRow(h) \/ ChangeRoster(h)
           \/ LoadTrack(h) \/ LoadRoles(h) \/ WaitlistOpen(h) \/ NextWaiting(h)
           \/ ValidateApplication(h) \/ Decide(h) \/ ExpireOne(h)
           \/ SelectExpired(h) \/ SelectExpiredMembers(h) \/ Save(h)
    PROVE  pc[h] # "idle" \/ pc'[h] # "idle"
<1>1. CASE Begin(h)
  BY <1>1 DEF Begin, Goto, FirstStep, IInv, TypeOK, LocalsTypeOK
<1>2. CASE ~Begin(h)
  BY <1>2
  DEF SubmitOrUpdate, LoadRow, ChangeRoster, LoadTrack, LoadRoles, WaitlistOpen, NextWaiting,
      ValidateApplication, Decide, ExpireOne, SelectExpired, SelectExpiredMembers, Save
<1> QED BY <1>1, <1>2

\* While one call runs, every other handler is idle and has nothing in memory that counts.
LEMMA OthersIdle ==
    ASSUME IInv, IInv', CallsSerial, CallsSerial',
           NEW h \in Handlers, Call(h) \/ Abort(h), pc[h] # "idle" \/ pc'[h] # "idle",
           NEW g \in Handlers, g # h
    PROVE  pc'[g] = "idle" /\ batch'[g] = {}
<1>1. pc'[g] = pc[g]
  BY OthersKeep DEF Memory
<1>2. pc'[g] = "idle"
  BY <1>1 DEF CallsSerial
<1>3. batch'[g] = {}
  BY <1>2 DEF IInv, LocalsOK, CallOK
<1> QED BY <1>2, <1>3

\* Every step keeps FreshInv, while calls do not overlap.
LEMMA FreshStep ==
    ASSUME IInv, IInv', CallInv, FreshInv, CallsSerial, CallsSerial', [Next]_vars
    PROVE  FreshInv'
<1>1. ASSUME NEW h \in Handlers, Call(h) \/ Abort(h), pc[h] # "idle" \/ pc'[h] # "idle",
             FreshOK(pc[h], request[h], app[h], batch[h])'
      PROVE  FreshInv'
  <2>1. ASSUME NEW g \in Handlers, g # h
        PROVE  FreshOK(pc[g], request[g], app[g], batch[g])'
    BY <1>1, <2>1, OthersIdle DEF FreshOK
  <2> QED BY <1>1, <2>1 DEF FreshInv
<1>2. ASSUME UNCHANGED <<apps, locals>> PROVE FreshInv'
  BY <1>2 DEF locals, FreshInv, FreshOK, HasStatus
<1>3. ASSUME NEW h \in Handlers, Call(h) \/ Abort(h), pc[h] # "idle", Finish(h)
      PROVE  FreshInv'
  BY <1>1, <1>3, FinishForgets DEF FreshOK
<1>4. ASSUME NEW h \in Handlers, Call(h) PROVE FreshInv'
  <2>1. CASE \/ ApplicationNotFound(h) \/ SubmitConfirmed(h) \/ GiveUp(h)
             \/ TrackNotFound(h) \/ WaitlistFull(h) \/ NoneWaiting(h) \/ NoneExpired(h)
             \/ SaveFails(h)
    BY <1>3, <1>4, <2>1
    DEF ApplicationNotFound, SubmitConfirmed, GiveUp, TrackNotFound, WaitlistFull,
        NoneWaiting, NoneExpired, SaveFails
  <2>2. CASE UpdateTrackRoles(h)
    BY <1>2, <2>2 DEF UpdateTrackRoles, StoreTrackRoles
  <2>3. CASE \/ Begin(h) \/ SubmitOrUpdate(h) \/ LoadRow(h) \/ ChangeRoster(h)
             \/ LoadTrack(h) \/ LoadRoles(h) \/ WaitlistOpen(h) \/ NextWaiting(h)
             \/ ValidateApplication(h) \/ Decide(h) \/ ExpireOne(h)
             \/ SelectExpired(h) \/ SelectExpiredMembers(h) \/ Save(h)
    <3>1. FreshOK(pc[h], request[h], app[h], batch[h])'
      BY <2>3, FreshLoad, FreshDecision, FreshList, FreshSave
    <3>2. pc[h] # "idle" \/ pc'[h] # "idle"
      BY <2>3, StepLeavesIdle
    <3> QED BY <1>1, <1>4, <3>1, <3>2
  <2> QED BY <1>4, <2>1, <2>2, <2>3 DEF Call
<1>5. CASE \E h \in Handlers : Abort(h)
  BY <1>3, <1>5 DEF Abort
<1>6. CASE ProcessEnds
  BY <1>6 DEF ProcessEnds, FreshInv, FreshOK
<1>7. CASE Tick \/ UNCHANGED vars \/ \E k \in Tracks : CreateRule(k)
  BY <1>2, <1>7 DEF Tick, vars, tables, CreateRule
<1> QED BY <1>4, <1>5, <1>6, <1>7 DEF Next

\* What a call has in memory is fresh, while calls do not overlap.
LEMMA FreshInvariant == Spec /\ []CallsSerial => [](IInv /\ CallInv /\ FreshInv)
<1>1. Init => FreshInv
  BY DEF Init, FreshInv, FreshOK
<1>2. /\ IInv /\ IInv' /\ CallInv /\ FreshInv /\ CallsSerial /\ CallsSerial' /\ [Next]_vars
      => FreshInv'
  BY FreshStep
<1> QED BY <1>1, <1>2, Invariant, CallsFollowRequests, PTL DEF Spec

---------------------------------------------------------------------------
(* The life cycle.                                                         *)

\* The status of every team, as TeamLifecycle sees it.
Statuses == [t \in Teams |-> IF apps[t] = None THEN "absent" ELSE apps[t].status]

\* A save that is not a stutter decides about one team and announces the decision.
LEMMA SaveDecides ==
    ASSUME IInv, NEW h \in Handlers, Save(h)
    PROVE  /\ app[h].id \in Teams
           /\ Statuses' = [Statuses EXCEPT ![app[h].id] = app[h].status]
           /\ outbox' = [outbox EXCEPT ![app[h].id] =
                            IF app[h].events = {} THEN @ ELSE app[h].events]
<1>1. app[h].id \in Teams
  BY SaveWrites DEF Application
<1>2. \A t \in Teams :
        (IF apps[t] = None THEN "absent" ELSE apps[t].status)' =
            IF t = app[h].id THEN app[h].status
            ELSE IF apps[t] = None THEN "absent" ELSE apps[t].status
  BY SaveWrites
<1>3. Statuses' = [Statuses EXCEPT ![app[h].id] = app[h].status]
  BY <1>1, <1>2 DEF Statuses
<1> QED BY <1>1, <1>3 DEF Save, InsertOutbox

\* A save is a step of the life cycle.
LEMMA SaveRefines ==
    ASSUME IInv, CallInv, FreshInv, NEW h \in Handlers, Save(h)
    PROVE  [Lifecycle!Next]_<<Statuses, outbox>>
<1>t. PICK t \in Teams : t = app[h].id
  BY SaveDecides
<1> DEFINE s == apps[t].status
<1>1. /\ t \in Teams /\ Statuses' = [Statuses EXCEPT ![t] = app[h].status]
      /\ outbox' = [outbox EXCEPT ![t] = IF app[h].events = {} THEN @ ELSE app[h].events]
      /\ outbox \in [Teams -> SUBSET Topic]
  BY <1>t, SaveDecides DEF IInv, TypeOK, TablesTypeOK
<1>2. pc[h] = "save"
  BY DEF Save
<1>3. CASE request[h].op = "create"
  <2>1. app[h] = BuildApplication(request[h])
    BY <1>2, <1>3 DEF CallInv, RequestOK
  <2>2. app[h].status = "none" /\ app[h].events = {}
    BY <2>1 DEF BuildApplication, NewApplication
  <2>3. Lifecycle!Create(t)
    BY <1>1, <2>2 DEF Lifecycle!Create, Statuses
  <2>4. Lifecycle!Next
    BY <1>1, <2>3 DEF Lifecycle!Next
  <2> QED BY <2>4
<1>4. CASE request[h].op # "create"
  <2>1. apps[t] # None /\ Follows(s, app[h]) /\ Statuses[t] = s
    BY <1>t, <1>1, <1>2, <1>4 DEF FreshInv, FreshOK, Statuses
  <2>2. s \in Status
    BY <1>1, <2>1 DEF IInv, TypeOK, TablesTypeOK, Row
  <2>3. Statuses[t] # "absent"
    BY <2>1, <2>2 DEF Status
  <2> DEFINE D(new, events) ==
                /\ Statuses' = [Statuses EXCEPT ![t] = new]
                /\ outbox' = [outbox EXCEPT ![t] = events]
  <2>4. app[h].events # {} => D(app[h].status, app[h].events)
    BY <1>1
  <2>5. CASE app[h].events = {}
    <3>1. app[h].status = s
      BY <2>1, <2>5 DEF Follows
    <3>2. Statuses' = Statuses /\ outbox' = outbox
      BY <1>1, <2>1, <2>5, <3>1 DEF Statuses
    <3> QED BY <3>2
  <2>6. CASE app[h].events # {}
    <3>1. D(app[h].status, app[h].events)
      BY <2>4, <2>6
    <3>2. \/ Lifecycle!Accept(t) \/ Lifecycle!Admit(t) \/ Lifecycle!Confirm(t)
          \/ Lifecycle!Refuse(t) \/ Lifecycle!Invalidate(t) \/ Lifecycle!Recover(t)
          \/ Lifecycle!Expire(t)
      BY <2>1, <2>3, <2>6, <3>1
      DEF Follows, Statuses, Lifecycle!Decide, Lifecycle!Accept, Lifecycle!Admit,
          Lifecycle!Confirm, Lifecycle!Refuse, Lifecycle!Invalidate, Lifecycle!Recover,
          Lifecycle!Expire
    <3>3. Lifecycle!Next
      BY <1>1, <3>2 DEF Lifecycle!Next
    <3> QED BY <3>3
  <2> QED BY <2>5, <2>6
<1> QED BY <1>3, <1>4

\* While calls do not overlap, the service implements the life cycle: every decision
\* follows the stored one, and the save that stores it announces it.
THEOREM ServiceImplementsLifecycle == Spec /\ []CallsSerial => LifecycleSpec
<1>1. Init => Lifecycle!Init
  BY DEF Init, Lifecycle!Init
<1>2. IInv /\ CallInv /\ FreshInv /\ [Next]_vars => [Lifecycle!Next]_(Lifecycle!vars)
  <2>1. ASSUME IInv, CallInv, FreshInv, NEW h \in Handlers, Save(h)
        PROVE  [Lifecycle!Next]_(Lifecycle!vars)
    BY <2>1, SaveRefines DEF Lifecycle!vars, Statuses
  <2>2. ASSUME [Next]_vars, \A h \in Handlers : ~Save(h)
        PROVE  UNCHANGED Lifecycle!vars
    BY <2>2, OnlySavesWrite DEF Lifecycle!vars
  <2> QED BY <2>1, <2>2
<1> QED BY <1>1, <1>2, FreshInvariant, PTL DEF Spec, LifecycleSpec, Lifecycle!Spec
============================================================================
