---------------------------- MODULE GraceProofs ----------------------------
(* The grace period of a confirmed team, proved while the other handlers   *)
(* go on.  The messages about rosters come one at a time, from the topics  *)
(* the consumer reads; every HTTP request, and every create, submit,       *)
(* update, confirmation and refusal that another handler makes, may run    *)
(* between two of its statements.                                          *)
EXTENDS ServiceProofs

\* Only handler c changes stored rosters, as only the consumer does
\* (consumer.py:83-113, confirmation_router.py:30,44).
RosterHandler(c) ==
    \A h \in Handlers \ {c} : \A r \in Inbox[h] : r.op \notin RosterOps

\* Only handler c ends grace periods.
ExpiryHandler(c) ==
    \A h \in Handlers \ {c} : \A r \in Inbox[h] : r.op # "expire"

\* A handler that changes the roster of a team that is invalid has its deadline in memory.
GraceKept(step, r, a) ==
    r.op \in RosterOps /\ HasStatus(a.id, "invalid") =>
        /\ step \in {"members", "track", "roles", "count"}
            => a.status = "invalid" /\ a.deadline = apps[a.id].deadline
        /\ step = "save"
            => /\ a.status # "rejected"
               /\ a.status = "invalid" => a.deadline = apps[a.id].deadline

RosterInv(c) == GraceKept(pc[c], request[c], app[c])

\* A team that is invalid and about to be expired is one whose deadline has passed.
ExpiryInv(c) ==
    /\ pc[c] = "save" /\ request[c].op = "expire" /\ HasStatus(app[c].id, "invalid")
        => apps[app[c].id].deadline < now
    /\ \A x \in batch[c] : HasStatus(x.id, "invalid") => apps[x.id].deadline < now

---------------------------------------------------------------------------
(* The steps of the other handlers, and those that write no row.           *)

\* A step that starts no grace period, and is not one of c, leaves c right.
LEMMA GraceOthers ==
    ASSUME IInv, [Next]_vars, NEW c \in Handlers, RosterInv(c), ExpiryInv(c),
           Memory(c)' = Memory(c),
           \A t \in Teams : HasStatus(t, "invalid")' =>
                HasStatus(t, "invalid") /\ apps'[t].deadline = apps[t].deadline
    PROVE  RosterInv(c)' /\ ExpiryInv(c)'
<1>1. /\ pc'[c] = pc[c] /\ request'[c] = request[c] /\ app'[c] = app[c]
      /\ batch'[c] = batch[c]
  BY DEF Memory
<1>2. /\ pc[c] \in {"members", "save"} => app[c].id \in Teams
      /\ pc[c] \in {"track", "roles", "count"} /\ request[c].op # "waitlist"
            => app[c].id \in Teams
      /\ \A x \in batch[c] : x.id \in Teams
  BY CallBefore DEF CallOK, Undecided, Decided, Application
<1>3. \A t \in Teams : HasStatus(t, "invalid") => apps[t].deadline \in Int
  BY DEF IInv, RowCoherent, HasStatus, TypeOK, TablesTypeOK, Row
<1>4. RosterInv(c)'
  BY <1>1, <1>2 DEF RosterInv, GraceKept, RosterOps
<1>5. ExpiryInv(c)'
  <2>1. now \in Int /\ now' \in Int /\ now <= now'
    BY ClockAdvances
  <2> QED BY <1>1, <1>2, <1>3, <2>1 DEF ExpiryInv
<1> QED BY <1>4, <1>5

\* A call that starts, goes on or ends has what its row says in memory.
LEMMA GraceLoad ==
    ASSUME IInv, CallInv, NEW c \in Handlers, RosterInv(c), ExpiryInv(c),
           \/ Begin(c) \/ SubmitOrUpdate(c) \/ LoadRow(c) \/ ChangeRoster(c)
           \/ LoadTrack(c) \/ LoadRoles(c) \/ WaitlistOpen(c) \/ NextWaiting(c)
    PROVE  RosterInv(c)' /\ ExpiryInv(c)'
<1>1. /\ apps' = apps /\ now' = now /\ batch' = batch
      /\ pc'[c] = "save" => request'[c].op = "create"
  BY DEF Begin, SubmitOrUpdate, LoadRow, ChangeRoster, LoadTrack, LoadRoles, WaitlistOpen,
         NextWaiting, tables, Goto, FirstStep, IInv, TypeOK, LocalsTypeOK
<1>2. ExpiryInv(c)'
  BY <1>1 DEF ExpiryInv, HasStatus
<1>3. CASE Begin(c) \/ SubmitOrUpdate(c) \/ WaitlistOpen(c) \/ NextWaiting(c)
  <2>1. request'[c].op \in RosterOps => pc'[c] \notin {"members", "track", "roles", "count", "save"}
    BY <1>3, CallBefore
    DEF Begin, SubmitOrUpdate, WaitlistOpen, NextWaiting, Goto, FirstStep, RosterOps, OpsAt,
        CallOK, IInv, TypeOK, LocalsTypeOK
  <2> QED BY <1>2, <2>1 DEF RosterInv, GraceKept
<1>4. CASE LoadRow(c)
  <2>1. /\ app'[c] = RowApplication(request[c].team) /\ pc'[c] = "members"
        /\ request' = request
    BY <1>4 DEF LoadRow, Goto, IInv, TypeOK, LocalsTypeOK
  <2> QED BY <1>1, <1>2, <2>1 DEF RosterInv, GraceKept, HasStatus, RowApplication
<1>5. CASE ChangeRoster(c)
  <2>1. pc[c] = "members" /\ pc'[c] = "track" /\ request' = request
    BY <1>5 DEF ChangeRoster, Goto, IInv, TypeOK, LocalsTypeOK
  <2>2. /\ Loaded(c) \in Application /\ Loaded(c).id = app[c].id
        /\ Loaded(c).status = app[c].status /\ Loaded(c).deadline = app[c].deadline
    BY <2>1, LoadedUndecided, CallBefore DEF Undecided, Loaded, CallOK, Application
  <2>3. PICK m, role, b :
          /\ b \in {RemoveMember(Loaded(c), m), AddMember(Loaded(c), m, role),
                    ChangeMemberRole(Loaded(c), m, role)}
          /\ app'[c] = b
    BY <1>5 DEF ChangeRoster, IInv, TypeOK, LocalsTypeOK
  <2>4. /\ app'[c].id = app[c].id /\ app'[c].status = app[c].status
        /\ app'[c].deadline = app[c].deadline
    BY <2>2, <2>3, EditKeeps
  <2> QED BY <1>1, <1>2, <2>1, <2>4 DEF RosterInv, GraceKept, HasStatus
<1>6. CASE LoadTrack(c) \/ LoadRoles(c)
  <2>1. /\ pc[c] \in {"track", "roles"} /\ pc'[c] \in {"roles", "count"}
        /\ request' = request /\ app' = app
    BY <1>6 DEF LoadTrack, LoadRoles, Goto, IInv, TypeOK, LocalsTypeOK
  <2> QED BY <1>1, <1>2, <2>1 DEF RosterInv, GraceKept, HasStatus
<1> QED BY <1>3, <1>4, <1>5, <1>6

\* validate() of an invalid application keeps the grace period or ends it with the
\* confirmation (team_application.py:103-109).
LEMMA ValidateGrace ==
    ASSUME NEW a \in Application, a.status = "invalid", NEW tr, NEW full, NEW time
    PROVE  LET v == Validate(a, tr, full, time) IN
           /\ v.status # "rejected"
           /\ v.status = "invalid" => v.deadline = a.deadline
BY DEF Validate, OnValid, OnInvalid, PushEvent, Application

\* A decision does not shorten a grace period.
LEMMA GraceDecision ==
    ASSUME IInv, CallInv, NEW c \in Handlers, RosterInv(c), ExpiryInv(c),
           ValidateApplication(c) \/ Decide(c) \/ ExpireOne(c)
    PROVE  RosterInv(c)' /\ ExpiryInv(c)'
<1>1. /\ apps' = apps /\ now' = now /\ request' = request /\ pc'[c] = "save"
  BY DEF ValidateApplication, Decide, ExpireOne, tables, Goto, IInv, TypeOK, LocalsTypeOK
<1>2. CASE ValidateApplication(c)
  <2>1. /\ pc[c] = "count" /\ request[c].op # "waitlist" /\ batch' = batch
        /\ app'[c] = Validate(app[c], track[c], TrackIsFull(c), now)
    BY <1>2 DEF ValidateApplication, IInv, TypeOK, LocalsTypeOK
  <2>2. app[c] \in Application /\ request[c].op # "expire"
    BY <2>1, CallBefore DEF CallOK, OpsAt, Undecided
  <2>3. app'[c].id = app[c].id
    BY <2>1, <2>2, ValidateKeeps
  <2>4. app[c].status = "invalid" =>
            /\ app'[c].status # "rejected"
            /\ app'[c].status = "invalid" => app'[c].deadline = app[c].deadline
    BY <2>1, <2>2, ValidateGrace
  <2>5. RosterInv(c)'
    BY <1>1, <2>1, <2>3, <2>4 DEF RosterInv, GraceKept, HasStatus
  <2>6. ExpiryInv(c)'
    BY <1>1, <2>1, <2>2 DEF ExpiryInv, HasStatus
  <2> QED BY <2>5, <2>6
<1>3. CASE Decide(c)
  <2>1. request[c].op \in {"confirm", "waitlist", "reject"} /\ batch' = batch
    BY <1>3 DEF Decide
  <2> QED BY <1>1, <2>1 DEF RosterInv, GraceKept, ExpiryInv, HasStatus, RosterOps
<1>4. CASE ExpireOne(c)
  <2>1. PICK x \in batch[c] :
          app'[c] = ExpireGracePeriod(x) /\ batch'[c] = batch[c] \ {x}
    BY <1>4 DEF ExpireOne, IInv, TypeOK, LocalsTypeOK
  <2>2. x \in Application /\ x.status = "invalid" /\ request[c].op = "expire"
    BY <1>4, <2>1, CallBefore DEF ExpireOne, CallOK, OpsAt, Undecided
  <2>3. app'[c].id = x.id
    BY <2>1, <2>2, DecisionKeeps
  <2> QED
    BY <1>1, <2>1, <2>2, <2>3 DEF RosterInv, GraceKept, ExpiryInv, HasStatus, RosterOps
<1> QED BY <1>2, <1>3, <1>4

\* The list of expired applications is read with the clock that expires them.
LEMMA GraceList ==
    ASSUME IInv, NEW c \in Handlers, ExpiryInv(c),
           SelectExpired(c) \/ SelectExpiredMembers(c)
    PROVE  RosterInv(c)' /\ ExpiryInv(c)'
<1>1. /\ apps' = apps /\ now' = now /\ pc'[c] \in {"expired members", "expire"}
  BY DEF SelectExpired, SelectExpiredMembers, tables, Goto, IInv, TypeOK, LocalsTypeOK
<1>2. CASE SelectExpired(c)
  <2>1. batch'[c] = {RowApplication(t) : t \in {u \in Teams : Expired(u)}}
    BY <1>2 DEF SelectExpired, IInv, TypeOK, LocalsTypeOK
  <2>2. \A x \in batch'[c] : apps[x.id].deadline < now
    BY <2>1 DEF RowApplication, Expired
  <2> QED BY <1>1, <2>2 DEF RosterInv, GraceKept, ExpiryInv, HasStatus
<1>3. CASE SelectExpiredMembers(c)
  <2>1. batch'[c] = {[x EXCEPT !.members = SelectMembers(x.id)] : x \in batch[c]}
    BY <1>3 DEF SelectExpiredMembers, IInv, TypeOK, LocalsTypeOK
  <2>2. \A y \in batch'[c] : \E x \in batch[c] : y.id = x.id
    <3>1. \A x \in batch[c] : x \in Application
      BY DEF IInv, TypeOK, LocalsTypeOK
    <3> QED BY <2>1, <3>1 DEF Application
  <2> QED BY <1>1, <2>2 DEF RosterInv, GraceKept, ExpiryInv, HasStatus
<1> QED BY <1>2, <1>3

\* A saved application is no longer in the list, or is not invalid any more.
LEMMA GraceSave ==
    ASSUME IInv, CallInv, NEW c \in Handlers, ExpiryInv(c), Save(c)
    PROVE  RosterInv(c)' /\ ExpiryInv(c)'
<1>1. CASE pc'[c] = "idle" /\ batch'[c] = {}
  BY <1>1 DEF RosterInv, GraceKept, ExpiryInv
<1>2. CASE /\ pc'[c] = "expire" /\ batch'[c] = batch[c]
           /\ request'[c] = request[c] /\ request[c].op = "expire"
  <2>1. app[c].status = "rejected"
    BY <1>2 DEF CallInv, RequestOK, Verdicts, RosterOps, Save
  <2>2. /\ apps'[app[c].id].status = "rejected" /\ now' = now
        /\ \A t \in Teams : t # app[c].id => apps'[t] = apps[t]
    BY <2>1, SaveWrites
  <2>3. \A x \in batch[c] : x.id \in Teams
    BY CallBefore DEF CallOK, Undecided, Application
  <2>4. ASSUME NEW x \in batch'[c], HasStatus(x.id, "invalid")'
        PROVE  apps'[x.id].deadline < now'
    <3>1. x.id # app[c].id
      BY <2>2, <2>4 DEF HasStatus
    <3>2. apps'[x.id] = apps[x.id] /\ HasStatus(x.id, "invalid")
      BY <1>2, <2>2, <2>3, <2>4, <3>1 DEF HasStatus
    <3> QED BY <1>2, <2>2, <3>2 DEF ExpiryInv
  <2> QED BY <1>2, <2>4 DEF RosterInv, GraceKept, ExpiryInv, RosterOps
<1> QED BY <1>1, <1>2, SaveForgets

\* A grace period starts only where a stored roster changes.
LEMMA GraceStarts ==
    ASSUME CallInv, NEW h \in Handlers, pc[h] = "save", app[h].status = "invalid"
    PROVE  request[h].op \in RosterOps /\ request[h] \in Inbox[h]
BY DEF CallInv, RequestOK, Verdicts

\* Every step leaves handler c right.
LEMMA GraceStep ==
    ASSUME NEW c \in Handlers, RosterHandler(c), IInv, CallInv, RosterInv(c), ExpiryInv(c),
           [Next]_vars
    PROVE  RosterInv(c)' /\ ExpiryInv(c)'
<1>1. CASE Save(c)
  BY <1>1, GraceSave
<1>2. ASSUME NEW h \in Handlers, h # c, Save(h)
      PROVE  RosterInv(c)' /\ ExpiryInv(c)'
  <2>1. app[h].status # "invalid"
    BY <1>2, GraceStarts DEF RosterHandler, Save
  <2>2. ASSUME NEW t \in Teams, HasStatus(t, "invalid")'
        PROVE  HasStatus(t, "invalid") /\ apps'[t].deadline = apps[t].deadline
    BY <1>2, <2>1, <2>2, SaveWrites DEF HasStatus
  <2>3. Memory(c)' = Memory(c)
    BY <1>2, OthersKeep DEF Call
  <2> QED BY <2>2, <2>3, GraceOthers
<1>3. CASE ~\E h \in Handlers : Save(h)
  <2>1. apps' = apps
    BY <1>3, OnlySavesWrite
  <2>2. Memory(c)' = Memory(c) => RosterInv(c)' /\ ExpiryInv(c)'
    BY <2>1, GraceOthers DEF HasStatus
  <2>3. Finish(c) => RosterInv(c)' /\ ExpiryInv(c)'
    BY FinishForgets DEF RosterInv, GraceKept, ExpiryInv
  <2>4. CASE Call(c)
    <3>1. CASE \/ ApplicationNotFound(c) \/ SubmitConfirmed(c) \/ GiveUp(c)
               \/ TrackNotFound(c) \/ WaitlistFull(c) \/ NoneWaiting(c) \/ NoneExpired(c)
               \/ SaveFails(c)
      BY <2>3, <3>1
      DEF ApplicationNotFound, SubmitConfirmed, GiveUp, TrackNotFound, WaitlistFull,
          NoneWaiting, NoneExpired, SaveFails
    <3>2. CASE UpdateTrackRoles(c)
      BY <2>2, <3>2 DEF UpdateTrackRoles, StoreTrackRoles, locals, Memory
    <3> QED
      BY <1>3, <2>4, <3>1, <3>2, GraceLoad, GraceDecision, GraceList DEF Call
  <2>5. CASE Abort(c)
    BY <2>3, <2>5 DEF Abort
  <2>6. ASSUME NEW h \in Handlers, h # c, Call(h) \/ Abort(h)
        PROVE  RosterInv(c)' /\ ExpiryInv(c)'
    BY <2>2, <2>6, OthersKeep
  <2>7. CASE ProcessEnds
    BY <2>7 DEF ProcessEnds, RosterInv, GraceKept, ExpiryInv
  <2>8. CASE Tick \/ UNCHANGED vars \/ \E k \in Tracks : CreateRule(k)
    BY <2>2, <2>8 DEF Tick, vars, locals, CreateRule, Memory
  <2> QED BY <2>4, <2>5, <2>6, <2>7, <2>8 DEF Next
<1> QED BY <1>1, <1>2, <1>3

\* While one handler changes the rosters, it has the running grace periods in memory.
LEMMA GraceInvariant ==
    ASSUME NEW c \in Handlers, RosterHandler(c)
    PROVE  Spec => [](IInv /\ CallInv /\ RosterInv(c) /\ ExpiryInv(c))
<1>1. Init => RosterInv(c) /\ ExpiryInv(c)
  BY DEF Init, RosterInv, GraceKept, ExpiryInv
<1>2. IInv /\ CallInv /\ RosterInv(c) /\ ExpiryInv(c) /\ [Next]_vars
        => RosterInv(c)' /\ ExpiryInv(c)'
  BY GraceStep
<1> QED BY <1>1, <1>2, Invariant, CallsFollowRequests, PTL DEF Spec

---------------------------------------------------------------------------
(* The theorems.                                                           *)

\* A running grace period is never prolonged, whatever the other handlers do to the team,
\* as long as one handler changes the rosters.
THEOREM GraceNeverExtended ==
    ASSUME NEW c \in Handlers, RosterHandler(c)
    PROVE  Spec => GraceNotExtended
<1>1. ASSUME IInv, CallInv, RosterInv(c), [Next]_vars, NEW t \in Teams,
             HasStatus(t, "invalid"), HasStatus(t, "invalid")'
      PROVE  apps'[t].deadline = apps[t].deadline
  <2>1. ASSUME NEW h \in Handlers, Save(h)
        PROVE  apps'[t].deadline = apps[t].deadline
    <3>1. CASE t # app[h].id
      BY <1>1, <2>1, <3>1, SaveWrites
    <3>2. CASE t = app[h].id
      <4>1. app[h].status = "invalid" /\ apps'[t].deadline = app[h].deadline
        BY <1>1, <2>1, <3>2, SaveWrites DEF HasStatus
      <4>2. request[h].op \in RosterOps /\ h = c /\ pc[c] = "save"
        BY <1>1, <2>1, <4>1, GraceStarts DEF RosterHandler, Save
      <4> QED BY <1>1, <3>2, <4>1, <4>2 DEF RosterInv, GraceKept
    <3> QED BY <3>1, <3>2
  <2> QED BY <1>1, <2>1, OnlySavesWrite
<1>2. IInv /\ CallInv /\ RosterInv(c) /\ [Next]_vars =>
        [\A t \in Teams :
            HasStatus(t, "invalid") /\ HasStatus(t, "invalid")'
                => apps'[t].deadline = apps[t].deadline]_vars
  BY <1>1
<1> QED BY <1>2, GraceInvariant, PTL DEF Spec, GraceNotExtended

\* No change of the roster ends the grace period early: only its deadline, the team sent
\* again or a refusal does, as long as one handler changes the rosters and ends the
\* grace periods.
THEOREM GraceAlwaysHonoured ==
    ASSUME NEW c \in Handlers, RosterHandler(c), ExpiryHandler(c)
    PROVE  Spec => GraceHonoured
<1>1. ASSUME IInv, CallInv, RosterInv(c), ExpiryInv(c), NEW h \in Handlers, NEW t \in Teams,
             Save(h), app[h].id = t, HasStatus(t, "invalid"), HasStatus(t, "rejected")'
      PROVE  apps[t].deadline < now \/ request[h].op \in {"submit", "update", "reject"}
  <2>1. pc[h] = "save" /\ app[h].status = "rejected"
    <3>1. pc[h] = "save"
      BY <1>1 DEF Save
    <3> QED BY <1>1, <3>1, SaveWrites DEF HasStatus
  <2>2. request[h] \in Inbox[h] /\ "rejected" \in Verdicts(request[h].op)
    BY <1>1, <2>1 DEF CallInv, RequestOK
  <2>3. request[h].op \in OpsAt("save")
    BY <2>1, <1>1, CallBefore DEF CallOK
  <2>4. request[h].op \in {"submit", "update", "reject", "expire"} \cup RosterOps
    BY <2>2, <2>3 DEF Verdicts, OpsAt, RosterOps
  <2>5. CASE request[h].op \in RosterOps
    <3>1. h = c
      BY <2>2, <2>5 DEF RosterHandler
    <3> QED BY <1>1, <2>1, <2>5, <3>1 DEF RosterInv, GraceKept
  <2>6. CASE request[h].op = "expire"
    <3>1. h = c
      BY <2>2, <2>6 DEF ExpiryHandler
    <3> QED BY <1>1, <2>1, <2>6, <3>1 DEF ExpiryInv
  <2> QED BY <2>4, <2>5, <2>6
<1>2. IInv /\ CallInv /\ RosterInv(c) /\ ExpiryInv(c) /\ [Next]_vars =>
        [\A h \in Handlers, t \in Teams :
            /\ Save(h) /\ app[h].id = t
            /\ HasStatus(t, "invalid") /\ HasStatus(t, "rejected")'
        => apps[t].deadline < now \/ request[h].op \in {"submit", "update", "reject"}]_vars
  BY <1>1
<1> QED BY <1>2, GraceInvariant, PTL DEF Spec, GraceHonoured
============================================================================
