--------------------------- MODULE ServiceProofs ---------------------------
(* What ServiceProperties claims of every interleaving, proved for any     *)
(* teams, tracks, members, handlers and requests.  The invariant that is   *)
(* inductive is IInv: a decision is coherent and announced in the memory   *)
(* of a handler before it is in the database.                              *)
EXTENDS ServiceProperties, TLAPS

---------------------------------------------------------------------------
(* The methods of the aggregate.                                           *)

\* reject() is a decision that is coherent and announced, from any application.
LEMMA RejectDecides ==
    ASSUME NEW a \in Application
    PROVE  Decided(Reject(a)) /\ Reject(a).id = a.id
BY DEF Application, Status, Topic, Reject, PushEvent, Decided, Coherent, Announces

\* confirm() is such a decision too.
LEMMA ConfirmDecides ==
    ASSUME NEW a \in Application
    PROVE  Decided(Confirm(a)) /\ Confirm(a).id = a.id
BY DEF Application, Status, Topic, Confirm, PushEvent, Decided, Coherent, Announces

\* expire_grace_period() of an invalid application rejects it.
LEMMA ExpireDecides ==
    ASSUME NEW a \in Application, a.status = "invalid"
    PROVE  Decided(ExpireGracePeriod(a))
<1>1. PushEvent(a, "slot_released") \in Application
  BY DEF Application, Topic, PushEvent
<1> QED BY <1>1, RejectDecides DEF ExpireGracePeriod

\* A valid application is validated, or confirmed, and says so.
LEMMA OnValidDecides ==
    ASSUME NEW a, Undecided(a), NEW tr \in Track, NEW full
    PROVE  Decided(OnValid(a, tr, full))
BY DEF Undecided, Application, Status, Topic, OnValid, PushEvent, Decided, Coherent, Announces

\* An application that breaks a rule keeps its grace period, starts it or is rejected.
LEMMA OnInvalidDecides ==
    ASSUME NEW a, Undecided(a), NEW tr \in Track, NEW time \in Nat
    PROVE  Decided(OnInvalid(a, tr, time))
<1> USE DEF Undecided
<1>1. CASE a.status = "invalid"
  BY <1>1 DEF OnInvalid, Decided, Coherent, Announces
<1>2. CASE a.status = "confirmed"
  <2>1. tr.config.grace \in Int
    BY DEF Track, Config
  <2>2. time + tr.config.grace \in Int /\ time + tr.config.grace # None
    BY <2>1, NoneAssumption
  <2> QED
    BY <1>2, <2>2 DEF OnInvalid, Application, Status, Topic, PushEvent, Decided,
                      Coherent, Announces
<1>3. CASE a.status \notin {"invalid", "confirmed"}
  BY <1>3, RejectDecides DEF OnInvalid
<1> QED BY <1>1, <1>2, <1>3

\* validate() decides about an application that is not decided yet.
LEMMA ValidateDecides ==
    ASSUME NEW a, Undecided(a), NEW tr \in Track, NEW full, NEW time \in Nat
    PROVE  Decided(Validate(a, tr, full, time))
BY OnValidDecides, OnInvalidDecides DEF Validate

---------------------------------------------------------------------------
(* What the SELECTs and the payloads give.                                 *)

\* The application of a payload is undecided, and may be saved as it is.
LEMMA PayloadUndecided ==
    ASSUME NEW r \in DtoRequest
    PROVE  Undecided(BuildApplication(r)) /\ Decided(BuildApplication(r))
BY DEF DtoRequest, BuildApplication, NewApplication, Application, Status, Member,
       Undecided, Decided, Coherent, Announces

\* A stored row is an undecided application: its events are those of an earlier save.
LEMMA RowUndecided ==
    ASSUME TypeOK, RowCoherent, NEW t \in Teams, apps[t] # None
    PROVE  /\ Undecided(RowApplication(t))
           /\ RowApplication(t).status = apps[t].status
<1>1. apps[t] \in Row
  BY DEF TypeOK, TablesTypeOK
<1> QED
  BY <1>1 DEF RowCoherent, Row, RowApplication, Application, Undecided, Coherent

\* The members that the database returns are members.
LEMMA SelectMembersType ==
    ASSUME TypeOK, NEW t \in Teams
    PROVE  SelectMembers(t) \subseteq Member
<1>1. links[t] \subseteq Members
  BY DEF TypeOK, TablesTypeOK
<1>2. ASSUME NEW m \in links[t]
      PROVE  [id |-> m, role |-> memberRole[m], joined |-> FALSE] \in Member
  <2>1. memberRole[m] \in Roles \cup {None}
    BY <1>1 DEF TypeOK, TablesTypeOK
  <2> QED BY <1>1, <2>1 DEF Member
<1> QED BY <1>2 DEF SelectMembers

\* A change of the list of members decides nothing.
LEMMA RosterUndecided ==
    ASSUME NEW a, Undecided(a), NEW S \in SUBSET Member
    PROVE  /\ Undecided([a EXCEPT !.members = S])
           /\ [a EXCEPT !.members = S].id = a.id
           /\ [a EXCEPT !.members = S].status = a.status
BY DEF Undecided, Application, Coherent

\* Nor do the three methods that edit the list.
LEMMA EditUndecided ==
    ASSUME NEW a, Undecided(a), NEW m \in Members, NEW role \in Roles \cup {None}
    PROVE  /\ Undecided(RemoveMember(a, m))
           /\ Undecided(AddMember(a, m, role))
           /\ Undecided(ChangeMemberRole(a, m, role))
<1>1. a.members \subseteq Member
  BY DEF Undecided, Application
<1>2. {x \in a.members : x.id # m} \in SUBSET Member
  BY <1>1
<1>3. a.members \cup {[id |-> m, role |-> role, joined |-> TRUE]} \in SUBSET Member
  <2>1. [id |-> m, role |-> role, joined |-> TRUE] \in Member
    BY DEF Member
  <2> QED BY <1>1, <2>1
<1>4. {IF x.id = m THEN [x EXCEPT !.role = role] ELSE x : x \in a.members} \in SUBSET Member
  BY <1>1 DEF Member
<1>5. Undecided(RemoveMember(a, m))
  BY <1>2, RosterUndecided DEF RemoveMember
<1>6. Undecided(AddMember(a, m, role))
  BY <1>3, RosterUndecided DEF AddMember
<1>7. Undecided(ChangeMemberRole(a, m, role))
  BY <1>4, RosterUndecided DEF ChangeMemberRole
<1> QED BY <1>5, <1>6, <1>7

\* Every request but those of a track and of the clock names a team.
LEMMA RequestTeam ==
    ASSUME NEW r \in Request, r.op \notin {"waitlist", "roles", "expire"}
    PROVE  r.team \in Teams
BY DEF Request, DtoRequest, MemberRequest, TeamRequest, TrackRequest, ExpireRequest

\* A request that carries a payload has the fields of a DTO.
LEMMA RequestDto ==
    ASSUME NEW r \in Request, r.op \in {"create", "submit", "update"}
    PROVE  r \in DtoRequest
BY DEF Request, DtoRequest, MemberRequest, TeamRequest, TrackRequest, ExpireRequest

\* A request about a roster names a member, and a role or none.
LEMMA RequestMember ==
    ASSUME NEW r \in Request, r.op \in {"delete", "add", "role"}
    PROVE  r.member \in Members /\ r.role \in Roles \cup {None}
BY DEF Request, DtoRequest, MemberRequest, TeamRequest, TrackRequest, ExpireRequest

\* A request about a track names it; an announcement counts its roles.
LEMMA RequestTrack ==
    ASSUME NEW r \in Request, r.op \in {"waitlist", "roles"}
    PROVE  /\ r.track \in Tracks
           /\ r.op = "roles" => r.counts \in [Roles -> Int \cup {None}]
BY DEF Request, DtoRequest, MemberRequest, TeamRequest, TrackRequest, ExpireRequest

---------------------------------------------------------------------------
(* The steps of a call that leave the database as it is.                   *)

\* A step that gives a handler s, r, a, tr and list, which fit together, leaves every
\* handler with a memory that fits: the others do not notice it.
LEMMA MemoryStep ==
    ASSUME LocalsTypeOK, LocalsOK,
           NEW h \in Handlers, NEW s \in Step,
           NEW r \in Request \cup {None}, NEW a \in Application \cup {None},
           NEW tr \in Track \cup {None}, NEW list \in SUBSET Application,
           CallOK(s, r, a, tr, list),
           pc' = [pc EXCEPT ![h] = s], request' = [request EXCEPT ![h] = r],
           app' = [app EXCEPT ![h] = a], track' = [track EXCEPT ![h] = tr],
           batch' = [batch EXCEPT ![h] = list]
    PROVE  LocalsTypeOK' /\ LocalsOK'
<1>1. LocalsTypeOK'
  BY DEF LocalsTypeOK
<1>2. ASSUME NEW g \in Handlers
      PROVE  CallOK(pc[g], request[g], app[g], track[g], batch[g])'
  <2>1. CASE g = h
    <3>1. /\ pc'[g] = s /\ request'[g] = r /\ app'[g] = a
          /\ track'[g] = tr /\ batch'[g] = list
      BY <2>1 DEF LocalsTypeOK
    <3> QED BY <3>1 DEF CallOK, OpsAt, Undecided, Decided, Coherent, Announces
  <2>2. CASE g # h
    <3>1. /\ pc'[g] = pc[g] /\ request'[g] = request[g] /\ app'[g] = app[g]
          /\ track'[g] = track[g] /\ batch'[g] = batch[g]
      BY <2>2 DEF LocalsTypeOK
    <3>2. CallOK(pc[g], request[g], app[g], track[g], batch[g])
      BY DEF LocalsOK
    <3> QED BY <3>1, <3>2 DEF CallOK, OpsAt, Undecided, Decided, Coherent, Announces
  <2> QED BY <2>1, <2>2
<1> QED BY <1>1, <1>2 DEF LocalsOK

\* If the database stays as it is, so does what is claimed of it.
LEMMA TablesStep ==
    ASSUME IInv, UNCHANGED <<tables, now>>
    PROVE  TablesTypeOK' /\ ForeignKeys' /\ RowCoherent' /\ DecisionAnnounced'
BY DEF IInv, TypeOK, tables, TablesTypeOK, ForeignKeys, RowCoherent, DecisionAnnounced,
       HasStatus

\* A step that changes only the memory of one handler keeps IInv, if what it leaves there
\* fits together.
LEMMA LocalStep ==
    ASSUME IInv, UNCHANGED <<tables, now>>,
           NEW h \in Handlers, NEW s \in Step,
           NEW r \in Request \cup {None}, NEW a \in Application \cup {None},
           NEW tr \in Track \cup {None}, NEW list \in SUBSET Application,
           CallOK(s, r, a, tr, list),
           pc' = [pc EXCEPT ![h] = s], request' = [request EXCEPT ![h] = r],
           app' = [app EXCEPT ![h] = a], track' = [track EXCEPT ![h] = tr],
           batch' = [batch EXCEPT ![h] = list]
    PROVE  IInv'
BY MemoryStep, TablesStep DEF IInv, TypeOK

\* What a handler has in memory, before a step.
LEMMA CallBefore ==
    ASSUME IInv, NEW h \in Handlers
    PROVE  /\ CallOK(pc[h], request[h], app[h], track[h], batch[h])
           /\ pc[h] \in Step /\ request[h] \in Request \cup {None}
           /\ app[h] \in Application \cup {None} /\ track[h] \in Track \cup {None}
           /\ batch[h] \in SUBSET Application
           /\ request = [request EXCEPT ![h] = request[h]]
           /\ app = [app EXCEPT ![h] = app[h]]
           /\ track = [track EXCEPT ![h] = track[h]]
           /\ batch = [batch EXCEPT ![h] = batch[h]]
BY DEF IInv, TypeOK, LocalsTypeOK, LocalsOK

\* A step that changes only where a handler is and what application it holds.
LEMMA AppStep ==
    ASSUME IInv, UNCHANGED <<tables, now, request, track, batch>>,
           NEW h \in Handlers, NEW s \in Step, NEW a \in Application \cup {None},
           CallOK(s, request[h], a, track[h], batch[h]),
           pc' = [pc EXCEPT ![h] = s], app' = [app EXCEPT ![h] = a]
    PROVE  IInv'
<1>1. /\ request' = [request EXCEPT ![h] = request[h]]
      /\ track' = [track EXCEPT ![h] = track[h]]
      /\ batch' = [batch EXCEPT ![h] = batch[h]]
  BY CallBefore
<1>2. UNCHANGED <<tables, now>>
  OBVIOUS
<1>3. /\ request[h] \in Request \cup {None} /\ track[h] \in Track \cup {None}
      /\ batch[h] \in SUBSET Application
  BY CallBefore
<1> QED BY <1>1, <1>2, <1>3, LocalStep

\* A call may end at any moment.
LEMMA FinishStep ==
    ASSUME IInv, NEW h \in Handlers, Finish(h), UNCHANGED <<tables, now>>
    PROVE  IInv'
<1>1. CallOK("idle", None, None, None, {})
  BY DEF CallOK
<1> QED BY <1>1, LocalStep DEF Finish, Goto, Step

\* The message or request that arrives fits the first step of its call.
LEMMA BeginStep ==
    ASSUME IInv, NEW h \in Handlers, Begin(h)
    PROVE  IInv'
<1>1. PICK r \in Inbox[h] :
        /\ r.op # "roles"
        /\ request' = [request EXCEPT ![h] = r]
        /\ pc' = [pc EXCEPT ![h] = FirstStep(r)]
        /\ app' = [app EXCEPT ![h] =
                      IF r.op = "create" THEN BuildApplication(r) ELSE None]
  BY DEF Begin, Goto
<1>2. r \in Request
  BY InboxAssumption
<1>3. r.op \in {"create", "submit", "update", "delete", "add", "role", "confirm",
                "reject", "waitlist", "expire"}
  BY <1>1, <1>2 DEF Request, DtoRequest, MemberRequest, TeamRequest, TrackRequest,
                    ExpireRequest
<1>4. batch[h] = {} /\ UNCHANGED <<tables, now, track, batch>>
  BY CallBefore DEF Begin, CallOK
<1>5. FirstStep(r) \in Step /\ r.op \in OpsAt(FirstStep(r))
  BY <1>3 DEF FirstStep, Step, OpsAt
<1> DEFINE a == IF r.op = "create" THEN BuildApplication(r) ELSE None
<1>6. a \in Application \cup {None} /\ (r.op = "create" => Decided(a))
  BY <1>2, RequestDto, PayloadUndecided DEF Decided
<1>7. CallOK(FirstStep(r), r, a, track[h], batch[h])
  <2>1. CASE r.op = "create"
    BY <2>1, <1>2, <1>4, <1>5, <1>6 DEF CallOK, FirstStep
  <2>2. CASE r.op = "waitlist"
    BY <2>2, <1>2, <1>4, <1>5 DEF CallOK, FirstStep
  <2>3. CASE r.op \notin {"create", "waitlist"}
    BY <2>3, <1>2, <1>3, <1>4, <1>5 DEF CallOK, FirstStep
  <2> QED BY <2>1, <2>2, <2>3
<1> HIDE DEF a
<1> QED
  BY <1>1, <1>2, <1>4, <1>5, <1>6, <1>7, CallBefore, LocalStep DEF a

\* submit_team and update_team: from the row to the payload.
LEMMA SubmitOrUpdateStep ==
    ASSUME IInv, NEW h \in Handlers, SubmitOrUpdate(h)
    PROVE  IInv'
<1> USE CallBefore DEF SubmitOrUpdate, Goto
<1>1. request[h] \in DtoRequest /\ request[h].op \in {"submit", "update"}
  BY RequestDto DEF CallOK
<1>2. Undecided(BuildApplication(request[h]))
  BY <1>1, PayloadUndecided
<1>3. CallOK("track", request[h], BuildApplication(request[h]), track[h], batch[h])
  BY <1>1, <1>2 DEF CallOK, OpsAt
<1> QED BY <1>2, <1>3, AppStep DEF Step, Undecided

\* The other calls: the row, as it is now.
LEMMA LoadRowStep ==
    ASSUME IInv, NEW h \in Handlers, LoadRow(h)
    PROVE  IInv'
<1> USE CallBefore DEF LoadRow, Goto
<1>1. /\ request[h] \in Request
      /\ request[h].op \in {"delete", "add", "role", "confirm", "reject"}
  BY DEF CallOK, OpsAt
<1>2. Undecided(RowApplication(request[h].team))
  BY <1>1, RequestTeam, RowUndecided DEF IInv
<1>3. CallOK("members", request[h], RowApplication(request[h].team), track[h], batch[h])
  BY <1>1, <1>2 DEF CallOK, OpsAt
<1> QED BY <1>2, <1>3, AppStep DEF Step, Undecided

\* The members, as they are now, join the row, as it was.
LEMMA LoadedUndecided ==
    ASSUME IInv, NEW h \in Handlers, pc[h] = "members"
    PROVE  Undecided(Loaded(h))
<1>1. Undecided(app[h])
  BY CallBefore DEF CallOK
<1>2. app[h].id \in Teams
  BY <1>1 DEF Undecided, Application
<1> QED BY <1>1, <1>2, SelectMembersType, RosterUndecided DEF Loaded, IInv

\* The members are read and the list is changed, before any decision.
LEMMA ChangeRosterStep ==
    ASSUME IInv, NEW h \in Handlers, ChangeRoster(h)
    PROVE  IInv'
<1> USE CallBefore DEF ChangeRoster, Goto
<1>1. request[h] \in Request /\ request[h].op \in {"delete", "add", "role"}
  BY DEF CallOK
<1>2. request[h].member \in Members /\ request[h].role \in Roles \cup {None}
  BY <1>1, RequestMember
<1>3. PICK a : Undecided(a) /\ app' = [app EXCEPT ![h] = a]
  BY <1>2, LoadedUndecided, EditUndecided
<1>4. CallOK("track", request[h], a, track[h], batch[h])
  BY <1>1, <1>3 DEF CallOK, OpsAt
<1> QED BY <1>3, <1>4, AppStep DEF Step, Undecided

\* confirm() and reject() decide about the row that was read.
LEMMA DecideStep ==
    ASSUME IInv, NEW h \in Handlers, Decide(h)
    PROVE  IInv'
<1> USE CallBefore DEF Decide, Goto
<1>1. request[h] \in Request /\ request[h].op \in {"confirm", "waitlist", "reject"}
  BY DEF CallOK
<1>2. PICK a : Decided(a) /\ app' = [app EXCEPT ![h] = a]
  <2>1. Loaded(h) \in Application
    BY LoadedUndecided DEF Undecided
  <2> QED BY <2>1, RejectDecides, ConfirmDecides
<1>3. CallOK("save", request[h], a, track[h], batch[h])
  BY <1>1, <1>2 DEF CallOK, OpsAt
<1> QED BY <1>2, <1>3, AppStep DEF Step, Decided

\* The track that a call reads, and what it reads of it.
LEMMA TrackIdType ==
    ASSUME IInv, NEW h \in Handlers, pc[h] \in {"track", "roles", "count"}
    PROVE  TrackId(h) \in Tracks
<1> USE CallBefore DEF CallOK, OpsAt
<1>1. CASE request[h].op = "waitlist"
  BY <1>1, RequestTrack DEF TrackId
<1>2. CASE request[h].op # "waitlist"
  BY <1>2 DEF TrackId, Undecided, Application
<1> QED BY <1>1, <1>2

\* The roles that the database returns have counts: track_roles refers to rows of roles.
LEMMA SelectRolesType ==
    ASSUME IInv, NEW k \in Tracks
    PROVE  SelectRoles(k) \subseteq Role
<1>1. ASSUME NEW r \in trackRoles[k]
      PROVE  [id |-> r, count |-> roles[r]] \in Role
  <2>1. r \in Roles /\ roles[r] \in Int \cup {None} /\ roles[r] # None
    BY DEF IInv, TypeOK, TablesTypeOK, ForeignKeys
  <2> QED BY <2>1 DEF Role
<1> QED BY <1>1 DEF SelectRoles

\* A step that changes only where a handler is and what track it holds.
LEMMA TrackStep ==
    ASSUME IInv, UNCHANGED <<tables, now, request, app, batch>>,
           NEW h \in Handlers, NEW s \in Step, NEW tr \in Track \cup {None},
           CallOK(s, request[h], app[h], tr, batch[h]),
           pc' = [pc EXCEPT ![h] = s], track' = [track EXCEPT ![h] = tr]
    PROVE  IInv'
<1>1. /\ request' = [request EXCEPT ![h] = request[h]]
      /\ app' = [app EXCEPT ![h] = app[h]]
      /\ batch' = [batch EXCEPT ![h] = batch[h]]
  BY CallBefore
<1>2. UNCHANGED <<tables, now>>
  OBVIOUS
<1>3. /\ request[h] \in Request \cup {None} /\ app[h] \in Application \cup {None}
      /\ batch[h] \in SUBSET Application
  BY CallBefore
<1> QED BY <1>1, <1>2, <1>3, LocalStep

\* The configuration of the track, without its roles.
LEMMA LoadTrackStep ==
    ASSUME IInv, NEW h \in Handlers, LoadTrack(h)
    PROVE  IInv'
<1> DEFINE tr == [config |-> tracks[TrackId(h)], roles |-> {}]
<1>1. tracks[TrackId(h)] \in Config
  BY TrackIdType DEF LoadTrack, IInv, TypeOK, TablesTypeOK
<1>2. tr \in Track
  BY <1>1 DEF Track
<1>3. CallOK("roles", request[h], app[h], tr, batch[h])
  BY <1>2, CallBefore DEF CallOK, OpsAt, LoadTrack
<1> QED BY <1>2, <1>3, TrackStep DEF LoadTrack, Goto, Step

\* The roles of the track.
LEMMA LoadRolesStep ==
    ASSUME IInv, NEW h \in Handlers, LoadRoles(h)
    PROVE  IInv'
<1> DEFINE tr == [track[h] EXCEPT !.roles = SelectRoles(TrackId(h))]
<1>1. tr \in Track
  <2>1. track[h] \in Track
    BY CallBefore DEF CallOK, LoadRoles
  <2>2. SelectRoles(TrackId(h)) \subseteq Role
    BY TrackIdType, SelectRolesType DEF LoadRoles
  <2> QED BY <2>1, <2>2 DEF Track
<1>2. CallOK("count", request[h], app[h], tr, batch[h])
  BY <1>1, CallBefore DEF CallOK, OpsAt, LoadRoles
<1>3. track' = [track EXCEPT ![h] = tr]
  BY DEF LoadRoles
<1> QED BY <1>1, <1>2, <1>3, TrackStep DEF LoadRoles, Goto, Step

\* A track with a free slot: the call looks for a team.
LEMMA WaitlistOpenStep ==
    ASSUME IInv, NEW h \in Handlers, WaitlistOpen(h)
    PROVE  IInv'
<1>1. CallOK("next", request[h], app[h], None, batch[h])
  BY CallBefore DEF CallOK, OpsAt, WaitlistOpen
<1> QED BY <1>1, TrackStep DEF WaitlistOpen, Goto, Step

\* The decision is made in memory; the database may change before it is saved.
LEMMA ValidateStep ==
    ASSUME IInv, NEW h \in Handlers, ValidateApplication(h)
    PROVE  IInv'
<1> DEFINE a == Validate(app[h], track[h], TrackIsFull(h), now)
<1>1. Decided(a)
  <2>1. Undecided(app[h]) /\ track[h] \in Track
    BY CallBefore DEF CallOK, ValidateApplication
  <2>2. now \in Nat
    BY DEF IInv, TypeOK, TablesTypeOK
  <2> QED BY <2>1, <2>2, ValidateDecides
<1>2. CallOK("save", request[h], a, None, batch[h])
  BY <1>1, CallBefore DEF CallOK, OpsAt, ValidateApplication
<1>3. /\ request' = [request EXCEPT ![h] = request[h]]
      /\ batch' = [batch EXCEPT ![h] = batch[h]]
      /\ request[h] \in Request \cup {None} /\ batch[h] \in SUBSET Application
  BY CallBefore DEF ValidateApplication
<1>4. /\ app' = [app EXCEPT ![h] = a] /\ track' = [track EXCEPT ![h] = None]
      /\ pc' = [pc EXCEPT ![h] = "save"] /\ UNCHANGED <<tables, now>>
  BY DEF ValidateApplication, Goto
<1>5. a \in Application
  BY <1>1 DEF Decided
<1> HIDE DEF a
<1> QED BY <1>2, <1>3, <1>4, <1>5, LocalStep DEF Step

\* The waiting team is read from its row.
LEMMA NextWaitingStep ==
    ASSUME IInv, NEW h \in Handlers, NextWaiting(h)
    PROVE  IInv'
<1>1. PICK t \in Teams :
        /\ Waiting(t, request[h].track)
        /\ app' = [app EXCEPT ![h] = RowApplication(t)]
  BY DEF NextWaiting
<1>2. Undecided(RowApplication(t))
  BY <1>1, RowUndecided DEF Waiting, IInv
<1>3. CallOK("members", request[h], RowApplication(t), track[h], batch[h])
  BY <1>2, CallBefore DEF CallOK, OpsAt, NextWaiting
<1> QED BY <1>1, <1>2, <1>3, AppStep DEF NextWaiting, Goto, Step, Undecided

\* The list of expired applications: every row is invalid when it is read.
LEMMA ListStep ==
    ASSUME IInv, UNCHANGED <<tables, now, request, app, track>>,
           NEW h \in Handlers, NEW s \in Step, NEW list \in SUBSET Application,
           CallOK(s, request[h], app[h], track[h], list),
           pc' = [pc EXCEPT ![h] = s], batch' = [batch EXCEPT ![h] = list]
    PROVE  IInv'
<1>1. /\ request' = [request EXCEPT ![h] = request[h]]
      /\ app' = [app EXCEPT ![h] = app[h]]
      /\ track' = [track EXCEPT ![h] = track[h]]
  BY CallBefore
<1>2. UNCHANGED <<tables, now>>
  OBVIOUS
<1>3. /\ request[h] \in Request \cup {None} /\ app[h] \in Application \cup {None}
      /\ track[h] \in Track \cup {None}
  BY CallBefore
<1> QED BY <1>1, <1>2, <1>3, LocalStep

\* The list of expired rows holds invalid applications.
LEMMA SelectExpiredStep ==
    ASSUME IInv, NEW h \in Handlers, SelectExpired(h)
    PROVE  IInv'
<1> DEFINE list == {RowApplication(t) : t \in {u \in Teams : Expired(u)}}
<1>1. ASSUME NEW x \in list
      PROVE  Undecided(x) /\ x.status = "invalid"
  BY RowUndecided DEF Expired, IInv
<1>2. list \in SUBSET Application
  BY <1>1 DEF Undecided
<1> HIDE DEF list
<1>3. CallOK("expired members", request[h], app[h], track[h], list)
  BY <1>1, CallBefore DEF CallOK, OpsAt, SelectExpired
<1>4. batch' = [batch EXCEPT ![h] = list]
  BY DEF SelectExpired, list
<1> QED BY <1>2, <1>3, <1>4, ListStep DEF SelectExpired, Goto, Step

\* It still does with their members.
LEMMA SelectExpiredMembersStep ==
    ASSUME IInv, NEW h \in Handlers, SelectExpiredMembers(h)
    PROVE  IInv'
<1> DEFINE list == {[a EXCEPT !.members = SelectMembers(a.id)] : a \in batch[h]}
<1>1. ASSUME NEW x \in list
      PROVE  Undecided(x) /\ x.status = "invalid"
  <2>1. PICK a \in batch[h] : x = [a EXCEPT !.members = SelectMembers(a.id)]
    OBVIOUS
  <2>2. Undecided(a) /\ a.status = "invalid"
    BY CallBefore DEF CallOK
  <2>3. SelectMembers(a.id) \in SUBSET Member
    BY <2>2, SelectMembersType DEF IInv, Undecided, Application
  <2> QED BY <2>1, <2>2, <2>3, RosterUndecided
<1>2. list \in SUBSET Application
  BY <1>1 DEF Undecided
<1> HIDE DEF list
<1>3. CallOK("expire", request[h], app[h], track[h], list)
  BY <1>1, CallBefore DEF CallOK, OpsAt, SelectExpiredMembers
<1>4. batch' = [batch EXCEPT ![h] = list]
  BY DEF SelectExpiredMembers, list
<1> QED BY <1>2, <1>3, <1>4, ListStep DEF SelectExpiredMembers, Goto, Step

\* The next application of the list is rejected in memory.
LEMMA ExpireOneStep ==
    ASSUME IInv, NEW h \in Handlers, ExpireOne(h)
    PROVE  IInv'
<1>1. PICK x \in batch[h] :
        /\ app' = [app EXCEPT ![h] = ExpireGracePeriod(x)]
        /\ batch' = [batch EXCEPT ![h] = @ \ {x}]
  BY DEF ExpireOne
<1>2. Decided(ExpireGracePeriod(x))
  BY CallBefore, ExpireDecides DEF CallOK, Undecided
<1>3. CallOK("save", request[h], ExpireGracePeriod(x), track[h], batch[h] \ {x})
  BY <1>2, CallBefore DEF CallOK, OpsAt, ExpireOne
<1>4. /\ request' = [request EXCEPT ![h] = request[h]]
      /\ track' = [track EXCEPT ![h] = track[h]]
      /\ batch' = [batch EXCEPT ![h] = batch[h] \ {x}]
      /\ batch[h] \ {x} \in SUBSET Application
      /\ request[h] \in Request \cup {None} /\ track[h] \in Track \cup {None}
  BY <1>1, CallBefore DEF ExpireOne
<1>5. /\ pc' = [pc EXCEPT ![h] = "save"] /\ "save" \in Step
      /\ UNCHANGED <<tables, now>> /\ ExpireGracePeriod(x) \in Application
  BY <1>2 DEF ExpireOne, Goto, Decided, Step
<1>6. app' = [app EXCEPT ![h] = ExpireGracePeriod(x)]
  BY <1>1
<1> DEFINE a == ExpireGracePeriod(x)
           list == batch[h] \ {x}
<1>7. /\ a \in Application /\ list \in SUBSET Application
      /\ CallOK("save", request[h], a, track[h], list)
      /\ app' = [app EXCEPT ![h] = a] /\ batch' = [batch EXCEPT ![h] = list]
  BY <1>3, <1>4, <1>5, <1>6
<1> HIDE DEF a, list
<1> QED BY <1>4, <1>5, <1>7, LocalStep

---------------------------------------------------------------------------
(* The steps that change the database.                                     *)

\* If only the database changes, the handlers have in memory what they had.
LEMMA SameMemory ==
    ASSUME IInv, UNCHANGED locals
    PROVE  LocalsTypeOK' /\ LocalsOK'
BY DEF IInv, TypeOK, LocalsTypeOK, locals, LocalsOK, CallOK, OpsAt, Undecided, Decided,
       Coherent, Announces

\* A save stores the decision that is in memory, and its events.
LEMMA SaveStep ==
    ASSUME IInv, NEW h \in Handlers, Save(h)
    PROVE  IInv'
<1> DEFINE a == app[h]
           row == [track    |-> IF apps[a.id] = None THEN a.track ELSE apps[a.id].track,
                   status   |-> a.status,
                   reason   |-> a.reason,
                   deadline |-> a.deadline]
<1>1. Decided(a)
  BY CallBefore DEF CallOK, Save
<1>2. a.id \in Teams /\ a.members \subseteq Member /\ a.events \subseteq Topic
  BY <1>1 DEF Decided, Application
<1>3. row \in Row
  BY <1>1, <1>2 DEF Decided, Application, Row, IInv, TypeOK, TablesTypeOK
<1>4. apps' = [apps EXCEPT ![a.id] = row]
  BY DEF Save, UpsertRow
<1>5. CanSave(a) /\ InsertMembers(a) /\ ReplaceLinks(a) /\ InsertOutbox(a) /\ TouchRow(a)
      /\ UNCHANGED <<tracks, roles, trackRoles, now>>
  BY DEF Save
<1> HIDE DEF row
<1>6. ASSUME NEW m \in Members
      PROVE  /\ memberRole'[m] \in Roles \cup {None}
             /\ memberRole'[m] # None => roles[memberRole'[m]] # None
             /\ memberRole[m] # None => memberRole'[m] # None
             /\ HasMember(a, m) => memberRole'[m] # None
  <2>1. CASE memberRole[m] = None /\ HasMember(a, m)
    <3> DEFINE x == CHOOSE y \in a.members : y.id = m
    <3>1. x \in a.members /\ x.id = m
      BY <2>1 DEF HasMember
    <3>2. memberRole'[m] = x.role
      BY <2>1, <1>5 DEF InsertMembers
    <3>3. x.role \in Roles \cup {None} /\ x.role # None /\ roles[x.role] # None
      BY <2>1, <3>1, <1>2, <1>5 DEF CanSave, Member
    <3> QED BY <2>1, <3>2, <3>3
  <2>2. CASE ~(memberRole[m] = None /\ HasMember(a, m))
    <3>1. memberRole'[m] = memberRole[m]
      BY <2>2, <1>5 DEF InsertMembers
    <3> QED BY <2>2, <3>1 DEF IInv, TypeOK, TablesTypeOK, ForeignKeys
  <2> QED BY <2>1, <2>2
<1>7. TablesTypeOK'
  <2>1. apps' \in [Teams -> Row \cup {None}]
    BY <1>2, <1>3, <1>4 DEF IInv, TypeOK, TablesTypeOK
  <2>2. memberRole' \in [Members -> Roles \cup {None}]
    BY <1>5, <1>6 DEF InsertMembers
  <2>3. links' \in [Teams -> SUBSET Members]
    BY <1>2, <1>5 DEF ReplaceLinks, Member, IInv, TypeOK, TablesTypeOK
  <2>4. older' \in [Teams -> SUBSET Teams]
    BY <1>5 DEF TouchRow, IInv, TypeOK, TablesTypeOK
  <2>5. outbox' \in [Teams -> SUBSET Topic]
    BY <1>2, <1>5 DEF InsertOutbox, IInv, TypeOK, TablesTypeOK
  <2> QED BY <2>1, <2>2, <2>3, <2>4, <2>5, <1>5 DEF IInv, TypeOK, TablesTypeOK
<1>8. ForeignKeys'
  <2>1. \A k \in Tracks : \A r \in trackRoles'[k] : roles'[r] # None
    BY <1>5 DEF IInv, ForeignKeys
  <2>2. \A m \in Members : memberRole'[m] # None => roles'[memberRole'[m]] # None
    BY <1>5, <1>6
  <2>3. ASSUME NEW t \in Teams, NEW m \in links'[t]
        PROVE  memberRole'[m] # None
    <3>1. CASE t = a.id
      <4>1. links'[t] = {x.id : x \in a.members}
        BY <3>1, <1>2, <1>5 DEF ReplaceLinks, IInv, TypeOK, TablesTypeOK
      <4>2. HasMember(a, m) /\ m \in Members
        BY <4>1, <1>2 DEF HasMember, Member
      <4> QED BY <4>2, <1>6
    <3>2. CASE t # a.id
      <4>1. m \in links[t] /\ m \in Members
        BY <3>2, <1>5 DEF ReplaceLinks, IInv, TypeOK, TablesTypeOK
      <4> QED BY <4>1, <1>6 DEF IInv, ForeignKeys
    <3> QED BY <3>1, <3>2
  <2> QED BY <2>1, <2>2, <2>3 DEF ForeignKeys
<1>9. ASSUME NEW t \in Teams, apps'[t] # None
      PROVE  /\ apps'[t].status = "invalid" <=> apps'[t].deadline # None
             /\ apps'[t].status = "rejected" <=> apps'[t].reason
             /\ apps'[t].status = "validated" => outbox'[t] = {"validated"}
             /\ apps'[t].status = "rejected" => "rejected" \in outbox'[t]
  <2>1. CASE t = a.id
    <3>1. apps'[t] = row
      BY <2>1, <1>2, <1>4 DEF IInv, TypeOK, TablesTypeOK
    <3>2. outbox'[t] = IF a.events = {} THEN outbox[t] ELSE a.events
      BY <2>1, <1>2, <1>5 DEF InsertOutbox, IInv, TypeOK, TablesTypeOK
    <3> QED BY <1>1, <3>1, <3>2 DEF row, Decided, Coherent, Announces
  <2>2. CASE t # a.id
    <3>1. apps'[t] = apps[t] /\ outbox'[t] = outbox[t]
      BY <2>2, <1>4, <1>5 DEF InsertOutbox, IInv, TypeOK, TablesTypeOK
    <3> QED BY <1>9, <3>1 DEF IInv, RowCoherent, DecisionAnnounced, HasStatus
  <2> QED BY <2>1, <2>2
<1>10. RowCoherent' /\ DecisionAnnounced'
  BY <1>9 DEF RowCoherent, DecisionAnnounced, HasStatus
<1>11. LocalsTypeOK' /\ LocalsOK'
  <2>1. CASE batch[h] = {}
    <3>1. Finish(h)
      BY <2>1 DEF Save
    <3>2. CallOK("idle", None, None, None, {})
      BY DEF CallOK
    <3> QED BY <3>1, <3>2, MemoryStep DEF Finish, Goto, Step, IInv, TypeOK
  <2>2. CASE batch[h] # {}
    <3>1. CallOK("expire", request[h], None, track[h], batch[h])
      BY <2>2, CallBefore DEF CallOK, OpsAt, Save
    <3>2. /\ request' = [request EXCEPT ![h] = request[h]]
          /\ track' = [track EXCEPT ![h] = track[h]]
          /\ batch' = [batch EXCEPT ![h] = batch[h]]
          /\ request[h] \in Request \cup {None} /\ track[h] \in Track \cup {None}
          /\ batch[h] \in SUBSET Application
      BY <2>2, CallBefore DEF Save
    <3>3. /\ pc' = [pc EXCEPT ![h] = "expire"] /\ app' = [app EXCEPT ![h] = None]
          /\ "expire" \in Step
      BY <2>2 DEF Save, Goto, Step
    <3> QED BY <3>1, <3>2, <3>3, MemoryStep DEF IInv, TypeOK
  <2> QED BY <2>1, <2>2
<1> QED BY <1>7, <1>8, <1>10, <1>11 DEF IInv, TypeOK

\* The roles and the rules of a track may change at any time.
LEMMA UpdateTrackRolesStep ==
    ASSUME IInv, NEW h \in Handlers, UpdateTrackRoles(h)
    PROVE  IInv'
<1>1. PICK r \in Inbox[h] :
        /\ r.op = "roles"
        /\ tracks' = [tracks EXCEPT ![r.track] =
                IF @ = None
                THEN [rules |-> {}, max |-> 0, auto |-> FALSE, grace |-> 24]
                ELSE @]
        /\ trackRoles' = [trackRoles EXCEPT ![r.track] =
                {x \in Roles : r.counts[x] # None}]
        /\ roles' = [x \in Roles |->
                IF r.counts[x] # None THEN r.counts[x] ELSE roles[x]]
  BY DEF UpdateTrackRoles, StoreTrackRoles
<1>2. r.track \in Tracks /\ r.counts \in [Roles -> Int \cup {None}]
  BY <1>1, InboxAssumption, RequestTrack
<1>3. UNCHANGED <<memberRole, apps, links, older, outbox, now, locals>>
  BY DEF UpdateTrackRoles, StoreTrackRoles
<1>4. TablesTypeOK'
  <2>1. [rules |-> {}, max |-> 0, auto |-> FALSE, grace |-> 24] \in Config
    BY DEF Config
  <2>2. tracks' \in [Tracks -> Config \cup {None}]
    BY <1>1, <1>2, <2>1 DEF IInv, TypeOK, TablesTypeOK
  <2>3. roles' \in [Roles -> Int \cup {None}] /\ trackRoles' \in [Tracks -> SUBSET Roles]
    BY <1>1, <1>2 DEF IInv, TypeOK, TablesTypeOK
  <2> QED BY <2>2, <2>3, <1>3 DEF IInv, TypeOK, TablesTypeOK
<1>5. ForeignKeys'
  BY <1>1, <1>2, <1>3 DEF IInv, TypeOK, TablesTypeOK, ForeignKeys
<1>6. RowCoherent' /\ DecisionAnnounced'
  BY <1>3 DEF IInv, RowCoherent, DecisionAnnounced, HasStatus
<1> QED BY <1>3, <1>4, <1>5, <1>6, SameMemory DEF IInv, TypeOK

\* POST /rule touches the configuration of a track only.
LEMMA CreateRuleStep ==
    ASSUME IInv, NEW k \in Tracks, CreateRule(k)
    PROVE  IInv'
<1>1. PICK config \in Config : tracks' = [tracks EXCEPT ![k] = config]
  BY ConfigsAssumption DEF CreateRule
<1>2. UNCHANGED <<roles, trackRoles, memberRole, apps, links, older, outbox, now, locals>>
  BY DEF CreateRule
<1>3. TablesTypeOK' /\ ForeignKeys' /\ RowCoherent' /\ DecisionAnnounced'
  BY <1>1, <1>2 DEF IInv, TypeOK, TablesTypeOK, ForeignKeys, RowCoherent,
                    DecisionAnnounced, HasStatus
<1> QED BY <1>2, <1>3, SameMemory DEF IInv, TypeOK

\* When the process ends, the tables stay and the memory of the calls is gone.
LEMMA ProcessEndsStep ==
    ASSUME IInv, ProcessEnds
    PROVE  IInv'
<1>1. TablesTypeOK' /\ ForeignKeys' /\ RowCoherent' /\ DecisionAnnounced'
  BY DEF ProcessEnds, tables, IInv, TypeOK, TablesTypeOK, ForeignKeys, RowCoherent,
         DecisionAnnounced, HasStatus
<1>2. LocalsTypeOK' /\ LocalsOK'
  BY DEF ProcessEnds, LocalsTypeOK, LocalsOK, CallOK, Step
<1> QED BY <1>1, <1>2 DEF IInv, TypeOK

\* Nothing in IInv depends on the time.
LEMMA TickStep ==
    ASSUME IInv, Tick
    PROVE  IInv'
<1>1. TablesTypeOK' /\ ForeignKeys' /\ RowCoherent' /\ DecisionAnnounced'
  BY DEF Tick, tables, IInv, TypeOK, TablesTypeOK, ForeignKeys, RowCoherent,
         DecisionAnnounced, HasStatus
<1> QED BY <1>1, SameMemory DEF Tick, IInv, TypeOK

---------------------------------------------------------------------------
(* The invariant.                                                          *)

\* The tables of the first start and no open call.
LEMMA InitInvariant == Init => IInv
<1> SUFFICES ASSUME Init PROVE IInv
  OBVIOUS
<1>1. TypeOK
  BY StoredAssumption DEF Init, TypeOK, TablesTypeOK, LocalsTypeOK, Step
<1>2. ForeignKeys /\ RowCoherent /\ DecisionAnnounced
  BY StoredAssumption DEF Init, ForeignKeys, RowCoherent, DecisionAnnounced, HasStatus
<1>3. LocalsOK
  BY DEF Init, LocalsOK, CallOK
<1> QED BY <1>1, <1>2, <1>3 DEF IInv

\* Every step keeps IInv, one lemma per action.
LEMMA NextInvariant == IInv /\ [Next]_vars => IInv'
<1> SUFFICES ASSUME IInv, [Next]_vars PROVE IInv'
  OBVIOUS
<1>1. ASSUME NEW h \in Handlers, Call(h) PROVE IInv'
  <2>1. CASE \/ ApplicationNotFound(h) \/ SubmitConfirmed(h) \/ GiveUp(h)
             \/ TrackNotFound(h) \/ WaitlistFull(h) \/ NoneWaiting(h)
             \/ NoneExpired(h) \/ SaveFails(h)
    BY <2>1, FinishStep DEF ApplicationNotFound, SubmitConfirmed, GiveUp, TrackNotFound,
       WaitlistFull, NoneWaiting, NoneExpired, SaveFails
  <2>2. CASE \/ Begin(h) \/ SubmitOrUpdate(h) \/ LoadRow(h) \/ ChangeRoster(h)
             \/ Decide(h) \/ LoadTrack(h) \/ LoadRoles(h)
    BY <2>2, BeginStep, SubmitOrUpdateStep, LoadRowStep, ChangeRosterStep, DecideStep,
       LoadTrackStep, LoadRolesStep
  <2>3. CASE \/ ValidateApplication(h) \/ WaitlistOpen(h) \/ NextWaiting(h)
             \/ SelectExpired(h) \/ SelectExpiredMembers(h) \/ ExpireOne(h)
    BY <2>3, ValidateStep, WaitlistOpenStep, NextWaitingStep, SelectExpiredStep,
       SelectExpiredMembersStep, ExpireOneStep
  <2>4. CASE UpdateTrackRoles(h) \/ Save(h)
    BY <2>4, UpdateTrackRolesStep, SaveStep
  <2> QED BY <1>1, <2>1, <2>2, <2>3, <2>4 DEF Call
<1>2. ASSUME NEW h \in Handlers, Abort(h) PROVE IInv'
  BY <1>2, FinishStep DEF Abort
<1>3. CASE UNCHANGED vars
  BY <1>3, SameMemory, TablesStep DEF vars, IInv, TypeOK
<1> QED BY <1>1, <1>2, <1>3, CreateRuleStep, ProcessEndsStep, TickStep DEF Next

\* Types, foreign keys, coherent rows, announced decisions, and what the handlers have in
\* memory, hold under every interleaving of calls, crashes and lost connections.
THEOREM Invariant == Spec => []IInv
BY InitInvariant, NextInvariant, PTL DEF Spec

\* The tables and the memory of every handler always have their types; SUBMITTED is
\* never stored (team_status.py:6).
THEOREM TypeCorrect == Spec => []TypeOK
<1>1. IInv => TypeOK
  BY DEF IInv
<1> QED BY <1>1, Invariant, PTL

\* However calls interleave, a row has a deadline exactly while it is invalid and a
\* reason exactly while it is rejected.
THEOREM RowsCoherent == Spec => []RowCoherent
<1>1. IInv => RowCoherent
  BY DEF IInv
<1> QED BY <1>1, Invariant, PTL

\* However calls interleave, a stored acceptance or rejection is the one that the
\* newest events of the team announce.
THEOREM DecisionsAnnounced == Spec => []DecisionAnnounced
<1>1. IInv => DecisionAnnounced
  BY DEF IInv
<1> QED BY <1>1, Invariant, PTL

---------------------------------------------------------------------------
(* What a call does follows from what it was asked: this is what other     *)
(* theorems need to know of the calls beside the one they are about.       *)

Memory(h) == <<pc[h], request[h], app[h], track[h], batch[h]>>

\* A call has its memory for itself.
LEMMA OthersKeep ==
    ASSUME IInv, NEW h \in Handlers, Call(h) \/ Abort(h), NEW g \in Handlers, g # h
    PROVE  Memory(g)' = Memory(g)
<1> USE DEF Memory, Goto, Finish
<1>1. CASE \/ Begin(h) \/ SubmitOrUpdate(h) \/ LoadRow(h) \/ ChangeRoster(h) \/ Decide(h)
  BY <1>1
  DEF Begin, SubmitOrUpdate, LoadRow, ChangeRoster, Decide, IInv, TypeOK, LocalsTypeOK
<1>2. CASE \/ ApplicationNotFound(h) \/ SubmitConfirmed(h) \/ GiveUp(h)
           \/ TrackNotFound(h) \/ WaitlistFull(h) \/ NoneWaiting(h) \/ NoneExpired(h)
           \/ SaveFails(h) \/ Abort(h)
  BY <1>2
  DEF ApplicationNotFound, SubmitConfirmed, GiveUp, TrackNotFound, WaitlistFull,
      NoneWaiting, NoneExpired, SaveFails, Abort, IInv, TypeOK, LocalsTypeOK
<1>3. CASE LoadTrack(h) \/ LoadRoles(h) \/ WaitlistOpen(h) \/ NextWaiting(h)
  BY <1>3
  DEF LoadTrack, LoadRoles, WaitlistOpen, NextWaiting, IInv, TypeOK, LocalsTypeOK
<1>4. CASE ValidateApplication(h)
  <2>1. PICK a : app' = [app EXCEPT ![h] = a]
    BY <1>4 DEF ValidateApplication
  <2> QED
    BY <1>4, <2>1 DEF ValidateApplication, IInv, TypeOK, LocalsTypeOK
<1>5. CASE SelectExpired(h) \/ SelectExpiredMembers(h)
  <2>1. PICK list : batch' = [batch EXCEPT ![h] = list]
    BY <1>5 DEF SelectExpired, SelectExpiredMembers
  <2> QED
    BY <1>5, <2>1 DEF SelectExpired, SelectExpiredMembers, IInv, TypeOK, LocalsTypeOK
<1>6. CASE ExpireOne(h)
  <2>1. PICK a, list : app' = [app EXCEPT ![h] = a] /\ batch' = [batch EXCEPT ![h] = list]
    BY <1>6 DEF ExpireOne
  <2> QED
    BY <1>6, <2>1 DEF ExpireOne, IInv, TypeOK, LocalsTypeOK
<1>7. CASE UpdateTrackRoles(h)
  BY <1>7 DEF UpdateTrackRoles, StoreTrackRoles, locals
<1>8. CASE Save(h)
  BY <1>8 DEF Save, IInv, TypeOK, LocalsTypeOK
<1> QED
  BY <1>1, <1>2, <1>3, <1>4, <1>5, <1>6, <1>7, <1>8 DEF Call

\* A call that ends has nothing in memory.
LEMMA FinishForgets ==
    ASSUME IInv, NEW h \in Handlers, Finish(h)
    PROVE  pc'[h] = "idle" /\ app'[h] = None /\ batch'[h] = {}
BY DEF Finish, Goto, IInv, TypeOK, LocalsTypeOK

\* After a save the call ends, or goes on to the next expired application.
LEMMA SaveForgets ==
    ASSUME IInv, NEW h \in Handlers, Save(h)
    PROVE  /\ app'[h] = None
           /\ \/ pc'[h] = "idle" /\ batch'[h] = {}
              \/ /\ pc'[h] = "expire" /\ batch'[h] = batch[h]
                 /\ request'[h] = request[h] /\ request[h].op = "expire"
<1>1. CASE batch[h] = {}
  BY <1>1, FinishForgets DEF Save
<1>2. CASE batch[h] # {}
  <2>1. request[h].op = "expire"
    BY <1>2, CallBefore DEF CallOK
  <2> QED
    BY <1>2, <2>1 DEF Save, Goto, IInv, TypeOK, LocalsTypeOK
<1> QED BY <1>1, <1>2

\* validate() decides, and decides about the application it is given; one that is new is
\* not put into a grace period (team_application.py:58-125).
LEMMA ValidateKeeps ==
    ASSUME NEW a \in Application, NEW tr, NEW full, NEW time
    PROVE  LET v == Validate(a, tr, full, time) IN
           /\ v.id = a.id /\ v.track = a.track /\ v.members = a.members
           /\ v.status \in {"validated", "confirmed", "rejected", "invalid"}
           /\ a.status = "none" => v.status # "invalid"
BY DEF Validate, OnValid, OnInvalid, Reject, PushEvent, Application

\* So do the other methods.
LEMMA DecisionKeeps ==
    ASSUME NEW a \in Application
    PROVE  /\ Confirm(a).id = a.id /\ Confirm(a).track = a.track
           /\ Confirm(a).status = "confirmed"
           /\ Reject(a).id = a.id /\ Reject(a).track = a.track
           /\ Reject(a).status = "rejected"
           /\ a.status = "invalid" =>
                /\ ExpireGracePeriod(a).id = a.id /\ ExpireGracePeriod(a).track = a.track
                /\ ExpireGracePeriod(a).status = "rejected"
                /\ ExpireGracePeriod(a).events = a.events \cup {"slot_released", "rejected"}
BY DEF Confirm, Reject, ExpireGracePeriod, PushEvent, Application

\* The three methods that edit the list decide nothing.
LEMMA EditKeeps ==
    ASSUME NEW a \in Application, NEW m, NEW role, NEW b,
           b \in {RemoveMember(a, m), AddMember(a, m, role), ChangeMemberRole(a, m, role)}
    PROVE  /\ b.id = a.id /\ b.track = a.track /\ b.status = a.status
           /\ b.deadline = a.deadline
BY DEF RemoveMember, AddMember, ChangeMemberRole, Application

RosterOps == {"delete", "add", "role"}

\* What a call may save, by what it was asked: only a creation stores "none", and only a
\* change of a stored roster starts a grace period.
Verdicts(op) ==
    CASE op = "create"                -> {"none"}
      [] op \in {"submit", "update"}  -> {"validated", "confirmed", "rejected"}
      [] op \in RosterOps             -> {"validated", "confirmed", "rejected", "invalid"}
      [] op \in {"confirm", "waitlist"} -> {"confirmed"}
      [] OTHER                        -> {"rejected"}

\* What the request fixes of the application in memory.
RequestOK(step, r, a) ==
    /\ step \in {"track", "roles", "count"} /\ r.op \in {"submit", "update"}
        => a = BuildApplication(r)
    /\ step = "save" /\ r.op = "create" => a = BuildApplication(r)
    /\ step \in {"members", "track", "roles", "count", "save"}
            /\ r.op \notin {"waitlist", "expire"}
        => a.id = r.team
    /\ step = "save" => a.status \in Verdicts(r.op)

CallInv ==
    \A h \in Handlers :
        /\ pc[h] # "idle" => request[h] \in Inbox[h]
        /\ RequestOK(pc[h], request[h], app[h])

\* What a request fixes when it arrives, and when the application is read or edited.
LEMMA RequestFixesLoad ==
    ASSUME IInv, CallInv, NEW h \in Handlers,
           \/ Begin(h) \/ SubmitOrUpdate(h) \/ LoadRow(h) \/ ChangeRoster(h)
           \/ LoadTrack(h) \/ LoadRoles(h) \/ WaitlistOpen(h) \/ NextWaiting(h)
    PROVE  request'[h] \in Inbox[h] /\ RequestOK(pc'[h], request'[h], app'[h])
<1> USE DEF Goto, RequestOK
<1>1. CASE Begin(h)
  <2>1. PICK r \in Inbox[h] :
          /\ r.op # "roles"
          /\ pc'[h] = FirstStep(r) /\ request'[h] = r
          /\ r.op = "create" => app'[h] = BuildApplication(r)
    BY <1>1 DEF Begin, IInv, TypeOK, LocalsTypeOK
  <2>2. CASE r.op = "create"
    <3>1. pc'[h] = "save" /\ app'[h] = BuildApplication(r)
      BY <2>1, <2>2 DEF FirstStep
    <3>2. BuildApplication(r).id = r.team /\ BuildApplication(r).status = "none"
      BY DEF BuildApplication, NewApplication
    <3>3. "none" \in Verdicts("create")
      BY DEF Verdicts, RosterOps
    <3> QED BY <2>1, <2>2, <3>1, <3>2, <3>3
  <2>3. CASE r.op # "create"
    BY <2>1, <2>3 DEF FirstStep
  <2> QED BY <2>2, <2>3
<1>2. CASE SubmitOrUpdate(h)
  BY <1>2 DEF SubmitOrUpdate, CallInv, BuildApplication, NewApplication, IInv, TypeOK,
              LocalsTypeOK
<1>3. CASE LoadRow(h)
  BY <1>3 DEF LoadRow, CallInv, RowApplication, IInv, TypeOK, LocalsTypeOK
<1>4. CASE ChangeRoster(h)
  <2>1. pc[h] = "members" /\ pc'[h] = "track" /\ request' = request
        /\ request[h].op \in RosterOps
    BY <1>4 DEF ChangeRoster, RosterOps, IInv, TypeOK, LocalsTypeOK
  <2>2. Loaded(h) \in Application /\ Loaded(h).id = app[h].id
    BY <2>1, LoadedUndecided, CallBefore DEF Undecided, Loaded, CallOK
  <2>3. PICK m, role, b :
          /\ b \in {RemoveMember(Loaded(h), m), AddMember(Loaded(h), m, role),
                    ChangeMemberRole(Loaded(h), m, role)}
          /\ app'[h] = b
    BY <1>4 DEF ChangeRoster, IInv, TypeOK, LocalsTypeOK
  <2> QED BY <2>1, <2>2, <2>3, EditKeeps DEF CallInv, RosterOps
<1>5. CASE LoadTrack(h) \/ LoadRoles(h)
  BY <1>5 DEF LoadTrack, LoadRoles, CallInv, IInv, TypeOK, LocalsTypeOK
<1>6. CASE WaitlistOpen(h) \/ NextWaiting(h)
  <2>1. pc[h] \in {"count", "next"} /\ pc'[h] \in {"next", "members"} /\ request' = request
    BY <1>6 DEF WaitlistOpen, NextWaiting, IInv, TypeOK, LocalsTypeOK
  <2>2. request[h].op = "waitlist"
    BY <1>6, <2>1, CallBefore DEF WaitlistOpen, NextWaiting, CallOK, OpsAt
  <2> QED BY <2>1, <2>2 DEF CallInv
<1> QED BY <1>1, <1>2, <1>3, <1>4, <1>5, <1>6

\* What it fixes of the decision.
LEMMA RequestFixesDecision ==
    ASSUME IInv, CallInv, NEW h \in Handlers,
           ValidateApplication(h) \/ Decide(h) \/ ExpireOne(h)
    PROVE  request'[h] \in Inbox[h] /\ RequestOK(pc'[h], request'[h], app'[h])
<1> USE DEF Goto, RequestOK
<1>1. /\ pc[h] # "idle" /\ pc'[h] = "save" /\ request' = request
      /\ request[h] \in Inbox[h]
  BY DEF ValidateApplication, Decide, ExpireOne, CallInv, IInv, TypeOK, LocalsTypeOK
<1>2. CASE ValidateApplication(h)
  <2>1. /\ pc[h] = "count" /\ request[h].op # "waitlist"
        /\ app'[h] = Validate(app[h], track[h], TrackIsFull(h), now)
    BY <1>2 DEF ValidateApplication, IInv, TypeOK, LocalsTypeOK
  <2>2. app[h] \in Application
        /\ request[h].op \in {"submit", "update", "delete", "add", "role"}
    BY <2>1, CallBefore DEF CallOK, OpsAt, Undecided
  <2>3. /\ app'[h].id = app[h].id
        /\ app'[h].status \in {"validated", "confirmed", "rejected", "invalid"}
        /\ app[h].status = "none" => app'[h].status # "invalid"
    BY <2>1, <2>2, ValidateKeeps
  <2>4. BuildApplication(request[h]).status = "none"
    BY DEF BuildApplication, NewApplication
  <2>5. request[h].op \in {"submit", "update"} => app[h].status = "none"
    BY <2>1, <2>4 DEF CallInv
  <2>6. app[h].id = request[h].team
    BY <2>1, <2>2 DEF CallInv
  <2>7. app'[h].status \in Verdicts(request[h].op)
    BY <2>2, <2>3, <2>5 DEF Verdicts, RosterOps
  <2> QED BY <1>1, <2>2, <2>3, <2>6, <2>7
<1>3. CASE Decide(h)
  <2>1. pc[h] = "members"
    BY <1>3 DEF Decide
  <2>2. Loaded(h) \in Application /\ Loaded(h).id = app[h].id
    BY <2>1, LoadedUndecided, CallBefore DEF Undecided, Loaded, CallOK
  <2>3. \/ request[h].op \in {"confirm", "waitlist"} /\ app'[h] = Confirm(Loaded(h))
        \/ request[h].op = "reject" /\ app'[h] = Reject(Loaded(h))
    BY <1>3 DEF Decide, IInv, TypeOK, LocalsTypeOK
  <2>4. request[h].op # "waitlist" => app[h].id = request[h].team
    BY <2>1, <2>3 DEF CallInv
  <2>5. app'[h].id = app[h].id /\ app'[h].status \in Verdicts(request[h].op)
    BY <2>2, <2>3, DecisionKeeps DEF Verdicts, RosterOps
  <2> QED BY <1>1, <2>3, <2>4, <2>5
<1>4. CASE ExpireOne(h)
  <2>1. PICK x \in batch[h] : app'[h] = ExpireGracePeriod(x)
    BY <1>4 DEF ExpireOne, IInv, TypeOK, LocalsTypeOK
  <2>2. x \in Application /\ x.status = "invalid" /\ request[h].op = "expire"
    BY <1>4, <2>1, CallBefore DEF ExpireOne, CallOK, OpsAt, Undecided
  <2> QED BY <1>1, <2>1, <2>2, DecisionKeeps DEF Verdicts, RosterOps
<1> QED BY <1>2, <1>3, <1>4

\* Every step keeps what the requests fix.
LEMMA CallInvStep ==
    ASSUME IInv, CallInv, [Next]_vars
    PROVE  CallInv'
<1>1. ASSUME NEW h \in Handlers, Call(h) \/ Abort(h),
             pc'[h] # "idle" => request'[h] \in Inbox[h],
             RequestOK(pc'[h], request'[h], app'[h])
      PROVE  CallInv'
  <2>1. ASSUME NEW g \in Handlers
        PROVE  /\ pc'[g] # "idle" => request'[g] \in Inbox[g]
               /\ RequestOK(pc'[g], request'[g], app'[g])
    BY <1>1, OthersKeep DEF Memory, CallInv
  <2> QED BY <2>1 DEF CallInv, RequestOK, Verdicts, BuildApplication, NewApplication
<1>2. CASE UNCHANGED locals
  BY <1>2 DEF locals, CallInv, RequestOK
<1>3. ASSUME NEW h \in Handlers, pc'[h] \in {"idle", "expire", "expired members"}
      PROVE  RequestOK(pc'[h], request'[h], app'[h])
  BY <1>3 DEF RequestOK
<1>4. ASSUME NEW h \in Handlers, Call(h) PROVE CallInv'
  <2>1. CASE \/ ApplicationNotFound(h) \/ SubmitConfirmed(h) \/ GiveUp(h)
             \/ TrackNotFound(h) \/ WaitlistFull(h) \/ NoneWaiting(h) \/ NoneExpired(h)
             \/ SaveFails(h)
    BY <1>1, <1>3, <1>4, <2>1, FinishForgets
    DEF ApplicationNotFound, SubmitConfirmed, GiveUp, TrackNotFound, WaitlistFull,
        NoneWaiting, NoneExpired, SaveFails
  <2>2. CASE \/ Begin(h) \/ SubmitOrUpdate(h) \/ LoadRow(h) \/ ChangeRoster(h)
             \/ LoadTrack(h) \/ LoadRoles(h) \/ WaitlistOpen(h) \/ NextWaiting(h)
    BY <1>1, <1>4, <2>2, RequestFixesLoad
  <2>3. CASE ValidateApplication(h) \/ Decide(h) \/ ExpireOne(h)
    BY <1>1, <1>4, <2>3, RequestFixesDecision
  <2>4. CASE SelectExpired(h) \/ SelectExpiredMembers(h)
    <3>1. /\ pc'[h] \in {"expire", "expired members"} /\ request' = request
          /\ pc[h] # "idle"
      BY <2>4 DEF SelectExpired, SelectExpiredMembers, Goto, IInv, TypeOK, LocalsTypeOK
    <3> QED BY <1>1, <1>3, <1>4, <3>1 DEF CallInv
  <2>5. CASE Save(h)
    <3>1. /\ pc[h] = "save"
          /\ \/ pc'[h] = "idle"
             \/ pc'[h] = "expire" /\ request'[h] = request[h]
      BY <2>5, SaveForgets DEF Save
    <3> QED BY <1>1, <1>3, <1>4, <3>1 DEF CallInv
  <2>6. CASE UpdateTrackRoles(h)
    BY <1>2, <2>6 DEF UpdateTrackRoles, StoreTrackRoles
  <2> QED BY <1>4, <2>1, <2>2, <2>3, <2>4, <2>5, <2>6 DEF Call
<1>5. ASSUME NEW h \in Handlers, Abort(h) PROVE CallInv'
  BY <1>1, <1>3, <1>5, FinishForgets DEF Abort
<1>6. CASE ProcessEnds
  BY <1>6 DEF ProcessEnds, CallInv, RequestOK
<1>7. CASE Tick \/ UNCHANGED vars \/ \E k \in Tracks : CreateRule(k)
  BY <1>2, <1>7 DEF Tick, vars, CreateRule
<1> QED BY <1>4, <1>5, <1>6, <1>7 DEF Next

\* What a call has in memory, and what it may save, follows from its request in every
\* behaviour.
THEOREM CallsFollowRequests == Spec => []CallInv
<1>1. Init => CallInv
  BY DEF Init, CallInv, RequestOK
<1> QED BY <1>1, CallInvStep, Invariant, PTL DEF Spec
---------------------------------------------------------------------------
(* What a step may do to the rows.                                         *)

\* A save writes the row of the application in memory, and no other row; a row that is
\* there keeps its track.
LEMMA SaveWrites ==
    ASSUME IInv, NEW h \in Handlers, Save(h)
    PROVE  /\ Decided(app[h]) /\ app[h] \in Application
           /\ apps'[app[h].id] =
                [track    |-> IF apps[app[h].id] = None THEN app[h].track
                              ELSE apps[app[h].id].track,
                 status   |-> app[h].status,
                 reason   |-> app[h].reason,
                 deadline |-> app[h].deadline]
           /\ apps'[app[h].id] # None
           /\ apps'[app[h].id].track =
                IF apps[app[h].id] = None THEN app[h].track ELSE apps[app[h].id].track
           /\ apps'[app[h].id].status = app[h].status
           /\ apps'[app[h].id].deadline = app[h].deadline
           /\ \A t \in Teams : t # app[h].id => apps'[t] = apps[t]
           /\ now' = now
<1> DEFINE a == app[h]
           row == [track    |-> IF apps[a.id] = None THEN a.track ELSE apps[a.id].track,
                   status   |-> a.status,
                   reason   |-> a.reason,
                   deadline |-> a.deadline]
<1>1. Decided(a) /\ a \in Application /\ a.id \in Teams
  BY CallBefore DEF Save, CallOK, Decided, Application
<1>2. apps \in [Teams -> Row \cup {None}]
  BY DEF IInv, TypeOK, TablesTypeOK
<1>3. row \in Row /\ row # None
  BY <1>1, <1>2, NoneAssumption DEF Application, Row
<1>4. apps' = [apps EXCEPT ![a.id] = row] /\ now' = now
  BY DEF Save, UpsertRow
<1> HIDE DEF row
<1>5. apps'[a.id] = row /\ \A t \in Teams : t # a.id => apps'[t] = apps[t]
  BY <1>1, <1>2, <1>4
<1> QED BY <1>1, <1>3, <1>4, <1>5 DEF row

\* Nothing but a save writes the rows of a team: its application, its members and the
\* events about it.
LEMMA OnlySavesWrite ==
    ASSUME [Next]_vars, \A h \in Handlers : ~Save(h)
    PROVE  UNCHANGED <<apps, links, memberRole, outbox>>
<1>1. ASSUME NEW h \in Handlers, Call(h)
      PROVE  UNCHANGED <<apps, links, memberRole, outbox>>
  <2>1. CASE \/ Begin(h) \/ SubmitOrUpdate(h) \/ LoadRow(h) \/ ChangeRoster(h)
             \/ Decide(h) \/ LoadTrack(h) \/ LoadRoles(h) \/ ValidateApplication(h)
             \/ WaitlistOpen(h) \/ NextWaiting(h) \/ SelectExpired(h)
             \/ SelectExpiredMembers(h) \/ ExpireOne(h)
    BY <2>1
    DEF tables, Begin, SubmitOrUpdate, LoadRow, ChangeRoster, Decide, LoadTrack, LoadRoles,
        ValidateApplication, WaitlistOpen, NextWaiting, SelectExpired,
        SelectExpiredMembers, ExpireOne
  <2>2. CASE \/ ApplicationNotFound(h) \/ SubmitConfirmed(h) \/ GiveUp(h)
             \/ TrackNotFound(h) \/ WaitlistFull(h) \/ NoneWaiting(h) \/ NoneExpired(h)
             \/ SaveFails(h) \/ UpdateTrackRoles(h)
    BY <2>2
    DEF tables, ApplicationNotFound, SubmitConfirmed, GiveUp, TrackNotFound, WaitlistFull,
        NoneWaiting, NoneExpired, SaveFails, UpdateTrackRoles, StoreTrackRoles
  <2> QED BY <1>1, <2>1, <2>2 DEF Call
<1>2. CASE \/ \E h \in Handlers : Abort(h)
           \/ \E k \in Tracks : CreateRule(k)
           \/ ProcessEnds \/ Tick \/ UNCHANGED vars
  BY <1>2 DEF Abort, CreateRule, ProcessEnds, Tick, vars, tables
<1> QED BY <1>1, <1>2 DEF Next

\* The clock does not go back.
LEMMA ClockAdvances ==
    ASSUME IInv, [Next]_vars
    PROVE  now \in Nat /\ now' \in Nat /\ now <= now'
<1>1. now \in Nat
  BY DEF IInv, TypeOK, TablesTypeOK
<1>2. CASE \E h \in Handlers : Save(h)
  BY <1>1, <1>2 DEF Save
<1>3. CASE Tick
  BY <1>1, <1>3 DEF Tick
<1>4. CASE ~Tick /\ ~\E h \in Handlers : Save(h)
  <2>1. now' = now
    BY <1>4
    DEF Next, vars, Call, Abort, CreateRule, ProcessEnds,
        Begin, SubmitOrUpdate, LoadRow, ChangeRoster, Decide, LoadTrack, LoadRoles,
        ValidateApplication, WaitlistOpen, NextWaiting, SelectExpired,
        SelectExpiredMembers, ExpireOne, ApplicationNotFound, SubmitConfirmed, GiveUp,
        TrackNotFound, WaitlistFull, NoneWaiting, NoneExpired, SaveFails,
        UpdateTrackRoles, StoreTrackRoles
  <2> QED BY <1>1, <2>1
<1> QED BY <1>2, <1>3, <1>4
============================================================================
