------------------------ MODULE ConfirmationService ------------------------
(* ConfirmationService over its PostgreSQL repositories.                   *)
(*                                                                         *)
(* Handlers are the tasks that call the service: the Kafka consumer, which *)
(* handles one message at a time, and the HTTP requests.  A call awaits    *)
(* the database several times and everything else may run at each await,   *)
(* so an action of this module is what happens from one statement to the   *)
(* next.  Every read runs at READ COMMITTED: two SELECTs of one repository *)
(* method may see two states of the database, and are two actions.  A save *)
(* is one transaction, hence one action.                                   *)
(*                                                                         *)
(* Abstracted: names, reasons, creation times.  The outbox rows of a team  *)
(* are reduced to the rows its newest save that recorded events inserted;  *)
(* module OutboxRelay follows all of them.                                 *)
EXTENDS TeamApplication

CONSTANTS
    Handlers,       \* the Kafka consumer and the concurrent HTTP requests
    Inbox,          \* the requests each handler may receive, any number of times
    Configs,        \* the configurations POST /rule may set
    StoredTracks,   \* the tracks, roles and links between them that are
    StoredRoles,    \*   in the database when the first message arrives
    StoredTrackRoles,
    MaxTime         \* bound of the clock

DtoRequest ==       \* created, submitted, updated: the payload's owner and track
    [op : {"create", "submit", "update"}, team : Teams, track : Tracks,
     owner : Members, role : Roles \cup {None}]

MemberRequest ==    \* kicked or left, invitation or join request accepted, role_changed
    [op : {"delete", "add"}, team : Teams, member : Members, role : Roles \cup {None}]
        \cup [op : {"role"}, team : Teams, member : Members, role : Roles]

TeamRequest == [op : {"confirm", "reject"}, team : Teams]

TrackRequest ==     \* the waitlist of a track; the required roles of a track
    [op : {"waitlist"}, track : Tracks]
        \cup [op : {"roles"}, track : Tracks, counts : [Roles -> Int \cup {None}]]

ExpireRequest == [op : {"expire"}]

Request == DtoRequest \cup MemberRequest \cup TeamRequest \cup TrackRequest \cup ExpireRequest

\* A row of team_applications.
Row == [track : Tracks, status : Status, reason : BOOLEAN, deadline : Int \cup {None}]

ASSUME NoneAssumption ==
    None \notin Int \cup Roles \cup Config \cup Row

ASSUME InboxAssumption == Inbox \in [Handlers -> SUBSET Request]

ASSUME ConfigsAssumption == Configs \subseteq Config

ASSUME StoredAssumption ==
    /\ StoredTracks \in [Tracks -> Config \cup {None}]
    /\ StoredRoles \in [Roles -> Int \cup {None}]
    /\ StoredTrackRoles \in [Tracks -> SUBSET Roles]
    /\ \A k \in Tracks : \A r \in StoredTrackRoles[k] : StoredRoles[r] # None

ASSUME TimeAssumption == MaxTime \in Nat

VARIABLES
    tracks,         \* table tracks: the configuration of a track, None without a row
    roles,          \* table roles: the count of a role, None without a row
    trackRoles,     \* table track_roles
    memberRole,     \* table members: the role of a member, None without a row
    apps,           \* table team_applications: a Row, None without a row
    links,          \* table team_application_members
    older,          \* updated_at: the teams whose row was written before a team's
    outbox,         \* table outbox_events: the rows of the team's newest save with events
    now,            \* the clock
    pc,             \* what a handler does next
    request,        \* the request it handles
    app,            \* the application it holds in memory
    track,          \* the track it holds in memory
    batch           \* the rest of the list expire_grace_periods iterates over

tables == <<tracks, roles, trackRoles, memberRole, apps, links, older, outbox>>
locals == <<pc, request, app, track, batch>>
vars == <<tables, now, locals>>

Step ==
    {"idle", "row", "members", "track", "roles", "count", "next", "expired",
     "expired members", "expire", "save"}

Init ==
    /\ tracks = StoredTracks
    /\ roles = StoredRoles
    /\ trackRoles = StoredTrackRoles
    /\ memberRole = [m \in Members |-> None]
    /\ apps = [t \in Teams |-> None]
    /\ links = [t \in Teams |-> {}]
    /\ older = [t \in Teams |-> {}]
    /\ outbox = [t \in Teams |-> {}]
    /\ now = 0
    /\ pc = [h \in Handlers |-> "idle"]
    /\ request = [h \in Handlers |-> None]
    /\ app = [h \in Handlers |-> None]
    /\ track = [h \in Handlers |-> None]
    /\ batch = [h \in Handlers |-> {}]

Goto(h, step) == pc' = [pc EXCEPT ![h] = step]

\* The call returns or raises: nothing of it is left.
Finish(h) ==
    /\ Goto(h, "idle")
    /\ request' = [request EXCEPT ![h] = None]
    /\ app' = [app EXCEPT ![h] = None]
    /\ track' = [track EXCEPT ![h] = None]
    /\ batch' = [batch EXCEPT ![h] = {}]

---------------------------------------------------------------------------
(* What the SELECTs return.                                                *)

\* The owner is a member of the application only if the payload gives a role.
BuildApplication(r) ==
    NewApplication(r.team, r.track,
        IF r.role = None THEN {}
        ELSE {[id |-> r.owner, role |-> r.role, joined |-> FALSE]})

RowApplication(t) ==
    [id |-> t, track |-> apps[t].track, status |-> apps[t].status,
     reason |-> apps[t].reason, deadline |-> apps[t].deadline,
     members |-> {}, events |-> {}]

SelectMembers(t) ==
    {[id |-> m, role |-> memberRole[m], joined |-> FALSE] : m \in links[t]}

SelectRoles(k) == {[id |-> r, count |-> roles[r]] : r \in trackRoles[k]}

CountConfirmed(k) ==
    Cardinality({t \in Teams : apps[t] # None /\ apps[t].track = k
                                  /\ apps[t].status = "confirmed"})

Expired(t) ==
    apps[t] # None /\ apps[t].status = "invalid" /\ apps[t].deadline < now

Waiting(t, k) ==
    apps[t] # None /\ apps[t].track = k /\ apps[t].status = "validated"

---------------------------------------------------------------------------
(* The calls of the service.                                               *)

FirstStep(r) ==
    CASE r.op = "create"   -> "save"
      [] r.op = "waitlist" -> "track"
      [] r.op = "expire"   -> "expired"
      [] OTHER             -> "row"

\* A message or an HTTP request arrives; a created payload is saved as it is,
\* status none.
Begin(h) ==
    /\ pc[h] = "idle"
    /\ \E r \in Inbox[h] :
        /\ r.op # "roles"
        /\ request' = [request EXCEPT ![h] = r]
        /\ Goto(h, FirstStep(r))
        /\ app' = [app EXCEPT ![h] =
                      IF r.op = "create" THEN BuildApplication(r) ELSE None]
    /\ UNCHANGED <<tables, now, track, batch>>

\* Mutant: the roles of a track are stored and the track is not.
StoreRolesOnly(r) ==
    /\ trackRoles' = [trackRoles EXCEPT ![r.track] =
            {x \in Roles : r.counts[x] # None}]
    /\ roles' = [x \in Roles |->
            IF r.counts[x] # None THEN r.counts[x] ELSE roles[x]]
    /\ UNCHANGED <<tracks, memberRole, apps, links, older, outbox, now, locals>>

\* update_track_roles is one transaction and reads nothing.  A role row belongs to
\* every track that requires the role.
StoreTrackRoles(r) ==
    /\ tracks' = [tracks EXCEPT ![r.track] =
            IF @ = None
            THEN [rules |-> {}, max |-> 0, auto |-> FALSE, grace |-> 24]
            ELSE @]
    /\ trackRoles' = [trackRoles EXCEPT ![r.track] =
            {x \in Roles : r.counts[x] # None}]
    /\ roles' = [x \in Roles |->
            IF r.counts[x] # None THEN r.counts[x] ELSE roles[x]]
    /\ UNCHANGED <<memberRole, apps, links, older, outbox, now, locals>>

UpdateTrackRoles(h) ==
    /\ pc[h] = "idle"
    /\ \E r \in Inbox[h] : r.op = "roles" /\ StoreTrackRoles(r)

\* create_rule: POST /rule/{track_id}; roles and links stay.
CreateRule(k) ==
    /\ \E config \in Configs : tracks' = [tracks EXCEPT ![k] = config]
    /\ UNCHANGED <<roles, trackRoles, memberRole, apps, links, older, outbox,
                   now, locals>>

\* The first SELECT of get_by_id finds no row: ApplicationNotFoundError.
ApplicationNotFound(h) ==
    /\ pc[h] = "row"
    /\ apps[request[h].team] = None
    /\ Finish(h)
    /\ UNCHANGED <<tables, now>>

\* submit_team returns at once for a team that is confirmed.
SubmitConfirmed(h) ==
    /\ pc[h] = "row"
    /\ apps[request[h].team] # None
    /\ request[h].op = "submit"
    /\ apps[request[h].team].status = "confirmed"
    /\ Finish(h)
    /\ UNCHANGED <<tables, now>>

\* submit_team and update_team go on with the application of the payload, whose
\* status is none; what was read of the stored one is not used again.
SubmitOrUpdate(h) ==
    /\ pc[h] = "row"
    /\ apps[request[h].team] # None
    /\ \/ request[h].op = "update"
       \/ request[h].op = "submit" /\ apps[request[h].team].status # "confirmed"
    /\ app' = [app EXCEPT ![h] = BuildApplication(request[h])]
    /\ Goto(h, "track")
    /\ UNCHANGED <<tables, now, request, track, batch>>

\* Every other call goes on with the stored application.
LoadRow(h) ==
    /\ pc[h] = "row"
    /\ apps[request[h].team] # None
    /\ request[h].op \notin {"submit", "update"}
    /\ app' = [app EXCEPT ![h] = RowApplication(request[h].team)]
    /\ Goto(h, "members")
    /\ UNCHANGED <<tables, now, request, track, batch>>

\* The application as get_by_id returns it: the row of an earlier snapshot, the
\* members of this one.
Loaded(h) == [app[h] EXCEPT !.members = SelectMembers(app[h].id)]

\* delete_member, add_member, change_member_role: change the list, then validate.
ChangeRoster(h) ==
    LET r == request[h] IN
    /\ pc[h] = "members"
    /\ \/ /\ r.op = "delete"
          /\ app' = [app EXCEPT ![h] = RemoveMember(Loaded(h), r.member)]
       \/ /\ r.op = "add"
          /\ app' = [app EXCEPT ![h] = AddMember(Loaded(h), r.member, r.role)]
       \/ /\ r.op = "role"
          /\ HasMember(Loaded(h), r.member)
          /\ app' = [app EXCEPT ![h] = ChangeMemberRole(Loaded(h), r.member, r.role)]
    /\ Goto(h, "track")
    /\ UNCHANGED <<tables, now, request, track, batch>>

\* confirm_team, confirm_next_from_waitlist and reject_team: no rule is checked.
Decide(h) ==
    /\ pc[h] = "members"
    /\ \/ /\ request[h].op \in {"confirm", "waitlist"}
          /\ CanConfirm(app[h])
          /\ app' = [app EXCEPT ![h] = Confirm(Loaded(h))]
       \/ /\ request[h].op = "reject"
          /\ app' = [app EXCEPT ![h] = Reject(Loaded(h))]
    /\ Goto(h, "save")
    /\ UNCHANGED <<tables, now, request, track, batch>>

\* The member is not in the team, or confirm() raises InvalidStatusTransitionError.
GiveUp(h) ==
    /\ pc[h] = "members"
    /\ \/ request[h].op = "role" /\ ~HasMember(Loaded(h), request[h].member)
       \/ request[h].op \in {"confirm", "waitlist"} /\ ~CanConfirm(app[h])
    /\ Finish(h)
    /\ UNCHANGED <<tables, now>>

TrackId(h) ==
    IF request[h].op = "waitlist" THEN request[h].track ELSE app[h].track

TrackNotFound(h) ==
    /\ pc[h] = "track"
    /\ tracks[TrackId(h)] = None
    /\ Finish(h)
    /\ UNCHANGED <<tables, now>>

LoadTrack(h) ==
    /\ pc[h] = "track"
    /\ tracks[TrackId(h)] # None
    /\ track' = [track EXCEPT ![h] =
                    [config |-> tracks[TrackId(h)], roles |-> {}]]
    /\ Goto(h, "roles")
    /\ UNCHANGED <<tables, now, request, app, batch>>

LoadRoles(h) ==
    /\ pc[h] = "roles"
    /\ track' = [track EXCEPT ![h].roles = SelectRoles(TrackId(h))]
    /\ Goto(h, "count")
    /\ UNCHANGED <<tables, now, request, app, batch>>

\* Mutant: a track is full one team too late.
TrackIsFullLate(h) == CountConfirmed(TrackId(h)) > track[h].config.max

TrackIsFull(h) == CountConfirmed(TrackId(h)) >= track[h].config.max

\* Nothing is awaited between the count and validate().
ValidateApplication(h) ==
    /\ pc[h] = "count"
    /\ request[h].op # "waitlist"
    /\ app' = [app EXCEPT ![h] =
                  Validate(app[h], track[h], TrackIsFull(h), now)]
    /\ track' = [track EXCEPT ![h] = None]
    /\ Goto(h, "save")
    /\ UNCHANGED <<tables, now, request, batch>>

WaitlistFull(h) ==
    /\ pc[h] = "count"
    /\ request[h].op = "waitlist"
    /\ TrackIsFull(h)
    /\ Finish(h)
    /\ UNCHANGED <<tables, now>>

WaitlistOpen(h) ==
    /\ pc[h] = "count"
    /\ request[h].op = "waitlist"
    /\ ~TrackIsFull(h)
    /\ track' = [track EXCEPT ![h] = None]
    /\ Goto(h, "next")
    /\ UNCHANGED <<tables, now, request, app, batch>>

\* The waiting team whose row was written least recently.
NextWaiting(h) ==
    /\ pc[h] = "next"
    /\ \E t \in Teams :
        /\ Waiting(t, request[h].track)
        /\ \A u \in older[t] : ~Waiting(u, request[h].track)
        /\ app' = [app EXCEPT ![h] = RowApplication(t)]
    /\ Goto(h, "members")
    /\ UNCHANGED <<tables, now, request, track, batch>>

NoneWaiting(h) ==
    /\ pc[h] = "next"
    /\ \A t \in Teams : ~Waiting(t, request[h].track)
    /\ Finish(h)
    /\ UNCHANGED <<tables, now>>

SelectExpired(h) ==
    /\ pc[h] = "expired"
    /\ \E t \in Teams : Expired(t)
    /\ batch' = [batch EXCEPT ![h] =
                    {RowApplication(t) : t \in {u \in Teams : Expired(u)}}]
    /\ Goto(h, "expired members")
    /\ UNCHANGED <<tables, now, request, app, track>>

NoneExpired(h) ==
    /\ pc[h] = "expired"
    /\ \A t \in Teams : ~Expired(t)
    /\ Finish(h)
    /\ UNCHANGED <<tables, now>>

SelectExpiredMembers(h) ==
    /\ pc[h] = "expired members"
    /\ batch' = [batch EXCEPT ![h] =
                    {[a EXCEPT !.members = SelectMembers(a.id)] : a \in @}]
    /\ Goto(h, "expire")
    /\ UNCHANGED <<tables, now, request, app, track>>

ExpireOne(h) ==
    /\ pc[h] = "expire"
    /\ \E a \in batch[h] :
        /\ app' = [app EXCEPT ![h] = ExpireGracePeriod(a)]
        /\ batch' = [batch EXCEPT ![h] = @ \ {a}]
    /\ Goto(h, "save")
    /\ UNCHANGED <<tables, now, request, track>>

---------------------------------------------------------------------------
(* TeamApplicationPostgresRepository.save                                  *)

\* No constraint refuses the transaction: the track of a new application, and
\* the role of every member, which must not be NULL even where the member has a
\* row, since NOT NULL is checked before ON CONFLICT.
CanSave(a) ==
    /\ apps[a.id] = None => tracks[a.track] # None
    /\ \A m \in a.members :
        /\ m.role # None
        /\ memberRole[m.id] # None \/ roles[m.role] # None

\* Mutant: the row takes the grace deadline of the first save only.
UpsertRowOnce(a) ==
    apps' = [apps EXCEPT ![a.id] =
        [track    |-> IF @ = None THEN a.track ELSE @.track,
         status   |-> a.status,
         reason   |-> a.reason,
         deadline |-> IF @ = None THEN a.deadline ELSE @.deadline]]

\* ON CONFLICT (id) leaves track_id as it was.
UpsertRow(a) ==
    apps' = [apps EXCEPT ![a.id] =
        [track    |-> IF @ = None THEN a.track ELSE @.track,
         status   |-> a.status,
         reason   |-> a.reason,
         deadline |-> a.deadline]]

\* ON CONFLICT (id) DO NOTHING: a member keeps the role of the first insert.
InsertMembers(a) ==
    memberRole' = [m \in Members |->
        IF memberRole[m] = None /\ HasMember(a, m)
        THEN (CHOOSE x \in a.members : x.id = m).role
        ELSE memberRole[m]]

ReplaceLinks(a) == links' = [links EXCEPT ![a.id] = {m.id : m \in a.members}]

\* Mutant: the idempotency key is the same for every save of a team.
InsertOutboxOnce(a) ==
    outbox' = [outbox EXCEPT ![a.id] = IF @ # {} THEN @ ELSE a.events]

InsertOutbox(a) ==
    outbox' = [outbox EXCEPT ![a.id] = IF a.events = {} THEN @ ELSE a.events]

\* updated_at = now().
TouchRow(a) ==
    older' = [t \in Teams |->
        IF t = a.id THEN {u \in Teams : u # t /\ apps[u] # None}
                    ELSE older[t] \ {a.id}]

Save(h) ==
    /\ pc[h] = "save"
    /\ CanSave(app[h])
    /\ UpsertRow(app[h])
    /\ InsertMembers(app[h])
    /\ ReplaceLinks(app[h])
    /\ InsertOutbox(app[h])
    /\ TouchRow(app[h])
    /\ IF batch[h] = {} THEN Finish(h)
       ELSE /\ Goto(h, "expire")
            /\ app' = [app EXCEPT ![h] = None]
            /\ UNCHANGED <<request, track, batch>>
    /\ UNCHANGED <<tracks, roles, trackRoles, now>>

\* The transaction is rolled back and the exception leaves the service.
SaveFails(h) ==
    /\ pc[h] = "save"
    /\ ~CanSave(app[h])
    /\ Finish(h)
    /\ UNCHANGED <<tables, now>>

\* The connection is lost at an await.
Abort(h) ==
    /\ pc[h] # "idle"
    /\ Finish(h)
    /\ UNCHANGED <<tables, now>>

\* The process ends, and with it every call.
ProcessEnds ==
    /\ pc' = [h \in Handlers |-> "idle"]
    /\ request' = [h \in Handlers |-> None]
    /\ app' = [h \in Handlers |-> None]
    /\ track' = [h \in Handlers |-> None]
    /\ batch' = [h \in Handlers |-> {}]
    /\ UNCHANGED <<tables, now>>

Tick ==
    /\ now < MaxTime
    /\ now' = now + 1
    /\ UNCHANGED <<tables, locals>>

Call(h) ==
    \/ Begin(h) \/ UpdateTrackRoles(h)
    \/ ApplicationNotFound(h) \/ SubmitConfirmed(h) \/ SubmitOrUpdate(h) \/ LoadRow(h)
    \/ ChangeRoster(h) \/ Decide(h) \/ GiveUp(h)
    \/ TrackNotFound(h) \/ LoadTrack(h) \/ LoadRoles(h)
    \/ ValidateApplication(h) \/ WaitlistFull(h) \/ WaitlistOpen(h)
    \/ NextWaiting(h) \/ NoneWaiting(h)
    \/ SelectExpired(h) \/ NoneExpired(h) \/ SelectExpiredMembers(h) \/ ExpireOne(h)
    \/ Save(h) \/ SaveFails(h)

Next ==
    \/ \E h \in Handlers : Call(h) \/ Abort(h)
    \/ \E k \in Tracks : CreateRule(k)
    \/ ProcessEnds
    \/ Tick

Spec == Init /\ [][Next]_vars
============================================================================
