# Confirmation engine: a verification project

TLA+ models of `confirmation-engine`, the service that decides which teams are
admitted to the tracks of an event, TLC runs that check them on small
instances, and TLAPS proofs of what holds for every instance. Paths are those
of the repository; `src/service/confirmation.py` and the other sources are
below its `src/` directory.

## The system

`event-service` manages teams and publishes what happens to them to Kafka.
The confirmation engine keeps its own copy of teams and tracks in PostgreSQL,
decides about each team, and publishes its decisions through a transactional
outbox.

```
 Kafka topics of event-service            POST /rule, POST /applications, GET ...
            |                                          |
   KafkaConsumerController                     confirmation_router
            |   one message at a time                  |   concurrent requests
            +--------------> ConfirmationService <-----+
                                |            |
        TeamApplicationPostgresRepository   TrackPostgresRepository
                                |            |
     team_applications, members, links     tracks, roles, track_roles
     outbox_events
            |
      OutboxWorker  ----> KafkaProducer ----> topics of confirmation_engine
```

All three run as tasks of one asyncio event loop: a task runs until its next
`await`, and every other task may run there.

| Component | State | Operations |
|---|---|---|
| Confirmation rules, track (`domain/value_objects/confirmation_rule.py`, `domain/aggregates/track.py`) | rules, required roles, `max_team_count`, `auto_confirm`, grace period of a track | `check` |
| `TeamApplication` (`domain/aggregates/team_application.py`) | members, status, rejection reason, grace deadline, recorded events | `add_member`, `remove_member`, `change_member_role`, `confirm`, `reject`, `expire_grace_period`, `validate`, `collect_events` |
| `ConfirmationService` (`service/confirmation.py`) | none of its own: what a call has in memory between two awaits | `create_team`, `submit_team`, `update_team`, `delete_member`, `add_member`, `change_member_role`, `create_rule`, `update_track_roles`, `confirm_team`, `reject_team`, `confirm_next_from_waitlist`, `expire_grace_periods` and three reads |
| Repositories (`adapters/repositories/...`) | seven tables | one transaction per method, at READ COMMITTED |
| `KafkaConsumerController` (`controller/kafka/consumer.py`) | offsets of the consumer group | dispatch, commit, skip, seek |
| `OutboxWorker` (`adapters/workers/outbox_worker.py`) | rows fetched in this round | poll, send, mark SENT, count a failure |
| REST router (`controller/rest/v1/`) | none | set the rules of a track, confirm a team, three reads |
| Start and shutdown (`application.py`), migrations, serializers, producer | tasks, pool; schema | |

What is hard:

* **Interleaving.** A call reads the row, then the members, then the track,
  then its roles, then the number of confirmed teams, and saves. Each is an
  await. Nothing is locked, no version is compared: the save overwrites.
* **Splitting a decision.** `validate` computes the status, the reason, the
  deadline and the events separately, from a roster that `save` stores in part
  only (a member keeps the role of its first insert, `track_id` is never
  updated).
* **Repetition.** Messages may be redelivered and arrive in any order between
  topics; every call must keep the stored state consistent all the same.
* **Crashes.** At any await the process may die or lose its connection.
* **Time.** Grace periods start, end, and must neither be prolonged nor cut.
* **Relay and consumer.** At-least-once in both directions, with crashes
  between an effect and its acknowledgement.

`PROJECT.json` lists each hazard at the line where it bites, with the
properties that would catch it.

What makes each part correct:

| Part | Correct when |
|---|---|
| rules, aggregate | a decision, its deadline, its reason and its events fit together, and follow the stored decision as the life cycle allows |
| service | accepted rosters meet the rules; nobody is admitted beyond capacity; a grace period is honoured and ends; all this under interleaving and failure, or, where it is not so, a counterexample says how |
| repositories, outbox table | what is stored is what was decided, and is announced in the same transaction |
| outbox worker | what is published was committed, what is committed is published in the end, in order |
| consumer | what is committed was handled or skipped on purpose; nothing blocks a partition |
| migrations | down and up lead back to the same schema |

## Modules

| Module | Models |
|---|---|
| `ConfirmationRule` | the rules and the values they read |
| `TeamApplication` | the aggregate: each method is an operator from the application before to the application after |
| `ConfirmationService` | the service over the repositories: tables, handlers, one action per stretch of code between two statements |
| `TeamLifecycle` | abstract: the decisions about a team, which may follow which, and what announces them |
| `ServiceProperties` | types, properties, the inductive invariant and the refinement mapping |
| `ServiceHistory` | the service with a history variable that tells the calls which no other call disturbs, and what these achieve |
| `ServiceProofs` | the theorems about every interleaving; what a call and its request have to do with each other |
| `GraceProofs` | grace periods, while one handler changes the rosters |
| `LifecycleProofs` | the refinement of `TeamLifecycle`, while calls do not overlap |
| `AdmissionProofs` | slots and rosters of undisturbed calls, under every interleaving |
| `MCService`, `MCHistory` | the instances that TLC checks |
| `OutboxRelay` | the outbox table, the saves that fill it and the workers that relay its rows |
| `EventChannel` | abstract: what the outbox pattern promises of an event |
| `RelayProperties`, `RelayProofs`, `MCRelay` | properties, invariant and refinement mapping; theorems; instances |
| `KafkaConsumer` | positions, committed offsets, skip, seek, commit, end and restart of the consumer |
| `ConsumerProperties`, `ConsumerProofs`, `MCConsumer` | properties and invariant; theorems; instance |
| `ConfirmationSystem` | the process: `KafkaConsumer` and `ConfirmationService` composed, HTTP requests beside them |
| `SystemProperties`, `SystemProofs`, `MCSystem` | what is claimed of the two together, and the invariant; theorems; instance |
| `MessageProofs` | theorems of the composition about skipped and repeated messages |
| `Migrations` | `migrate`, `migrate-down` and `migrate-drop` over the seven tables |

How they fit together: `ConfirmationService` alone admits messages in every
order and any number of times; `KafkaConsumer` alone lets a message succeed,
be skipped or fail at will. `ConfirmationSystem` joins their actions: a message
in hand is one call of the service, and how the call ends decides how the
consumer goes on. The rows that a `Save` of `ConfirmationService` adds to
`outbox` are the events that a `CommitSave` of `OutboxRelay` makes visible;
there the relay starts. It is not part of `ConfirmationSystem`: worker and
service share the table only, nothing the worker does is read by the service,
and what the relay assumes of the saves (any number, overlapping, rolled back)
is more than the service does.

### ConfirmationService and the code

A *handler* is a task that calls the service: the Kafka consumer (one) and the
HTTP requests. `Inbox[h]` is the set of requests it may receive, each any
number of times and in any order, which covers redelivery and the missing
order between topics.

| Code | Model |
|---|---|
| `tracks` without roles, `roles`, `track_roles` | `tracks`, `roles`, `trackRoles` |
| `members.role_id` | `memberRole` |
| `team_applications` | `apps`; the order of `updated_at` is `older` |
| `team_application_members` | `links` |
| `outbox_events` of a team | `outbox[t]`: the rows of the team's newest save that recorded events |
| `datetime.now`, `now()` | `now`, advanced by `Tick` |
| local variables of a call: the request, `application`, `track`, the list of expired applications | `request`, `app`, `track`, `batch` |
| where the call is suspended | `pc` |

| Step (`pc`) | Code that runs next | Actions |
|---|---|---|
| `idle` | the message or HTTP request arrives | `Begin`, `UpdateTrackRoles`; `CreateRule` |
| `row` | `get_by_id`, first SELECT | `ApplicationNotFound`, `SubmitConfirmed`, `SubmitOrUpdate`, `LoadRow` |
| `members` | second SELECT, then the aggregate's method | `ChangeRoster`, `Decide`, `GiveUp` |
| `track` | `SELECT_TRACK` | `TrackNotFound`, `LoadTrack` |
| `roles` | `SELECT_ROLES` | `LoadRoles` |
| `count` | `COUNT_CONFIRMED`, then `validate` | `ValidateApplication`, `WaitlistFull`, `WaitlistOpen` |
| `next` | `SELECT_NEXT_TEAM_APPLICATION` | `NextWaiting`, `NoneWaiting` |
| `expired`, `expired members`, `expire` | the two SELECTs and the loop of `expire_grace_periods` | `SelectExpired`, `NoneExpired`, `SelectExpiredMembers`, `ExpireOne` |
| `save` | the transaction of `save` | `Save`, `SaveFails` |
| any | the connection is lost, the process dies | `Abort` |

`submit_team` and `update_team` read an application only for its status (the
second also compares the track and sets a status that is `NONE` anyway), so
the SELECT of its members changes nothing and has no step.

Abstracted: names, texts of reasons (whether there is one is kept), creation
times, the ids and payloads of events. The list of members in memory may hold
one id twice, since `add_member` does not look; as the database returns each
id once and one call appends at most one entry, the list is a set of entries
in which `joined` tells an appended one from a stored one.

PostgreSQL is modelled by what the code relies on: a transaction is atomic, a
SELECT sees the committed rows, constraints refuse a save (`CanSave`: foreign
keys, and NOT NULL for a member's role, which is checked before `ON
CONFLICT`). One approximation is named here: `updated_at` is the start of the
saving transaction and `older` the order of the commits; the two differ only
for saves that overlap, and only the waitlist reads them, which no deployed
handler calls.

### OutboxRelay and the code

| Code | Model |
|---|---|
| BEGIN, COMMIT, ROLLBACK of `save` (`repository.py:21-89`) | `BeginSave`, `CommitSave`, `RollBackSave` |
| `created_at`, the default `now()`: the start of the transaction | `created`, stamped from `clock` at `BeginSave` |
| the SELECT of PENDING rows (`outbox_worker.py:55-64`) | `Poll` |
| the loop over the rows, in an order that `created_at` leaves open for the rows of one save | `First`, `GoOn` |
| `producer.send` returns, raises | `Send`, `SendFails`; either way the broker may have stored the event |
| `UPDATE ... retry_count + 1`, `UPDATE ... 'SENT'` | `CountRetry`, `MarkSent` |
| an UPDATE or the SELECT raises and `_run` sleeps; the process dies and is started again | `DropRound` |
| where `_send_event` is suspended | `pc`: `poll`, `send`, `mark`, `count` |

An event is a save and a topic: the aggregate records a topic at most once
between two saves, and the idempotency key tells them apart. `seen` is a
history variable: which saves were committed when a save began; it tells the
order that the table can know from the one it cannot (transactions that
overlap). Abstracted: payloads, the sleeps, how often beyond once a row failed,
and how often beyond once an event is in its topic.

### KafkaConsumer and the code

| Code | Model |
|---|---|
| the async iterator of `aiokafka`, which moves the position (`consumer.py:139-146`) | `Receive` |
| JSON or DTO error | `SkipMalformed` |
| an error of `json.loads` that line 161 does not catch (`UnicodeDecodeError`) | `DecodeFails`, at the offsets of `Undecodable` |
| `_dispatch` returns, raises one of `OFFSET_ERRORS`, raises anything else | `Dispatch`, `SkipNotFound`, `DispatchFails` |
| `commit()` after a handled and after a skipped message | `Commit` with `pc` = `commit` and `skip` |
| a `commit()` that raises, inside the try and outside of it | `CommitFails`, `SkipCommitFails` |
| `seek` | `SeekBack` |
| the constructor's options (`application.py:51-56`): commit by hand, `auto_offset_reset` not set | `Start` |
| the process ends | `Crash`, `Stop` |

External, modelled from their use: `commit()` without arguments commits the
positions of all partitions; without a committed offset a partition is read
from its end; `event-service` appends messages (`Produce`). What such a start
passes over is kept in `missed`, a history variable, and so is `settled`, the
messages that were handled or skipped on purpose. One process of the group is
modelled; rebalancing among several is not. A topic without a DTO cannot
arrive, as the consumer subscribes to the keys of `TOPICS`. A `role_changed`
without a role returns at once (`consumer.py:98-104`): it is a `Dispatch` that
changes no table, and asks nothing of `ConfirmationService`, so that
`ConfirmationSystem` has no request for it.

### ConfirmationSystem and the code

The state is that of `ConfirmationService` and of `KafkaConsumer`, whose `pc`
is called `consuming` here. `History` is what `event-service` publishes, in its
order; each message goes to a partition (here one per topic) and either does
not parse or is a request of `ConfirmationService`. Partitions are read in any
interleaving, so the order between topics is lost.

| Code | Action |
|---|---|
| `_dispatch` calls the service (`consumer.py:82-133`) | `BeginMessage`, then the steps of the call: `Proceed` |
| the call returns: it saved, or there was nothing to do | `Return`, which is a last step of the service and `Dispatch` of the consumer; `RolesStored` for `update_track_roles`, which is one transaction |
| it raises one of `OFFSET_ERRORS` (`consumer.py:30`) | `Skip`: `ApplicationNotFound` or `TrackNotFound` with `SkipNotFound` |
| it raises because the database refuses the save | `Refused`: `SaveFails` with `DispatchFails`, hence a seek |
| it raises because the connection is lost, before or after the COMMIT | `ConnectionLost` |
| the process ends (`application.py:70-82`, a crash, or a commit outside the try that fails) | `Crash`, `SkipCommitFails`: the consumer stops and `ProcessEnds` drops every call |
| `POST /applications`, `POST /rule` | `Http`, `SetRule` |

Of `ConsumerProperties` the module takes the actions with no poisonous message
(`Poison` is empty): which message fails, and for how long, now follows from
the tables. `Undecodable` is empty as well: what a message that is no text does
to the process does not depend on the tables, and `KafkaConsumer` tells it.

### Migrations and the code

`applied` are the migrations that yoyo has marked, `schema` the tables that
exist. `Creates` and `Drops` are read off the SQL files, `RefersTo` are their
foreign keys. A command takes the pending migrations in order, or the applied
ones from the last (`migrate-down`: only that one); PostgreSQL refuses to drop
a table that another one refers to, and then the command raises. External:
that a migration and its mark are one step; what happens if the process dies
between them is a matter of yoyo.

## Runs

All handlers, teams, members, roles and tracks are model values; no symmetry
is declared, since the inboxes name teams and members.

| Run | Instance | Shows |
|---|---|---|
| `service_sequential` | 1 handler, 2 teams, 2 members, a track that is announced or gets its rules (1 slot, auto-confirmed, roles and size) in either order, every call, 3 instants; 1,195,341 states | `TypeOK`, `RowCoherent`, `DecisionAnnounced`, `GraceHonoured`, `LifecycleSpec` (refinement of `TeamLifecycle`) |
| `service_concurrent` | consumer and HTTP, 2 teams with one owner in two roles, 2 tracks of 1 slot, a payload that names the other track, a roster that is emptied and filled again, a stricter rule set at any time, waitlist and manual confirmation, 2 instants; 881,429 states | `RowCoherent`, `DecisionAnnounced`, `GraceNotExtended` under interleaving; `AcceptedRosterStored`, `AdmissionWithinCapacity` of calls that no other call disturbs |
| `relay` | 2 saves, 3 events, 1 worker; 5,846 states | `TypeOK`, `SentIsPublished`, `PublishedInOrder`, `NotSentAgain`, `ChannelSpec` (refinement of `EventChannel`, its liveness included) |
| `consumer` | 2 partitions of 3 messages, one malformed, one no text, one that always fails; 4,295 states | `TypeOK`, `CommittedSettled`, `SettledInOrder`, `OneRepeated`, `EverySettled` |
| `system` | 3 topics, 6 messages: a track, its role, 2 creations, a submission, one that does not parse; consumer and HTTP; at most 2 faults; 70,128 states | `CommittedStored`, `SkippedOnlyEarly`, `DecisionKept`, `SubmissionAnswered`, `CatchesUp` |
| `overbooking` | violated: `NoOverbooking` | a team in its grace period gets its slot back after it was given away |
| `repeated_join` | violated: `AcceptedRosterMeetsRules` | a join delivered twice counts as two members, and a team of one is accepted where two are required |
| `recovery_announced` | violated: `ConfirmationAnnounced` | a recovered team on a full track is confirmed and announced as validated |
| `confirm_race` | violated: `RejectedNotConfirmed` | the consumer's rejection is overwritten by a manual confirmation |
| `moved_overbooked` | violated: `ConfirmedWithinCapacity` | a team of a full track is updated to another track, finds a slot free there, and is confirmed on the full one |
| `undecodable` | violated: `MalformedSkipped` | a message that is no UTF-8 ends the process at every start |
| `schema_restored` | violated: `SchemaComplete` | down and up lead to a database without `track_roles` |

Why the bounds suffice. Two teams and one slot are the smallest competition: a
slot is taken, freed by a grace period, taken by the other, asked back. Two
members let a roster be too small, right and (by a repeated join) too large in
memory. Three instants put a deadline before, at and after the clock with a
grace period of one. `service_sequential` has one track, because its properties
relate a team to its own earlier state and not to its track; until it has a row, the
database refuses a creation and the service misses the track.

Capacity and rosters are about tracks, and deadlines about the order of calls:
`service_concurrent` has two tracks, two handlers and rules that change, and meets
every way in which a decision can go wrong. Each of the exceptions of its last two
properties is needed in this very instance: without the premise that the call is
undisturbed (in either property), without `Moved` (in either), without
`JoinedTwice`, without `RoleKept` or with manual confirmations included, TLC finds
a counterexample in it. Two instants let a period that is restarted end later.
A track that is announced and has no rules yet confirms nobody by itself, and takes
everybody: `service_sequential` and `system` have it, until its rules are set.
`CHECK_DEADLOCK` stays on in both: an idle handler can always begin.

Two saves are the smallest number that follow each other or overlap, and one of
them records two events, so that a round has a row before and a row after the
one that fails; every round begins with a poll and keeps nothing of the last
one. As the saves are finite in number, the relay comes to rest when all rows
are SENT, and `relay` does not check for deadlock. In
TLC there is one worker, as deployed; the theorems are about any number.

In `consumer`, three messages let a failing one have a message before it and
one behind it, and two partitions let a commit for one carry the position of
the other. The message that is no text is the last of its partition, behind one
that does not parse; while it is not in the log the process goes on. The process
can always crash and start, so that deadlock is checked there without a bound
getting in the way.

In `system`, the history is the shortest in which every outcome of a call
occurs: the track is announced without roles, so that a creation is refused
(no track yet), then a submission (the role of its owner is not known), then
both succeed; one message does not parse; a second creation in the topic of the
first lets a commit for one pass, or not pass, over the other. Two faults
(`MaxFaults`: lost connections, failed commits, crashes, all together) let a
repetition fail again, and a crash follow a commit that failed. Refusals are
not counted: they repeat as often as they happen. Messages of a member
(`add`, `delete`, `role`) go through the same steps as a submission and are
left to the runs of the service. The clock stands still, because nothing a process
calls compares it with a deadline.

What the properties are about:

* `RowCoherent`: a deadline exactly while invalid, a reason exactly while
  rejected, although a save writes three fields that come from a row read
  several awaits earlier.
* `DecisionAnnounced`: a stored `validated` or `rejected` is what the newest
  outbox rows of the team say; with `LifecycleSpec` this is the outbox pattern's
  promise.
* `AcceptedRosterStored`: the rules are evaluated on a list in memory, with
  repeated members and new roles, for the track of a payload; `save` stores a set
  of links, the first role of every member, and no track. A team that is saved as
  accepted meets the rules with what is stored, unless one of these losses is
  the reason (`JoinedTwice`, `RoleKept`, `Moved`) or another call changed a table
  while this one ran. That nothing else can part the two is what the property says:
  not the roles of other members, not rows that were there before, not the
  deletion of links, not the list of the payload that replaces the stored one.
  `AcceptedRosterMeetsRules` is the claim without exceptions.
* `AdmissionWithinCapacity`: a confirmation that validation or the waitlist
  announces leaves the track within its slots, unless the team moved or another
  call changed a table meanwhile. `ConfirmedWithinCapacity` is the claim without
  the exceptions. A recovery is not announced as a confirmation
  (`recovery_announced`), and its slot is the matter of `overbooking`. Manual
  confirmations never look at the slots.
* `GraceNotExtended`, `GraceHonoured`: no change of the roster restarts or
  shortens a running grace period.
* `LifecycleSpec`: every save is a step of `TeamLifecycle`.

* `SentIsPublished`, `PublishedInOrder`: a row leaves the queue only when the
  broker has its event, and a later save overtakes an earlier one only after a
  failed send. The second needs care: a round works on a list that it read
  before; a restart begins a new one while older events are already out.
* `NotSentAgain`: for one worker, a row that the list still holds is still
  PENDING when its turn comes.
* `ChannelSpec`: the events of a save appear together, only they are
  published, and all of them are: at-least-once (`README.md:157-163`).
* `CommittedSettled`: no commit passes over a message, although every commit
  stores the positions of all partitions and a failed message is only sought
  again. The exception are the messages that a start without a committed
  offset passes over (`missed`): until the group's first commit of a partition
  this includes messages that were received and failed.
* `SettledInOrder`, `OneRepeated`: effects in the order of the partition, and
  at most one message of a partition is repeated after a restart, so that the
  service's calls have to bear the repetition of one message and not of a
  stretch of the log.
* `EverySettled`: a message that always fails blocks its partition and no other,
  and from the group's first commit on no start passes over a message. It is
  claimed as long as no log keeps a message that is no text and that no start
  passed over (`Blocked`): such a message ends the process at every start
  (`undecodable`), and with it all partitions.
* `CommittedStored`: end to end, a committed creation is in `team_applications`
  and a committed announcement in `tracks`. It joins the two modules: between
  the transaction and the commit of its offset the call may be refused, fail,
  or end with the process, and the commit may be another partition's.
* `SkippedOnlyEarly`: a message is skipped for good when its team or track is
  not found. This loses what one topic says of a team whose creation, in
  another topic, has not been read yet; the property says that it loses nothing
  else. Taking a refused save for a reason to skip breaks it.
* `DecisionKept`: `create_team` stores status NONE over whatever there is and
  records no event. A creation whose answer was lost is handled again, and
  meanwhile the team may have been submitted and answered by way of the other
  topic: the decision is then undone and `event-service` hears nothing. The
  trace exists in `system`; the property bounds the damage to the last message
  of its partition. A consumer that starts over breaks it.
* `SubmissionAnswered`, `CatchesUp`: a submission gets its decision, and the
  consumer comes to the end of all topics again and again, although a creation
  waits in its partition, by being refused and sought again, for a track that
  another partition announces. Both except a first start that passes over the
  announcement of a track (`application.py:51-56` leaves `auto_offset_reset` at
  latest): until the track is announced again, every creation on it is refused
  and holds up its partition. This was found with the
  properties stated without the exception.
* `SchemaComplete`: see the run.

### Where the code differs from the documents

The violated runs show seven differences, with traces. These others were met while
modelling; the models do what the code does:

* `README.md:125` (and line 88) puts `SUBMITTED` between `NONE` and `VALIDATED`. No
  code stores it: `_on_valid` goes from `NONE` to `VALIDATED`
  (`team_application.py:93-101`), and `TypeCorrect` proves that no row ever has it.
  Only `team_status.py:6` and the type in `0005.team_applications_table.sql:4` list it.
* `consumer.py:50-52` says that `submitted` and `updated` take the stored object and
  use the payload for its ids. `submit_team` and `update_team` save the payload's
  application (`confirmation.py:79-96`), whose only member is the owner, so that
  everybody else leaves the team.
* `consumer.py:48-49` says that the owner's role is updated by `role_changed`. A
  member's row is inserted once and never updated (`queries.py:105`), so that the
  change is validated and not stored (`RoleKept`).
* `README.md:117-118` says that `submit_team` validates against the free slots. The
  count and the save are two transactions (`confirmation.py:60-64`): a manual
  confirmation in between takes the slot, and two teams hold one. This is the trace
  that `AdmissionWithinCapacity` without `undisturbed` gives in `service_concurrent`.
* `README.md:122-123`: nothing calls `expire_grace_periods`. A task that did would
  work on a list read before its saves (`confirmation.py:193-197`), and would reject
  a team that recovered in between.

### Fairness

* The runs of `ConfirmationService` assume none. Whether a grace period ends is a
  question of fairness, and the answer is no: `README.md:122-123` and the docstring
  (`confirmation.py:191-192`) say that infrastructure calls `expire_grace_periods`,
  and the process has no task that does (`application.py:70-74`). A property that
  holds under the fairness of such a caller would be about another program.
* `relay`: a worker goes on with its round (weak: the task sleeps and loops),
  and no event always fails to be sent or marked (strong: the broker and the
  database answer now and then). Saves need not commit, and a crash is never
  forced.
* `consumer`: the process goes on, and is started again when it has ended. The
  repository holds no restart policy; this is an assumption about whoever runs
  it. Strong fairness for each partition: the fetcher, which takes turns, does
  not pass over it forever, and of its messages not every handling (those of
  `Poison` apart) and not every commit fails. Only messages that raise one of the
  caught errors are skipped in the end; those of `Undecodable` never are.

* `system`: the process is started again, the event loop resumes the call in
  hand and the steps after it (weak), and the fetcher takes turns among the
  partitions (strong for each, as in `consumer`). No outcome of a call is
  forced: a save that is refused may be refused forever. Faults are finite
  (`MaxFaults`); HTTP requests are not fair.

## Proofs

`ServiceProofs` proves, for all values of the constants (any number of
handlers, teams, tracks, any requests and configurations, `MaxTime` any
natural number):

* `Invariant`: `Spec => []IInv`
* `TypeCorrect`: `Spec => []TypeOK`
* `RowsCoherent`: `Spec => []RowCoherent`
* `DecisionsAnnounced`: `Spec => []DecisionAnnounced`

from the assumptions of `ConfirmationService`: `None` is no other value, the
inboxes hold requests, the configurations that may be set or stored are
configurations, a link of the initial tables refers to a stored role.

`RowCoherent` and `DecisionAnnounced` are not inductive: a save writes what a
handler has in memory, so the memory must be right first. `IInv` adds

* `LocalsOK`: what a handler holds at each step. Until its decision the
  application is `Undecided` (status, reason and deadline fit together, and no
  event is recorded); at the save it is `Decided` (they still do, and an
  acceptance or rejection has recorded its event). The entries of the expiry
  list are undecided and invalid. None of this refers to the tables, which is
  why it survives whatever other handlers store in between.
* `ForeignKeys`: rows that are referred to exist, without which `SelectRoles`
  and `SelectMembers` would return rows of no type.
* `TypeOK`.

The operators of the aggregate are handled by lemmas of their own (what
`Confirm`, `Reject`, `Validate` and `ExpireGracePeriod` do to an undecided
application), and each action of `Next` by a lemma that it keeps `IInv`.

`RelayProofs` proves, for any saves, events and number of workers, from the
assumptions that `Recorded` gives topics and that `None` is no event:
`Invariant`, `TypeCorrect`, `NothingLost` (`SentIsPublished`),
`NothingOvertakes` (`PublishedInOrder`) and `RelayImplementsChannel`: every
step of the relay is a step or a stutter of `EventChannel` without its
liveness. `PublishedInOrder` is not inductive. A worker sends from its list, so
the list must hold whatever has to go out first (`WorkersOK`); it does when it
is read because an earlier save is visible by then (`RowsOK`), and the order of
the list respects it because a save that began after another was committed has
a later `created_at` (`StampsOK`). None of this refers to other workers, which
is why any number of them keep it.

`ConsumerProofs` proves, for any partitions, lengths of the logs, malformed,
undecodable and failing messages: `Invariant`, `TypeCorrect`, `CommitLosesNothing`
(`CommittedSettled`), `EffectsInOrder` (`SettledInOrder`) and
`AtMostOneRepeated` (`OneRepeated`), from `LogAssumption`. The strengthening is
`PositionOK`: the process has passed only what is done, the message in hand
apart, and is at most that message beyond what is committed. It says in
particular that a seek never goes back by more than one message.

`SystemProofs` proves of the composition, for any history of messages and any
number of faults, from `HistoryAssumption`, `SystemAssumption` and the
assumptions of the two parts:

* `SystemImplementsConsumer`: `SystemSpec => K!Spec`
* `SystemImplementsService`: `SystemSpec => Spec`
* `SystemInvariant`: `SystemSpec => []SystemInv`
* `CommittedIsStored`: `SystemSpec => []CommittedStored`

The first two bring the invariants of both parts along: neither part is proved
again. `CommittedStored` relates the consumer's offsets to the service's tables
and follows from neither invariant. `SystemInv` adds what ties them together:
every offset below the end of a log is that of a message of the history
(`LogOK`), the consumer processes such a message (`HandOK`), the call it has
open is the one of that message, and a creation has built that team's
application (`MessageOK`), and every settled message has its effect in the
tables (`SettledStored`). The last needs that no later step of the service
removes the row of a team or of a track, which is a lemma about
`[Next]_vars` of `ConfirmationService`.

### Further theorems about the service

All rest on `CallsFollowRequests` (`Spec => []CallInv`, in `ServiceProofs`):
what a handler holds is what its request asked for. A decision to be saved is
one that this operation can reach (only `create` stores `none`, only a change
of a stored roster starts a grace period), and the application of a payload is
the payload's until it is validated.

| Theorem | States | Hypotheses |
|---|---|---|
| `GraceNeverExtended` | `GraceNotExtended` | one handler makes the calls that change rosters |
| `GraceAlwaysHonoured` | `GraceHonoured` | the same one makes the calls of `expire_grace_periods` |
| `ServiceImplementsLifecycle` | `LifecycleSpec` | calls do not overlap |
| `SlotsWithinCapacity` | `AdmissionWithinCapacity` of `HistorySpec` | finitely many teams |
| `RosterAcceptedAsStored` | `AcceptedRosterStored` of `HistorySpec` | finitely many teams and members |

The last two hold under every interleaving: their exceptions are part of what they
state, about the one call in question, and not of the hypotheses.

The hypotheses are as weak as the properties allow:

* *One handler changes rosters* (`RosterHandler`). The consumer does, and handles
  one message at a time (`consumer.py:139-192`); the routers only confirm and set
  rules (`confirmation_router.py:26-59`). Everything else may interleave with its
  calls at every await. With two such handlers TLC finds a deadline that is
  prolonged: one reads the team before the other invalidates it, and saves
  later. `ExpiryHandler` says the same of expiry calls; the process makes none.
* *Calls do not overlap* (`CallsSerial`, of `ServiceImplementsLifecycle` only): a premise about the behaviour, not about
  the number of handlers, and true of the consumer as long as no
  `POST /applications` meets one of its calls. `confirm_race` is what happens
  otherwise, which is why the theorem cannot do without it.
* *Finitely many* teams and members: a count of rows is a number.

The inductive invariants, beyond `IInv` and `CallInv`:

* `RosterInv`, `ExpiryInv`: a handler that changes the roster of an invalid team
  has the stored deadline in memory, and a team about to be expired is past it.
  What makes them inductive is that no other operation starts a grace period, so
  that an invalid team is invalid since before the call read it.
* `FreshInv`: until a call decides, the status it holds is the stored one; what it
  saves is a decision that may follow the stored one with the events this step
  announces (`Follows`), and the expired applications that are still to come are
  still invalid.
* `HistoryInv`: of every undisturbed handler, the track in memory is the stored one
  (`TrackFresh`), a slot that was found free is free until the save (`SlotFree`),
  and a roster that was accepted meets the rules in the tables (`RosterValid`). A
  step of another handler leaves the tables as they are or ends the premise, which
  is why no hypothesis about the others is needed. The rest is counting: a save
  confirms one team more (`FS_AddElement`), and, the exceptions apart, the members
  as stored are as many as in memory, role by role, since the list has distinct
  ids (`StoredFormRules`, by a bijection).

### Further theorems about the system and the relay

* `TracksKnown` (of the service): `Spec => []KnownTracks`: a stored application is
  on a stored track, and a call on a known team has not lost its track.
* `SkippedEarly`: `SystemSpec => SkippedOnlyEarly`. A skip comes from a row that is
  not found. If it is the team's, `SystemInv` says that no creation of it has been
  settled; if it is the track's, `KnownTracks` excludes every call but one with a
  payload, and then `SystemInv` says the same of the track's announcements.
* `DecisionsKept`: `SystemSpec => DecisionKept`. Only a creation stores `none`
  (`CallInv`), it is the message in hand, and the consumer's invariant says that
  nothing behind a message in hand has been settled.
* `ProcessKeepsGrace` brings `GraceNeverExtended` to the composition: there the
  hypothesis follows from `HttpAssumption`.
* `MarkedNotSentAgain` (of the relay): `NotSentAgain` for one worker, as deployed.
  Two workers send the same row twice, each from a list of its own. The invariant
  is that a row which the worker has yet to send is PENDING (`FetchedPending`).

The system's theorems add `HttpAssumption` of `ConfirmationSystem`: a router calls
nothing that a message may ask for.

Every invariant named here was checked with TLC before it was proved: those of the
first section in their runs; `RosterInv` and `ExpiryInv` with a second handler that
confirms, rejects and submits (28,107 states); `FreshInv` on an
instance of two teams and one slot whose rules change between calls (6,470,300
states) and on one with two handlers whose calls take turns (97,816 states); the two properties
that rest on `HistoryInv` in `service_concurrent`; `KnownTracks` on the instance of
`system`, `FetchedPending` on that of `relay`.

### What stays with TLC

Every safety property of a passing run is proved. Out of the prover's reach are
liveness (`EverySettled`, `SubmissionAnswered`, `CatchesUp`, the
fairness part of `ChannelSpec`, of which `RelayImplementsChannel` proves the
rest), ENABLED, and what recursive definitions compute (there are none in these
modules).

## Not modelled

* The three reads of the REST API, status codes, schemas, serializers, the
  producer's wrapper, configuration: no state, no decision.
* Rebalancing among several consumer processes: one is deployed.
* The order in which a shutdown stops the tasks (`application.py:76-82`):
  `stop()` of the worker awaits a cancelled task and catches `Exception`, which
  `CancelledError` is not (`outbox_worker.py:33-42`), so the cleanup ends before
  `db_pool.close()`. Nothing stored depends on it; the end of the process, in
  any order of its tasks, is modelled.
* The columns and indexes of the tables as the migrations change them: no
  migration alters a table.

## Plan

1. Done: `ConfirmationRule`, `TeamApplication`, `ConfirmationService`,
   `TeamLifecycle`, their runs, the inductive invariant.
2. Done: `OutboxRelay` as an implementation of `EventChannel`, with its
   theorems; `KafkaConsumer` with its theorems.
3. Done: `ConfirmationSystem`, consumer and service composed, with its theorems;
   `Migrations`.
4. Done: `CallsFollowRequests` and what rests on it: grace periods, the
   refinement of `TeamLifecycle`, slots and rosters; `NotSentAgain` for one
   worker; of the composition, `SkippedOnlyEarly` and `DecisionKept`.
5. Done: capacity and rosters of single calls under every interleaving
   (`ServiceHistory`, `AdmissionProofs`), with the exceptions the code has;
   undecodable messages.
6. Proofs that are left: of `Migrations`, that no table is dropped while another
   refers to it; of the composition, what an HTTP confirmation beside the
   consumer may at worst do to the life cycle, stated as a weaker
   `TeamLifecycle` that holds of every interleaving.
