------------------------------ MODULE MCSystem ------------------------------
(* Instances of ConfirmationSystem for TLC.                                *)
EXTENDS SystemProperties, TLC

CONSTANTS
    t1, t2,                         \* teams
    m1,                             \* participant
    dev,                            \* role
    k1,                             \* track
    consumer, http,                 \* handlers
    tracksTopic, created, submitted \* partitions

At(p, r) == [partition |-> p, request |-> r]

Dto(op, t, r) == [op |-> op, team |-> t, track |-> k1, owner |-> m1, role |-> r]

RolesOf(counts) == [op |-> "roles", track |-> k1, counts |-> counts]

\* event-service announces a track without roles and a team whose owner has none, then
\* the role, and submits the team with the owner in it; a second team is created.  One
\* message does not parse.
OneSubmission == <<
    At(tracksTopic, RolesOf([r \in Roles |-> None])),
    At(created, Dto("create", t1, None)),
    At(tracksTopic, RolesOf([r \in Roles |-> 1])),
    At(submitted, None),
    At(submitted, Dto("submit", t1, dev)),
    At(created, Dto("create", t2, dev))>>

SystemInbox ==
    consumer :> {OneSubmission[i].request : i \in DOMAIN OneSubmission} \ {None}
    @@ http :> {[op |-> "confirm", team |-> t1]}

AutoConfirm ==
    {[rules |-> {TeamSizeRule(1, 2)}, max |-> 1, auto |-> TRUE, grace |-> 1]}

NoTracks == [k \in Tracks |-> None]

NoRoles == [r \in Roles |-> None]

NoTrackRoles == [k \in Tracks |-> {}]
=============================================================================
