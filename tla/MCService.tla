----------------------------- MODULE MCService -----------------------------
(* Instances of ConfirmationService for TLC.                               *)
EXTENDS ServiceProperties, TLC

CONSTANTS
    t1, t2,             \* teams
    m1, m2,             \* participants
    dev, ops,           \* roles
    k1, k2,             \* tracks
    consumer, http      \* handlers

\* One member of each team's payload and the member who joins and leaves.
Dto(op, t, k, m, r) == [op |-> op, team |-> t, track |-> k, owner |-> m, role |-> r]

Change(op, t, m, r) == [op |-> op, team |-> t, member |-> m, role |-> r]

Manual(op, t) == [op |-> op, team |-> t]

Waitlist(k) == [op |-> "waitlist", track |-> k]

Expire == [op |-> "expire"]

TrackRoles(k, counts) == [op |-> "roles", track |-> k, counts |-> counts]

---------------------------------------------------------------------------
(* service_sequential: every call on one track, which a message announces *)
(* or to which an organiser gives one slot, auto-confirmed, for teams of   *)
(* two with a developer; one handler, one call at a time.                  *)
SeqConfig ==
    [rules |-> {RoleRule(FALSE), TeamSizeRule(2, 2)},
     max |-> 1, auto |-> TRUE, grace |-> 1]

SeqTracks == [k \in Tracks |-> SeqConfig]

SeqConfigs == {SeqConfig}

NoTracksYet == [k \in Tracks |-> None]

SeqRoles == [r \in Roles |-> 1]

SeqTrackRoles == [k \in Tracks |-> Roles]

SeqInbox ==
    consumer :>
        {Dto(op, t, k1, m1, dev) : op \in {"create", "submit", "update"}, t \in Teams}
        \cup {Dto(op, t1, k1, m1, None) : op \in {"create", "submit"}}
        \cup {Change("delete", t, m1, None) : t \in Teams}
        \cup {Change("add", t, m, dev) : t \in Teams, m \in Members}
        \cup {Manual(op, t) : op \in {"confirm", "reject"}, t \in Teams}
        \cup {Change("role", t1, m1, dev), TrackRoles(k1, [r \in Roles |-> 1])}
        \cup {Waitlist(k1), Expire}

---------------------------------------------------------------------------
(* The runs that compare the code with the documents: few calls, so that   *)
(* the counterexample is the short one.                                    *)
SoloConfig == [SeqConfig EXCEPT !.rules = {RoleRule(FALSE), TeamSizeRule(1, 2)}]

SoloTracks == [k \in Tracks |-> SoloConfig]

ManualTracks == [k \in Tracks |-> [SoloConfig EXCEPT !.auto = FALSE]]

FullSlotInbox ==
    consumer :>
        UNION {{Dto("create", t, k1, m1, dev), Dto("submit", t, k1, m1, dev),
                Change("delete", t, m1, None), Change("add", t, m1, dev)} : t \in Teams}

JoinInbox ==
    consumer :>
        {Dto("create", t1, k1, m1, dev), Change("add", t1, m1, dev)}

MoveFullInbox ==
    consumer :>
        {Dto("create", t, k1, m1, dev) : t \in Teams}
        \cup {Dto("submit", t1, k1, m1, dev), Dto("update", t2, k2, m1, dev)}

RaceInbox ==
    consumer :>
        {Dto("create", t1, k1, m1, dev), Dto("submit", t1, k1, m1, dev),
         Change("delete", t1, m1, None)}
    @@ http :> {Manual("confirm", t1)}
============================================================================
