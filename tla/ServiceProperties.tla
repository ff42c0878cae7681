------------------------- MODULE ServiceProperties -------------------------
(* What is claimed of ConfirmationService: first what holds whatever the   *)
(* handlers interleave, then what holds while one handler runs at a time,  *)
(* then what the repository's documents say and the code does not do.      *)
(* What a call achieves that no other call meets is in ServiceHistory.     *)
EXTENDS ConfirmationService

TablesTypeOK ==
    /\ tracks \in [Tracks -> Config \cup {None}]
    /\ roles \in [Roles -> Int \cup {None}]
    /\ trackRoles \in [Tracks -> SUBSET Roles]
    /\ memberRole \in [Members -> Roles \cup {None}]
    /\ apps \in [Teams -> Row \cup {None}]
    /\ links \in [Teams -> SUBSET Members]
    /\ older \in [Teams -> SUBSET Teams]
    /\ outbox \in [Teams -> SUBSET Topic]
    /\ now \in Nat

LocalsTypeOK ==
    /\ pc \in [Handlers -> Step]
    /\ request \in [Handlers -> Request \cup {None}]
    /\ app \in [Handlers -> Application \cup {None}]
    /\ track \in [Handlers -> Track \cup {None}]
    /\ batch \in [Handlers -> SUBSET Application]

\* The tables and the memory of the handlers hold what their types say.  No code stores
\* the status SUBMITTED that the enumeration has (team_status.py:6), although README.md
\* puts it between NONE and VALIDATED (README.md:125): a team is validated from NONE.
TypeOK == TablesTypeOK /\ LocalsTypeOK

HasStatus(t, s) == apps[t] # None /\ apps[t].status = s

---------------------------------------------------------------------------
(* Under any interleaving.                                                 *)

\* A row has a grace deadline exactly while the team is invalid, and a rejection
\* reason exactly while it is rejected, although status, reason and deadline are
\* computed from a row read earlier (team_application.py:58-125).
RowCoherent ==
    \A t \in Teams : apps[t] # None =>
        /\ apps[t].status = "invalid" <=> apps[t].deadline # None
        /\ apps[t].status = "rejected" <=> apps[t].reason

\* A stored acceptance or rejection is the one its newest events announce, so that
\* event-service, which hears only the events, agrees with the row (README, outbox).
DecisionAnnounced ==
    \A t \in Teams :
        /\ HasStatus(t, "validated") => outbox[t] = {"validated"}
        /\ HasStatus(t, "rejected") => "rejected" \in outbox[t]

\* A running grace period is never prolonged: an invalid team that stays invalid
\* keeps its deadline, whatever else its roster goes through
\* (team_application.py:108-109).
GraceNotExtended ==
    [][\A t \in Teams :
        HasStatus(t, "invalid") /\ HasStatus(t, "invalid")'
            => apps'[t].deadline = apps[t].deadline]_vars

---------------------------------------------------------------------------
(* Why they hold: the application in the memory of a handler is coherent   *)
(* from the row it was read from to the row it becomes, whatever happens   *)
(* to the database in between, and its events are recorded by the last     *)
(* method called before the save.                                          *)

\* Status, reason and deadline of an application in memory fit together.
Coherent(a) ==
    /\ a.status = "invalid" <=> a.deadline # None
    /\ a.status = "rejected" <=> a.reason

\* An acceptance or rejection that is about to be saved has recorded its event.
Announces(a) ==
    /\ a.status = "validated" => a.events = {"validated"}
    /\ a.status = "rejected" => "rejected" \in a.events

\* The application that a handler holds before any decision.
Undecided(a) == a \in Application /\ Coherent(a) /\ a.events = {}

\* The application that a handler is about to save.
Decided(a) == a \in Application /\ Coherent(a) /\ Announces(a)

OpsAt(step) ==
    CASE step = "row"     -> {"submit", "update", "delete", "add", "role", "confirm", "reject"}
      [] step = "members" -> {"delete", "add", "role", "confirm", "reject", "waitlist"}
      [] step \in {"track", "roles", "count"} ->
            {"submit", "update", "delete", "add", "role", "waitlist"}
      [] step = "next"    -> {"waitlist"}
      [] step \in {"expired", "expired members", "expire"} -> {"expire"}
      [] OTHER            -> {"create", "submit", "update", "delete", "add", "role",
                              "confirm", "reject", "waitlist", "expire"}

\* What a handler has in memory at each step of a call: the request, the
\* application, the track and the list of expired applications.
CallOK(step, r, a, tr, list) ==
    /\ step = "idle" => list = {}
    /\ step # "idle" => r \in Request /\ r.op \in OpsAt(step)
    /\ list # {} => r.op = "expire"
    /\ step = "members" => Undecided(a)
    /\ step \in {"track", "roles", "count"} /\ r.op # "waitlist" => Undecided(a)
    /\ step \in {"roles", "count"} => tr \in Track
    /\ step = "save" => Decided(a)
    /\ \A x \in list : Undecided(x) /\ x.status = "invalid"

LocalsOK ==
    \A h \in Handlers : CallOK(pc[h], request[h], app[h], track[h], batch[h])

\* The foreign keys of the tables: no call deletes a role or a member.
ForeignKeys ==
    /\ \A k \in Tracks : \A r \in trackRoles[k] : roles[r] # None
    /\ \A m \in Members : memberRole[m] # None => roles[memberRole[m]] # None
    /\ \A t \in Teams : \A m \in links[t] : memberRole[m] # None

IInv == TypeOK /\ ForeignKeys /\ RowCoherent /\ DecisionAnnounced /\ LocalsOK

---------------------------------------------------------------------------
(* One handler at a time.                                                  *)

StoredTrack(k) == [config |-> tracks[k], roles |-> SelectRoles(k)]

RosterMeetsRules(t) ==
    RulesHold(SelectMembers(t), StoredTrack(apps[t].track))

\* A team in its grace period is rejected only when the deadline has passed, unless
\* the team is sent again or refused: no change of its roster ends the period early
\* (team_application.py:108-109, queries.py:58-69).
GraceHonoured ==
    [][\A h \in Handlers, t \in Teams :
            /\ Save(h) /\ app[h].id = t
            /\ HasStatus(t, "invalid") /\ HasStatus(t, "rejected")'
        => apps[t].deadline < now \/ request[h].op \in {"submit", "update", "reject"}]_vars

\* The service decides about a team as TeamLifecycle promises.
Lifecycle == INSTANCE TeamLifecycle WITH
    status <- [t \in Teams |-> IF apps[t] = None THEN "absent" ELSE apps[t].status],
    announced <- outbox

\* Every step of one handler is a step of the team's life cycle: each decision is one
\* that may follow the stored one, with the events that TeamLifecycle gives for it
\* (team_application.py:58-125).
LifecycleSpec == Lifecycle!Spec

---------------------------------------------------------------------------
(* What the repository says of the program and the code does not do.       *)

\* README.md:47-48: the engine decides whether there is a free slot for the team; so
\* a track never has more confirmed teams than max_team_count.
NoOverbooking ==
    \A k \in Tracks : tracks[k] # None => CountConfirmed(k) <= tracks[k].max

\* README.md:106-111: a confirmation rule bounds the size of the team and asks for its
\* roles; so a team that is validated or confirmed has a roster that meets the rules.
AcceptedRosterMeetsRules ==
    \A t \in Teams :
        HasStatus(t, "validated") \/ HasStatus(t, "confirmed") => RosterMeetsRules(t)

\* README.md:161-163: state and events agree; so the events of a confirmed team say that
\* it is confirmed.
ConfirmationAnnounced ==
    \A t \in Teams : HasStatus(t, "confirmed") => "confirmed" \in outbox[t]

\* test_team_application.py:82-92: confirm() refuses a team that is rejected; so
\* confirm_team does not turn a rejected team into a confirmed one.
RejectedNotConfirmed ==
    [][\A h \in Handlers, t \in Teams :
        pc[h] = "save" /\ request[h].op = "confirm" /\ HasStatus(t, "rejected")
            => ~HasStatus(t, "confirmed")']_vars

\* README.md:47-48 and 117-118: the engine decides whether there is a free slot, and
\* validates against max_team_count; so a confirmation that it announces, one by the
\* organiser apart, leaves the team's track within its slots.
ConfirmedWithinCapacity ==
    [][\A h \in Handlers, t \in Teams, k \in Tracks :
            /\ Save(h) /\ app[h].id = t /\ apps'[t].track = k
            /\ request[h].op # "confirm"
            /\ "confirmed" \in app[h].events
        => CountConfirmed(k)' <= tracks[k].max]_vars
============================================================================
