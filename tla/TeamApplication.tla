-------------------------- MODULE TeamApplication --------------------------
(* The TeamApplication aggregate: the life of a team's application and the *)
(* domain events each change of it records.  Every method is an operator   *)
(* from the application before to the application after.                   *)
(*                                                                         *)
(* The events recorded between two saves are a set of topics: a method     *)
(* records a topic at most once, and the rows that one save writes for     *)
(* them have the same created_at, so the list has no order in the outbox.  *)
EXTENDS ConfirmationRule

CONSTANTS
    Teams,      \* ids of the applications: one per team
    Tracks      \* ids of the tracks

Status == {"none", "validated", "confirmed", "rejected", "invalid"}

Topic == {"validated", "confirmed", "rejected", "became_invalid",
          "slot_released"}

Application ==
    [id : Teams, track : Tracks, status : Status,
     reason : BOOLEAN,              \* whether rejection_reason is set
     deadline : Int \cup {None},    \* grace_deadline
     members : SUBSET Member,
     events : SUBSET Topic]         \* recorded and not yet collected

\* Mutant: a new application has the status that no code sets.
NewApplicationSubmitted(team, track, members) ==
    [id |-> team, track |-> track, status |-> "submitted", reason |-> FALSE,
     deadline |-> None, members |-> members, events |-> {}]

NewApplication(team, track, members) ==
    [id |-> team, track |-> track, status |-> "none", reason |-> FALSE,
     deadline |-> None, members |-> members, events |-> {}]

PushEvent(app, topic) == [app EXCEPT !.events = @ \cup {topic}]

---------------------------------------------------------------------------
AddMember(app, m, role) ==
    [app EXCEPT !.members = @ \cup {[id |-> m, role |-> role, joined |-> TRUE]}]

RemoveMember(app, m) == [app EXCEPT !.members = {x \in @ : x.id # m}]

HasMember(app, m) == \E x \in app.members : x.id = m

\* The aggregate is as the database returned it: one entry per id.
ChangeMemberRole(app, m, role) ==
    [app EXCEPT !.members =
        {IF x.id = m THEN [x EXCEPT !.role = role] ELSE x : x \in @}]

---------------------------------------------------------------------------
\* confirm() raises InvalidStatusTransitionError in any other status.
CanConfirm(app) == app.status = "validated"

Confirm(app) ==
    PushEvent([app EXCEPT !.status = "confirmed", !.reason = FALSE,
                          !.deadline = None], "confirmed")

\* Mutant: the team is rejected and its grace deadline stays.
RejectKeepingDeadline(app) ==
    PushEvent([app EXCEPT !.status = "rejected", !.reason = TRUE], "rejected")

Reject(app) ==
    PushEvent([app EXCEPT !.status = "rejected", !.reason = TRUE,
                          !.deadline = None], "rejected")

ExpireGracePeriod(app) ==
    IF app.status = "invalid" THEN Reject(PushEvent(app, "slot_released"))
                              ELSE app

OnValid(app, track, full) ==
    LET recovered == app.status = "invalid"
        valid == PushEvent(
            [app EXCEPT !.status = IF recovered THEN "confirmed" ELSE "validated",
                        !.reason = FALSE,
                        !.deadline = IF recovered THEN None ELSE @], "validated")
    IN  IF track.config.auto /\ ~full
        THEN PushEvent([valid EXCEPT !.status = "confirmed"], "confirmed")
        ELSE valid

\* Mutant: a team that is already invalid starts its grace period again.
OnInvalidRestarting(app, track, time) ==
    IF app.status \in {"invalid", "confirmed"}
    THEN PushEvent([app EXCEPT !.status = "invalid",
                               !.deadline = time + track.config.grace],
                   "became_invalid")
    ELSE Reject(app)

\* Mutant: a change that leaves an invalid team invalid rejects it.
OnInvalidRejecting(app, track, time) ==
    IF app.status = "confirmed"
    THEN PushEvent([app EXCEPT !.status = "invalid",
                               !.deadline = time + track.config.grace],
                   "became_invalid")
    ELSE Reject(app)

\* Mutant: nothing is recorded when a confirmed team becomes invalid.
OnInvalidSilent(app, track, time) ==
    IF app.status = "invalid" THEN app
    ELSE IF app.status = "confirmed"
    THEN [app EXCEPT !.status = "invalid",
                     !.deadline = time + track.config.grace]
    ELSE Reject(app)

OnInvalid(app, track, time) ==
    CASE app.status = "invalid"   -> app
      [] app.status = "confirmed" ->
            PushEvent([app EXCEPT !.status = "invalid",
                                  !.deadline = time + track.config.grace],
                      "became_invalid")
      [] OTHER                    -> Reject(app)

\* Mutant: a team that is confirmed counts as valid.
ValidateConfirmedOnly(app, track, full, time) ==
    IF RulesHold(app.members, track) \/ app.status = "confirmed"
    THEN OnValid(app, track, full) ELSE OnInvalid(app, track, time)

Validate(app, track, full, time) ==
    IF RulesHold(app.members, track) THEN OnValid(app, track, full)
                                     ELSE OnInvalid(app, track, time)
============================================================================
