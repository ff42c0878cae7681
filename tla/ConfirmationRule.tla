------------------------- MODULE ConfirmationRule -------------------------
(* The confirmation rules of a track, and the track aggregate they read.   *)
(*                                                                         *)
(* A rule is a value: RoleConfirmationRule asks for the roles of the       *)
(* track, TeamSizeConfirmationRule bounds the size of the team.  The       *)
(* reason a rule gives for refusing a team is text, and only whether there *)
(* is one matters to the aggregate.                                        *)
(*                                                                         *)
(* The list of members of an application in memory may hold one id twice:  *)
(* add_member appends without looking.  What the database returns holds    *)
(* every id once, and one operation appends at most one member, so the     *)
(* list is a set of entries in which "joined" tells an appended entry from *)
(* a stored one.                                                           *)
EXTENDS Integers, FiniteSets

CONSTANTS
    Roles,      \* ids of the roles event-service defines
    Members,    \* ids of the participants
    None        \* None in Python, NULL in PostgreSQL

RoleRule(exact) == [type |-> "ROLE", exact |-> exact]

TeamSizeRule(lo, hi) == [type |-> "TEAM_SIZE", min |-> lo, max |-> hi]

Rule ==
    [type : {"ROLE"}, exact : BOOLEAN]
        \cup [type : {"TEAM_SIZE"}, min : Int, max : Int]

Member == [id : Members, role : Roles \cup {None}, joined : BOOLEAN]

\* A required role of a track and how many members are to have it.
Role == [id : Roles, count : Int]

\* What is stored of a track, its roles apart.
Config == [rules : SUBSET Rule, max : Int, auto : BOOLEAN, grace : Int]

\* The aggregate in memory: the configuration and the roles of the track.
Track == [config : Config, roles : SUBSET Role]

---------------------------------------------------------------------------
RoleCount(members, role) == Cardinality({m \in members : m.role = role})

RoleRuleHolds(rule, members, roles) ==
    \A r \in roles :
        IF rule.exact THEN RoleCount(members, r.id) = r.count
                      ELSE RoleCount(members, r.id) # 0

TeamSizeRuleHolds(rule, members) ==
    Cardinality(members) \in rule.min .. rule.max

RuleHolds(rule, members, track) ==
    IF rule.type = "ROLE" THEN RoleRuleHolds(rule, members, track.roles)
                          ELSE TeamSizeRuleHolds(rule, members)

RulesHold(members, track) ==
    \A rule \in track.config.rules : RuleHolds(rule, members, track)
============================================================================
