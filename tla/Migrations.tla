----------------------------- MODULE Migrations -----------------------------
(* The schema under migrate, migrate-down and migrate-drop.                *)
(*                                                                         *)
(* A command holds the lock of yoyo.  It applies migrations in their       *)
(* order, or rolls them back from the last, one after the other, each with *)
(* the mark of what is applied; it may die between two of them.            *)
(* PostgreSQL refuses to create a table that refers to a missing one, and  *)
(* to drop one that another refers to.                                     *)
EXTENDS Naturals

Migration == 1 .. 7

Table == {"outbox_events", "roles", "members", "tracks", "team_applications",
          "track_roles", "team_application_members"}

\* CREATE TABLE IF NOT EXISTS of a migration.
Creates ==
    <<"outbox_events", "roles", "members", "tracks", "team_applications",
      "track_roles", "team_application_members">>

\* DROP TABLE IF EXISTS of its rollback.
Drops ==
    <<"outbox_events", "roles", "members", "tracks", "team_applications",
      "track_roles", "track_roles">>

\* The foreign keys of a table.
RefersTo(t) ==
    CASE t = "members"                  -> {"roles"}
      [] t = "team_applications"        -> {"tracks"}
      [] t = "track_roles"              -> {"tracks", "roles"}
      [] t = "team_application_members" -> {"team_applications", "members"}
      [] OTHER                          -> {}

VARIABLES
    schema,     \* the tables that exist
    applied,    \* the migrations that are marked
    command,    \* the command that runs
    todo        \* the migrations it has left

vars == <<schema, applied, command, todo>>

Init ==
    /\ schema = {}
    /\ applied = {}
    /\ command = "none"
    /\ todo = {}

First(s) == CHOOSE m \in s : \A n \in s : m <= n

Last(s) == CHOOSE m \in s : \A n \in s : n <= m

Run(name, migrations) ==
    /\ command = "none"
    /\ command' = name
    /\ todo' = migrations
    /\ UNCHANGED <<schema, applied>>

Up == Run("up", Migration \ applied)

Down == applied # {} /\ Run("down", {Last(applied)})

Drop == Run("drop", applied)

\* The command returns, raises or dies.
End ==
    /\ command # "none"
    /\ command' = "none"
    /\ todo' = {}
    /\ UNCHANGED <<schema, applied>>

CanCreate(t) == t \in schema \/ RefersTo(t) \subseteq schema

CanDrop(t) == t \in schema => \A u \in schema : t \notin RefersTo(u)

Apply ==
    /\ command = "up" /\ todo # {}
    /\ CanCreate(Creates[First(todo)])
    /\ schema' = schema \cup {Creates[First(todo)]}
    /\ applied' = applied \cup {First(todo)}
    /\ todo' = todo \ {First(todo)}
    /\ UNCHANGED command

RollBack ==
    /\ command \in {"down", "drop"} /\ todo # {}
    /\ CanDrop(Drops[Last(todo)])
    /\ schema' = schema \ {Drops[Last(todo)]}
    /\ applied' = applied \ {Last(todo)}
    /\ todo' = todo \ {Last(todo)}
    /\ UNCHANGED command

Next == Up \/ Down \/ Drop \/ Apply \/ RollBack \/ End

Spec == Init /\ [][Next]_vars

---------------------------------------------------------------------------
\* migrate applies all pending migrations (migrate.py:16) and the schema has seven tables
\* (README.md:220-221): once it has applied the last pending one, all of them exist,
\* whatever was rolled back before.
SchemaComplete ==
    [][command = "up" /\ applied # Migration /\ applied' = Migration
        => schema' = Table]_vars
============================================================================
