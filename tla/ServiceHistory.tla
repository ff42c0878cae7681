--------------------------- MODULE ServiceHistory ---------------------------
(* What a call achieves that no other call meets.                          *)
(*                                                                         *)
(* ConfirmationService with a history variable, which the code does not    *)
(* have and no action reads: the handlers whose call nobody has disturbed. *)
(* The properties below say of a decision that goes wrong what it must     *)
(* have met: a call that changed a table meanwhile, or one of the three    *)
(* losses that Moved, JoinedTwice and RoleKept name.                       *)
EXTENDS ServiceProperties

VARIABLE
    undisturbed     \* the handlers that run a call since the beginning of which no
                    \* one else has changed a table

\* A call starts undisturbed, and stays so while the tables stay as they are or change by
\* a step of its own, which moves its program counter.
Observe ==
    undisturbed' = {h \in Handlers :
        /\ pc'[h] # "idle"
        /\ \/ pc[h] = "idle"
           \/ h \in undisturbed /\ (tables' = tables \/ pc'[h] # pc[h])}

HistorySpec ==
    /\ Init /\ undisturbed = {}
    /\ [][Next /\ Observe]_<<vars, undisturbed>>

---------------------------------------------------------------------------
(* What a save may meet, although its call is undisturbed.                 *)

\* The payload names another track than the row, whose track the save keeps
\* (confirmation.py:90, queries.py:14-18; run moved_overbooked).
Moved(h) == apps[app[h].id] # None /\ apps[app[h].id].track # app[h].track

\* The list has a member twice, and the links have it once (team_application.py:45-46,
\* queries.py:119; run repeated_join).
JoinedTwice(h) == \E x, y \in app[h].members : x # y /\ x.id = y.id

\* The list gives a member another role than its row, which the save keeps
\* (queries.py:105).
RoleKept(h) ==
    \E x \in app[h].members : memberRole[x.id] \notin {None, x.role}

\* A team that validation accepts has a roster in the database that meets the rules
\* in force, unless another call changed a table meanwhile, the team moved, a member
\* joined twice or kept its old role.  Rows written before for members of other teams,
\* links deleted and inserted again, and the list of the payload that replaces the stored
\* one do no harm (confirmation.py:58-64, repository.py:40-65).
AcceptedRosterStored ==
    [][\A h \in undisturbed, t \in Teams :
            /\ Save(h) /\ app[h].id = t
            /\ request[h].op \notin {"confirm", "waitlist"}
            /\ app[h].status \in {"validated", "confirmed"}
        => RosterMeetsRules(t)' \/ Moved(h) \/ JoinedTwice(h) \/ RoleKept(h)]_vars

\* A confirmation that validation or the waitlist announces leaves the track of the team
\* within max_team_count, unless another call changed a table meanwhile or the team
\* moved (confirmation.py:52-60, 173-182).
AdmissionWithinCapacity ==
    [][\A h \in undisturbed, t \in Teams, k \in Tracks :
            /\ Save(h) /\ app[h].id = t /\ apps'[t].track = k
            /\ request[h].op # "confirm"
            /\ "confirmed" \in app[h].events
        => CountConfirmed(k)' <= tracks[k].max \/ Moved(h)]_vars
=============================================================================
