----------------------------- MODULE MCHistory -----------------------------
(* Instance of ServiceHistory for TLC.                                     *)
EXTENDS MCService, ServiceHistory

---------------------------------------------------------------------------
(* service_concurrent: k1 asks for a developer, until an organiser asks    *)
(* for two; k2 counts as well, and requires no role.  Between messages that *)
(* create two teams on k1 with the same owner, in different roles, send    *)
(* them again, one for the other track, and change a roster, the waitlist  *)
(* is called, and beside them a team is confirmed by hand.                 *)
CountConfig == [SoloConfig EXCEPT !.rules = {RoleRule(TRUE)}]

HistTracks ==
    k1 :> [SoloConfig EXCEPT !.rules = {RoleRule(FALSE)}] @@ k2 :> CountConfig

HistConfigs == {CountConfig}

HistRoles == [r \in Roles |-> 2]

HistTrackRoles == k1 :> {dev} @@ k2 :> {}

HistInbox ==
    consumer :>
        {Dto("create", t1, k1, m1, dev), Dto("update", t1, k2, m1, dev),
         Dto("create", t2, k1, m1, ops), Dto("submit", t2, k1, m1, dev),
         Change("delete", t1, m1, None), Change("add", t1, m1, dev), Waitlist(k1)}
    @@ http :> {Manual("confirm", t1)}
=============================================================================
