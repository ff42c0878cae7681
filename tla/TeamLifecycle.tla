--------------------------- MODULE TeamLifecycle ---------------------------
(* What the confirmation service promises about a team, whatever the       *)
(* requests are: which decision may follow which, and the events that      *)
(* announce it.  A step decides about one team and announces the decision  *)
(* at once; a step that announces nothing leaves the announcement as it    *)
(* was.  ConfirmationService with one handler implements this module.      *)
EXTENDS Naturals

CONSTANT Teams

VARIABLES
    status,     \* the decision about each team, "absent" before it is created
    announced   \* the events of the newest step that announced something

vars == <<status, announced>>

Init ==
    /\ status = [t \in Teams |-> "absent"]
    /\ announced = [t \in Teams |-> {}]

Decide(t, new, events) ==
    /\ status' = [status EXCEPT ![t] = new]
    /\ announced' = [announced EXCEPT ![t] = events]

\* A created team waits for its submission, also one that was created before.
Create(t) ==
    /\ status' = [status EXCEPT ![t] = "none"]
    /\ UNCHANGED announced

\* The roster meets the rules and no slot is given.  A confirmed team loses its
\* slot in this way; an invalid one only when the whole team is sent again.
Accept(t) ==
    /\ status[t] # "absent"
    /\ Decide(t, "validated", {"validated"})

\* The roster meets the rules and the track admits teams by itself.
Admit(t) ==
    /\ status[t] # "absent"
    /\ Decide(t, "confirmed", {"validated", "confirmed"})

\* A waiting team is given a slot.
Confirm(t) ==
    /\ status[t] = "validated"
    /\ Decide(t, "confirmed", {"confirmed"})

\* The roster does not meet the rules, or the organiser refuses the team.
Refuse(t) ==
    /\ status[t] # "absent"
    /\ Decide(t, "rejected", {"rejected"})

\* A confirmed team that no longer meets the rules has a grace period...
Invalidate(t) ==
    /\ status[t] = "confirmed"
    /\ Decide(t, "invalid", {"became_invalid"})

\* ... within which it may recover its confirmation...
Recover(t) ==
    /\ status[t] = "invalid"
    /\ Decide(t, "confirmed", {"validated"})

\* ... and after which its slot is free.
Expire(t) ==
    /\ status[t] = "invalid"
    /\ Decide(t, "rejected", {"slot_released", "rejected"})

Next ==
    \E t \in Teams :
        \/ Create(t) \/ Accept(t) \/ Admit(t) \/ Confirm(t)
        \/ Refuse(t) \/ Invalidate(t) \/ Recover(t) \/ Expire(t)

Spec == Init /\ [][Next]_vars
============================================================================
