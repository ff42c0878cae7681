---------------------------- MODULE EventChannel ----------------------------
(* What the transactional outbox promises: the events of a save are       *)
(* recorded together or not at all, only a recorded event is published,   *)
(* and every recorded event is published in the end.  It may be published *)
(* again; that is no step here.  OutboxRelay implements this module.       *)
CONSTANTS Saves, Topics, Recorded

Event == {e \in [save : Saves, topic : Topics] : e.topic \in Recorded[e.save]}

VARIABLES
    recorded,   \* events whose save is committed
    published   \* events that Kafka has stored at least once

vars == <<recorded, published>>

Init == recorded = {} /\ published = {}

Record(s) ==
    /\ \A e \in recorded : e.save # s
    /\ recorded' = recorded \cup {e \in Event : e.save = s}
    /\ UNCHANGED published

Publish(e) ==
    /\ e \in recorded \ published
    /\ published' = published \cup {e}
    /\ UNCHANGED recorded

Next == (\E s \in Saves : Record(s)) \/ (\E e \in Event : Publish(e))

SafeSpec == Init /\ [][Next]_vars

Spec == SafeSpec /\ \A e \in Event : WF_vars(Publish(e))
============================================================================
