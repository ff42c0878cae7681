-------------------------- MODULE RelayProperties --------------------------
(* What is claimed of OutboxRelay, for any number of workers unless a      *)
(* property says otherwise.                                                *)
EXTENDS OutboxRelay

Phase == {"new", "open", "committed", "rolled back"}

\* The tables and the workers hold what their types say; in particular no code sets the
\* status FAILED that the database type has (0001.outbox_table.sql:1).
TypeOK ==
    /\ clock \in Nat
    /\ phase \in [Saves -> Phase]
    /\ created \in [Saves -> Nat]
    /\ seen \in [Saves -> SUBSET Saves]
    /\ status \in [Event -> {"absent", "PENDING", "SENT"}]
    /\ retried \subseteq Event
    /\ published \subseteq Event
    /\ pc \in [Workers -> {"poll", "send", "count", "mark"}]
    /\ fetched \in [Workers -> SUBSET Event]
    /\ current \in [Workers -> Event \cup {None}]

\* No event is lost: a row leaves the queue only after the broker has stored its event,
\* whatever fails between the send and the UPDATE (outbox_worker.py:102-127).
SentIsPublished ==
    \A e \in Event : status[e] = "SENT" => e \in published

\* An event of a save that began after another save was committed is published after the
\* events of that one, except those whose send has failed: polls, failed updates and
\* restarts never let a later event overtake (outbox_worker.py:61, 83-127).
PublishedInOrder ==
    \A e, f \in Event :
        e.save \in seen[f.save] /\ f \in published
            => e \in published \/ e \in retried

\* One worker sends an event again only while its row is still PENDING, although the
\* list it works on was read before the earlier rows of the list were sent and marked.
NotSentAgain ==
    [][\A w \in Workers, e \in Event : Send(w, e) => status[e] = "PENDING"]_vars

\* The rows and the worker are the channel that the outbox pattern promises.
Channel == INSTANCE EventChannel WITH
    recorded <- {e \in Event : status[e] # "absent"}

\* Published events were committed with their save, and every committed event is
\* published in the end: at-least-once delivery (README.md:157-163).
ChannelSpec == Channel!Spec

---------------------------------------------------------------------------
(* Why SentIsPublished and PublishedInOrder hold.                          *)

\* A row exists exactly when its save is committed, and only its event is published.
RowsOK ==
    \A e \in Event :
        /\ status[e] # "absent" <=> phase[e.save] = "committed"
        /\ e \in published \cup retried => status[e] # "absent"

\* A save that began after another was committed has a later created_at.
StampsOK ==
    \A s \in Saves :
        /\ created[s] <= clock
        /\ phase[s] = "new" <=> created[s] = 0
        /\ \A r \in seen[s] : phase[r] = "committed" /\ created[r] < created[s]
        /\ phase[s] = "new" => seen[s] = {}

\* A worker holds rows that exist, marks an event only after it was sent, and has every
\* row that must go out before one of those it has yet to send.
WorkersOK ==
    \A w \in Workers :
        /\ pc[w] = "poll" => fetched[w] = {}
        /\ pc[w] \in {"mark", "count"} => current[w] \in fetched[w]
        /\ pc[w] = "mark" => current[w] \in published
        /\ \A f \in fetched[w] :
            /\ status[f] # "absent"
            /\ \A e \in Event :
                e.save \in seen[f.save]
                    => e \in fetched[w] \cup published \cup retried

IInv ==
    TypeOK /\ SentIsPublished /\ PublishedInOrder /\ RowsOK /\ StampsOK /\ WorkersOK
============================================================================
