---------------------------- MODULE OutboxRelay ----------------------------
(* The outbox table and the workers that relay its rows to Kafka.          *)
(*                                                                         *)
(* A save that records events is a transaction: created_at of its rows is  *)
(* the time at which it began, the rows are visible when it commits, and   *)
(* transactions overlap.  A worker polls the PENDING rows in the order of  *)
(* created_at and sends them one by one.  The broker may store an event    *)
(* and its answer be lost; the database may fail at each UPDATE; the       *)
(* process may die at each await and starts again with a poll.             *)
(*                                                                         *)
(* One process has one worker; nothing keeps a second process from running *)
(* one.  Abstracted: payloads, keys, the two sleeps, the number of retries *)
(* beyond the first, and repetitions of an event in its topic.             *)
EXTENDS Naturals

CONSTANTS
    Saves,      \* transactions of TeamApplicationPostgresRepository.save
    Topics,
    Recorded,   \* the topics of the events that each save records
    Workers,
    None        \* no event is being sent

ASSUME RecordedAssumption == Recorded \in [Saves -> SUBSET Topics]

\* The aggregate records a topic at most once between two saves.
Event == {e \in [save : Saves, topic : Topics] : e.topic \in Recorded[e.save]}

ASSUME NoneAssumption == None \notin Event

VARIABLES
    clock,      \* now() at the newest BEGIN
    phase,      \* of each save's transaction
    created,    \* created_at of the rows of a save, 0 before it began
    seen,       \* the saves that were committed when a save began
    status,     \* outbox_events.status of each event, "absent" without a row
    retried,    \* the events with retry_count > 0
    published,  \* the events that Kafka has stored
    pc,         \* what a worker does next
    fetched,    \* the rest of the rows it fetched, the current one included
    current     \* the event it has just sent, or failed to send

saveVars == <<clock, phase, created, seen>>
workerVars == <<pc, fetched, current>>
vars == <<saveVars, status, retried, published, workerVars>>

Init ==
    /\ clock = 0
    /\ phase = [s \in Saves |-> "new"]
    /\ created = [s \in Saves |-> 0]
    /\ seen = [s \in Saves |-> {}]
    /\ status = [e \in Event |-> "absent"]
    /\ retried = {}
    /\ published = {}
    /\ pc = [w \in Workers |-> "poll"]
    /\ fetched = [w \in Workers |-> {}]
    /\ current = [w \in Workers |-> None]

Committed == {s \in Saves : phase[s] = "committed"}

---------------------------------------------------------------------------
(* The transactions of save.                                               *)

BeginSave(s) ==
    /\ phase[s] = "new"
    /\ phase' = [phase EXCEPT ![s] = "open"]
    /\ clock' = clock + 1
    /\ created' = [created EXCEPT ![s] = clock + 1]
    /\ seen' = [seen EXCEPT ![s] = Committed]
    /\ UNCHANGED <<status, retried, published, workerVars>>

CommitSave(s) ==
    /\ phase[s] = "open"
    /\ phase' = [phase EXCEPT ![s] = "committed"]
    /\ status' = [e \in Event |-> IF e.save = s THEN "PENDING" ELSE status[e]]
    /\ UNCHANGED <<clock, created, seen, retried, published, workerVars>>

RollBackSave(s) ==
    /\ phase[s] = "open"
    /\ phase' = [phase EXCEPT ![s] = "rolled back"]
    /\ UNCHANGED <<clock, created, seen, status, retried, published, workerVars>>

---------------------------------------------------------------------------
(* OutboxWorker                                                            *)

\* Mutant: an event that failed once is not fetched again.
PendingFresh(e) == status[e] = "PENDING" /\ e \notin retried

\* Mutant: every row is fetched.
PendingAny(e) == status[e] # "absent"

Pending(e) == status[e] = "PENDING"

\* One SELECT; without a row the worker sleeps and polls again.
Poll(w) ==
    /\ pc[w] = "poll"
    /\ \E e \in Event : Pending(e)
    /\ fetched' = [fetched EXCEPT ![w] = {e \in Event : Pending(e)}]
    /\ pc' = [pc EXCEPT ![w] = "send"]
    /\ UNCHANGED <<saveVars, status, retried, published, current>>

\* Mutant: the rows come in any order.
FirstOfAny(w, e) == e \in fetched[w]

\* ORDER BY created_at ASC: rows of one save may come in either order.
First(w, e) ==
    /\ e \in fetched[w]
    /\ \A f \in fetched[w] : created[e.save] <= created[f.save]

\* producer.send returns: the broker has stored the event.
Send(w, e) ==
    /\ pc[w] = "send"
    /\ First(w, e)
    /\ published' = published \cup {e}
    /\ current' = [current EXCEPT ![w] = e]
    /\ pc' = [pc EXCEPT ![w] = "mark"]
    /\ UNCHANGED <<saveVars, status, retried, fetched>>

\* Mutant: the worker goes on to mark an event that it failed to send.
SendFailsMarking(w, e) ==
    /\ pc[w] = "send"
    /\ First(w, e)
    /\ published' \in {published, published \cup {e}}
    /\ current' = [current EXCEPT ![w] = e]
    /\ pc' = [pc EXCEPT ![w] = "mark"]
    /\ UNCHANGED <<saveVars, status, retried, fetched>>

\* producer.send raises; the broker may have stored the event all the same.
SendFails(w, e) ==
    /\ pc[w] = "send"
    /\ First(w, e)
    /\ published' \in {published, published \cup {e}}
    /\ current' = [current EXCEPT ![w] = e]
    /\ pc' = [pc EXCEPT ![w] = "count"]
    /\ UNCHANGED <<saveVars, status, retried, fetched>>

GoOn(w) ==
    /\ fetched' = [fetched EXCEPT ![w] = @ \ {current[w]}]
    /\ pc' = [pc EXCEPT ![w] =
                IF fetched[w] = {current[w]} THEN "poll" ELSE "send"]
    /\ current' = [current EXCEPT ![w] = None]

\* Mutant: a failure makes the row FAILED.
CountRetryFailed(w) ==
    /\ pc[w] = "count"
    /\ retried' = retried \cup {current[w]}
    /\ status' = [status EXCEPT ![current[w]] = "FAILED"]
    /\ GoOn(w)
    /\ UNCHANGED <<saveVars, published>>

\* UPDATE ... SET retry_count = retry_count + 1: the row stays PENDING.
CountRetry(w) ==
    /\ pc[w] = "count"
    /\ retried' = retried \cup {current[w]}
    /\ GoOn(w)
    /\ UNCHANGED <<saveVars, status, published>>

\* UPDATE ... SET status = 'SENT' WHERE ... AND status = 'PENDING'.
MarkSent(w) ==
    /\ pc[w] = "mark"
    /\ status' = [status EXCEPT ![current[w]] = "SENT"]
    /\ GoOn(w)
    /\ UNCHANGED <<saveVars, retried, published>>

\* An UPDATE fails and _run starts a new round, or the process dies and is
\* started again.
DropRound(w) ==
    /\ pc[w] # "poll"
    /\ fetched' = [fetched EXCEPT ![w] = {}]
    /\ pc' = [pc EXCEPT ![w] = "poll"]
    /\ current' = [current EXCEPT ![w] = None]
    /\ UNCHANGED <<saveVars, status, retried, published>>

Round(w) ==
    \/ Poll(w)
    \/ \E e \in Event : Send(w, e) \/ SendFails(w, e)
    \/ CountRetry(w) \/ MarkSent(w)

Next ==
    \/ \E s \in Saves : BeginSave(s) \/ CommitSave(s) \/ RollBackSave(s)
    \/ \E w \in Workers : Round(w) \/ DropRound(w)

Spec == Init /\ [][Next]_vars

\* A worker goes on with its round, and it is not the same event that always fails
\* to be sent or to be marked.
FairSpec ==
    /\ Spec
    /\ \A w \in Workers :
        /\ WF_vars(Round(w))
        /\ \A e \in Event :
            /\ SF_vars(Send(w, e))
            /\ SF_vars(MarkSent(w) /\ current[w] = e)
============================================================================
