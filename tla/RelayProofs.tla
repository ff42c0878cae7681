---------------------------- MODULE RelayProofs ----------------------------
(* The theorems about OutboxRelay: nothing is lost and nothing overtakes,  *)
(* for any number of saves, events and workers.                            *)
EXTENDS RelayProperties, TLAPS

\* The initial state satisfies the inductive invariant: no row, nothing fetched.
LEMMA InitInvariant == Init => IInv
  BY DEF Init, IInv, TypeOK, Phase, SentIsPublished, PublishedInOrder, RowsOK,
             StampsOK, WorkersOK, Event

\* A save that begins keeps the invariant: its created_at is later than that of
\* every save it could see.
LEMMA BeginSaveKeeps ==
  ASSUME IInv, NEW s \in Saves, BeginSave(s)
  PROVE  IInv'
  <1> USE DEF IInv
  <1>1. Committed \in SUBSET Saves
    BY DEF Committed
  <1>2. /\ phase[s] = "new" /\ phase' = [phase EXCEPT ![s] = "open"]
        /\ clock' = clock + 1
        /\ created' = [created EXCEPT ![s] = clock + 1]
        /\ seen' = [seen EXCEPT ![s] = Committed]
        /\ UNCHANGED <<status, retried, published, pc, fetched, current>>
    BY DEF BeginSave, workerVars
  <1>3. TypeOK'
    <2>1. phase' \in [Saves -> Phase]
      BY <1>2 DEF TypeOK, Phase
    <2>2. clock' \in Nat /\ created' \in [Saves -> Nat]
      BY <1>2 DEF TypeOK
    <2>3. seen' \in [Saves -> SUBSET Saves]
      BY <1>1, <1>2 DEF TypeOK
    <2> QED
      BY <1>2, <2>1, <2>2, <2>3 DEF TypeOK
  <1>4. \A f \in Event : f \in published \/ (\E w \in Workers : f \in fetched[w])
                            => f.save # s /\ seen'[f.save] = seen[f.save]
    <2>1. \A f \in Event : status[f] # "absent" => f.save # s
      BY <1>2 DEF RowsOK
    <2>2. \A f \in Event : f \in published => status[f] # "absent"
      BY DEF RowsOK
    <2>3. \A w \in Workers : \A f \in fetched[w] : status[f] # "absent"
      BY DEF WorkersOK
    <2>4. \A f \in Event : f.save \in Saves
      BY DEF Event
    <2> QED
      BY <1>2, <2>1, <2>2, <2>3, <2>4 DEF TypeOK
  <1>5. SentIsPublished'
    BY <1>2 DEF SentIsPublished
  <1>6. PublishedInOrder'
    BY <1>2, <1>4 DEF PublishedInOrder
  <1>7. RowsOK'
    BY <1>2 DEF RowsOK, TypeOK, Event
  <1>8. StampsOK'
    <2>1. \A t \in Saves : created[t] \in Nat /\ seen[t] \subseteq Saves
      BY DEF TypeOK
    <2>2. clock \in Nat
      BY DEF TypeOK
    <2>3. \A t \in Saves : IF t = s
                            THEN created'[t] = clock + 1 /\ seen'[t] = Committed
                            ELSE created'[t] = created[t] /\ seen'[t] = seen[t]
      BY <1>2 DEF TypeOK
    <2>4. \A t \in Saves : phase'[t] = IF t = s THEN "open" ELSE phase[t]
      BY <1>2 DEF TypeOK
    <2>5. \A t \in Saves : \A r \in seen'[t] :
              phase'[r] = "committed" /\ created'[r] < created'[t]
      <3>1. \A r \in Committed : r # s /\ r \in Saves /\ phase[r] = "committed"
        BY <1>2 DEF Committed
      <3>2. \A t \in Saves : \A r \in seen[t] : r # s /\ r \in Saves
        BY <1>2, <2>1 DEF StampsOK
      <3> QED
        BY <1>2, <2>1, <2>2, <2>3, <2>4, <3>1, <3>2 DEF StampsOK
    <2> QED
      BY <1>2, <2>1, <2>2, <2>3, <2>4, <2>5 DEF StampsOK
  <1>9. WorkersOK'
    <2>1. \A w \in Workers : fetched[w] \subseteq Event
      BY DEF TypeOK
    <2> QED
      BY <1>2, <1>4, <2>1 DEF WorkersOK
  <1> QED
    BY <1>3, <1>5, <1>6, <1>7, <1>8, <1>9

\* A commit keeps the invariant: its rows appear together, and nobody has them yet.
LEMMA CommitSaveKeeps ==
  ASSUME IInv, NEW s \in Saves, CommitSave(s)
  PROVE  IInv'
  <1> USE DEF IInv
  <1>1. /\ phase[s] = "open" /\ phase' = [phase EXCEPT ![s] = "committed"]
        /\ status' = [e \in Event |-> IF e.save = s THEN "PENDING" ELSE status[e]]
        /\ UNCHANGED <<clock, created, seen, retried, published, pc, fetched, current>>
    BY DEF CommitSave, workerVars
  <1>2. TypeOK'
    BY <1>1 DEF TypeOK, Phase
  <1>3. \A e \in Event : status[e] = "absent" <=> phase[e.save] # "committed"
    BY DEF RowsOK
  <1>4. \A e \in Event : e.save = s => status[e] = "absent" /\ e \notin published
    BY <1>1, <1>3 DEF RowsOK
  <1>5. SentIsPublished'
    BY <1>1 DEF SentIsPublished
  <1>6. PublishedInOrder'
    BY <1>1 DEF PublishedInOrder
  <1>7. RowsOK'
    BY <1>1, <1>3 DEF RowsOK, TypeOK, Event
  <1>8. StampsOK'
    BY <1>1 DEF StampsOK, TypeOK
  <1>9. WorkersOK'
    BY <1>1 DEF WorkersOK, TypeOK
  <1> QED
    BY <1>2, <1>5, <1>6, <1>7, <1>8, <1>9

\* A rollback keeps the invariant: there is no row of the save.
LEMMA RollBackSaveKeeps ==
  ASSUME IInv, NEW s \in Saves, RollBackSave(s)
  PROVE  IInv'
  <1> USE DEF IInv
  <1>1. /\ phase[s] = "open" /\ phase' = [phase EXCEPT ![s] = "rolled back"]
        /\ UNCHANGED <<clock, created, seen, status, retried, published, pc, fetched, current>>
    BY DEF RollBackSave, workerVars
  <1>2. TypeOK'
    BY <1>1 DEF TypeOK, Phase
  <1>3. SentIsPublished' /\ PublishedInOrder' /\ WorkersOK'
    BY <1>1 DEF SentIsPublished, PublishedInOrder, WorkersOK
  <1>4. RowsOK'
    BY <1>1 DEF RowsOK, TypeOK, Event
  <1>5. StampsOK'
    BY <1>1 DEF StampsOK, TypeOK
  <1> QED
    BY <1>2, <1>3, <1>4, <1>5

\* A poll keeps the invariant: every event that must go out before a fetched one is
\* fetched as well, or was sent.
LEMMA PollKeeps ==
  ASSUME IInv, NEW w \in Workers, Poll(w)
  PROVE  IInv'
  <1> USE DEF IInv
  <1>1. /\ fetched' = [fetched EXCEPT ![w] = {e \in Event : status[e] = "PENDING"}]
        /\ pc' = [pc EXCEPT ![w] = "send"]
        /\ UNCHANGED <<clock, phase, created, seen, status, retried, published, current>>
    BY DEF Poll, Pending, saveVars
  <1>2. TypeOK'
    BY <1>1 DEF TypeOK
  <1>3. SentIsPublished' /\ PublishedInOrder' /\ RowsOK' /\ StampsOK'
    BY <1>1 DEF SentIsPublished, PublishedInOrder, RowsOK, StampsOK
  <1>4. \A e, f \in Event :
            e.save \in seen[f.save] => status[e] = "PENDING" \/ e \in published
    <2> SUFFICES ASSUME NEW e \in Event, NEW f \in Event, e.save \in seen[f.save]
                 PROVE  status[e] = "PENDING" \/ e \in published
      OBVIOUS
    <2>1. phase[e.save] = "committed"
      BY DEF StampsOK, Event
    <2>2. status[e] \in {"PENDING", "SENT"}
      BY <2>1 DEF RowsOK, TypeOK
    <2> QED
      BY <2>2 DEF SentIsPublished
  <1>5. WorkersOK'
    BY <1>1, <1>4 DEF WorkersOK, TypeOK
  <1> QED
    BY <1>2, <1>3, <1>5

\* An event that goes out first in the order of created_at leaves nothing behind that
\* must go out before it.
LEMMA FirstIsFirst ==
  ASSUME IInv, NEW w \in Workers, NEW f \in Event, First(w, f),
         NEW e \in Event, e.save \in seen[f.save]
  PROVE  e \in published \/ e \in retried
  <1>1. f \in fetched[w] /\ \A g \in fetched[w] : created[f.save] <= created[g.save]
    BY DEF First
  <1>2. e \in fetched[w] \cup published \cup retried
    BY <1>1 DEF IInv, WorkersOK
  <1>3. created[e.save] < created[f.save]
    BY DEF IInv, StampsOK, Event
  <1>4. created[e.save] \in Nat /\ created[f.save] \in Nat
    BY DEF IInv, TypeOK, Event
  <1>5. e \notin fetched[w]
    BY <1>1, <1>3, <1>4
  <1> QED
    BY <1>2, <1>5

\* A send keeps the invariant, whether the broker stores the event and answers, stores
\* it and does not answer, or does not store it.
LEMMA SendKeeps ==
  ASSUME IInv, NEW w \in Workers, NEW e \in Event, Send(w, e) \/ SendFails(w, e)
  PROVE  IInv'
  <1> USE DEF IInv
  <1>1. /\ published' \in {published, published \cup {e}}
        /\ pc'[w] = "mark" => e \in published'
        /\ pc' \in {[pc EXCEPT ![w] = "mark"], [pc EXCEPT ![w] = "count"]}
        /\ current' = [current EXCEPT ![w] = e]
        /\ First(w, e)
        /\ UNCHANGED <<clock, phase, created, seen, status, retried, fetched>>
    BY DEF Send, SendFails, saveVars, TypeOK
  <1>2. TypeOK'
    BY <1>1 DEF TypeOK
  <1>3. e \in fetched[w] /\ status[e] # "absent"
    BY <1>1 DEF First, WorkersOK
  <1>4. published \subseteq published' /\ published' \subseteq published \cup {e}
    BY <1>1
  <1>5. SentIsPublished'
    BY <1>1, <1>4 DEF SentIsPublished
  <1>6. PublishedInOrder'
    <2>1. \A d \in Event : d.save \in seen[e.save] => d \in published \/ d \in retried
      BY <1>1, FirstIsFirst
    <2> QED
      BY <1>1, <1>4, <2>1 DEF PublishedInOrder
  <1>7. RowsOK'
    BY <1>1, <1>3, <1>4 DEF RowsOK
  <1>8. StampsOK'
    BY <1>1 DEF StampsOK
  <1>9. WorkersOK'
    BY <1>1, <1>3, <1>4 DEF WorkersOK, TypeOK
  <1> QED
    BY <1>2, <1>5, <1>6, <1>7, <1>8, <1>9

\* Going on to the next row keeps what the workers know, when the current event is
\* published or counted as failed.
LEMMA GoOnKeeps ==
  ASSUME IInv, NEW w \in Workers, pc[w] \in {"mark", "count"}, GoOn(w),
         retried' \in {retried, retried \cup {current[w]}},
         current[w] \in published \cup retried',
         \A e \in Event : status[e] # "absent" => status'[e] # "absent",
         UNCHANGED <<seen, published>>
  PROVE  WorkersOK'
  <1> USE DEF IInv
  <1>1. /\ fetched' = [fetched EXCEPT ![w] = @ \ {current[w]}]
        /\ pc' = [pc EXCEPT ![w] =
                    IF fetched[w] = {current[w]} THEN "poll" ELSE "send"]
        /\ current' = [current EXCEPT ![w] = None]
    BY DEF GoOn
  <1>2. SUFFICES ASSUME NEW v \in Workers
                 PROVE  /\ pc'[v] = "poll" => fetched'[v] = {}
                        /\ pc'[v] \in {"mark", "count"} => current'[v] \in fetched'[v]
                        /\ pc'[v] = "mark" => current'[v] \in published
                        /\ \A f \in fetched'[v] :
                            /\ status'[f] # "absent"
                            /\ \A e \in Event :
                                e.save \in seen[f.save]
                                    => e \in fetched'[v] \cup published \cup retried'
    BY DEF WorkersOK
  <1>3. fetched[v] \subseteq Event
    BY DEF TypeOK
  <1>4. /\ pc[v] = "poll" => fetched[v] = {}
        /\ pc[v] \in {"mark", "count"} => current[v] \in fetched[v]
        /\ pc[v] = "mark" => current[v] \in published
        /\ \A f \in fetched[v] :
            /\ status[f] # "absent"
            /\ \A e \in Event :
                e.save \in seen[f.save] => e \in fetched[v] \cup published \cup retried
    BY DEF WorkersOK
  <1>5. CASE v # w
    <2>1. pc'[v] = pc[v] /\ fetched'[v] = fetched[v] /\ current'[v] = current[v]
      BY <1>1, <1>5 DEF TypeOK
    <2> QED
      BY <1>3, <1>4, <2>1
  <1>6. CASE v = w
    <2>1. /\ fetched'[v] = fetched[v] \ {current[v]}
          /\ pc'[v] = IF fetched[v] = {current[v]} THEN "poll" ELSE "send"
      BY <1>1, <1>6 DEF TypeOK
    <2>2. current[v] \in published \cup retried'
      BY <1>6
    <2> QED
      BY <1>3, <1>4, <2>1, <2>2
  <1> QED
    BY <1>5, <1>6

\* Counting a failure keeps the invariant: the event loses its place in the order.
LEMMA CountRetryKeeps ==
  ASSUME IInv, NEW w \in Workers, CountRetry(w)
  PROVE  IInv'
  <1> USE DEF IInv
  <1>1. /\ pc[w] = "count" /\ GoOn(w)
        /\ retried' = retried \cup {current[w]}
        /\ UNCHANGED <<clock, phase, created, seen, status, published>>
    BY DEF CountRetry, saveVars
  <1>2. current[w] \in fetched[w] /\ current[w] \in Event /\ status[current[w]] # "absent"
    BY <1>1 DEF WorkersOK, TypeOK
  <1>3. TypeOK'
    BY <1>1, <1>2 DEF TypeOK, GoOn
  <1>4. SentIsPublished' /\ PublishedInOrder' /\ RowsOK' /\ StampsOK'
    BY <1>1, <1>2 DEF SentIsPublished, PublishedInOrder, RowsOK, StampsOK
  <1>5. WorkersOK'
    BY <1>1, GoOnKeeps
  <1> QED
    BY <1>3, <1>4, <1>5

\* Marking an event SENT keeps the invariant: it was published.
LEMMA MarkSentKeeps ==
  ASSUME IInv, NEW w \in Workers, MarkSent(w)
  PROVE  IInv'
  <1> USE DEF IInv
  <1>1. /\ pc[w] = "mark" /\ GoOn(w)
        /\ status' = [status EXCEPT ![current[w]] = "SENT"]
        /\ UNCHANGED <<clock, phase, created, seen, retried, published>>
    BY DEF MarkSent, saveVars
  <1>2. /\ current[w] \in fetched[w] /\ current[w] \in Event
        /\ status[current[w]] # "absent" /\ current[w] \in published
    BY <1>1 DEF WorkersOK, TypeOK
  <1>3. TypeOK'
    BY <1>1, <1>2 DEF TypeOK, GoOn
  <1>4. \A e \in Event : status'[e] = IF e = current[w] THEN "SENT" ELSE status[e]
    BY <1>1 DEF TypeOK
  <1>5. SentIsPublished' /\ PublishedInOrder' /\ RowsOK' /\ StampsOK'
    BY <1>1, <1>2, <1>4 DEF SentIsPublished, PublishedInOrder, RowsOK, StampsOK
  <1>6. WorkersOK'
    BY <1>1, <1>2, <1>4, GoOnKeeps
  <1> QED
    BY <1>3, <1>5, <1>6

\* A round that is dropped keeps the invariant: the worker has nothing to send.
LEMMA DropRoundKeeps ==
  ASSUME IInv, NEW w \in Workers, DropRound(w)
  PROVE  IInv'
  <1> USE DEF IInv
  <1>1. /\ fetched' = [fetched EXCEPT ![w] = {}]
        /\ pc' = [pc EXCEPT ![w] = "poll"]
        /\ current' = [current EXCEPT ![w] = None]
        /\ UNCHANGED <<clock, phase, created, seen, status, retried, published>>
    BY DEF DropRound, saveVars
  <1>2. TypeOK'
    BY <1>1 DEF TypeOK
  <1>3. SentIsPublished' /\ PublishedInOrder' /\ RowsOK' /\ StampsOK'
    BY <1>1 DEF SentIsPublished, PublishedInOrder, RowsOK, StampsOK
  <1>4. WorkersOK'
    BY <1>1 DEF WorkersOK, TypeOK
  <1> QED
    BY <1>2, <1>3, <1>4

\* Every step keeps the invariant.
LEMMA StepKeeps == IInv /\ [Next]_vars => IInv'
  <1> SUFFICES ASSUME IInv, [Next]_vars PROVE IInv'
    OBVIOUS
  <1>1. ASSUME NEW s \in Saves, BeginSave(s) PROVE IInv'
    BY <1>1, BeginSaveKeeps
  <1>2. ASSUME NEW s \in Saves, CommitSave(s) PROVE IInv'
    BY <1>2, CommitSaveKeeps
  <1>3. ASSUME NEW s \in Saves, RollBackSave(s) PROVE IInv'
    BY <1>3, RollBackSaveKeeps
  <1>4. ASSUME NEW w \in Workers, Round(w) PROVE IInv'
    <2>1. CASE Poll(w)
      BY <2>1, PollKeeps
    <2>2. ASSUME NEW e \in Event, Send(w, e) \/ SendFails(w, e) PROVE IInv'
      BY <2>2, SendKeeps
    <2>3. CASE CountRetry(w)
      BY <2>3, CountRetryKeeps
    <2>4. CASE MarkSent(w)
      BY <2>4, MarkSentKeeps
    <2> QED
      BY <1>4, <2>1, <2>2, <2>3, <2>4 DEF Round
  <1>5. ASSUME NEW w \in Workers, DropRound(w) PROVE IInv'
    BY <1>5, DropRoundKeeps
  <1>6. CASE UNCHANGED vars
    BY <1>6 DEF vars, saveVars, workerVars, IInv, TypeOK, SentIsPublished,
                PublishedInOrder, RowsOK, StampsOK, WorkersOK
  <1> QED
    BY <1>1, <1>2, <1>3, <1>4, <1>5, <1>6 DEF Next

\* The inductive invariant holds in every behaviour, of any number of workers.
THEOREM Invariant == Spec => []IInv
  BY InitInvariant, StepKeeps, PTL DEF Spec

\* The rows and the workers keep their types: no row is ever FAILED.
THEOREM TypeCorrect == Spec => []TypeOK
  <1>1. IInv => TypeOK
    BY DEF IInv
  <1> QED
    BY <1>1, Invariant, PTL

\* No event leaves the queue before the broker has stored it.
THEOREM NothingLost == Spec => []SentIsPublished
  <1>1. IInv => SentIsPublished
    BY DEF IInv
  <1> QED
    BY <1>1, Invariant, PTL

\* No event overtakes one of a save that was committed before its own began, unless
\* the send of that one has failed.
THEOREM NothingOvertakes == Spec => []PublishedInOrder
  <1>1. IInv => PublishedInOrder
    BY DEF IInv
  <1> QED
    BY <1>1, Invariant, PTL

---------------------------------------------------------------------------
(* The relay implements the channel, its liveness apart.                   *)

\* A commit records the events of its save, and no other step changes what is
\* recorded; a send publishes its event or repeats it.
LEMMA ChannelStep == IInv /\ [Next]_vars => [Channel!Next]_(Channel!vars)
  <1> SUFFICES ASSUME IInv, [Next]_vars PROVE [Channel!Next]_(Channel!vars)
    OBVIOUS
  <1> DEFINE recorded == {e \in Event : status[e] # "absent"}
  <1>1. ASSUME UNCHANGED <<status, published>> PROVE UNCHANGED Channel!vars
    BY <1>1 DEF Channel!vars
  <1>2. ASSUME NEW s \in Saves, CommitSave(s) PROVE Channel!Record(s)
    <2>1. /\ phase[s] = "open" /\ UNCHANGED published
          /\ status' = [e \in Event |-> IF e.save = s THEN "PENDING" ELSE status[e]]
      BY <1>2 DEF CommitSave
    <2>2. \A e \in recorded : e.save # s
      BY <2>1 DEF IInv, RowsOK
    <2>3. recorded' = recorded \cup {e \in Event : e.save = s}
      BY <2>1
    <2> QED
      BY <2>1, <2>2, <2>3 DEF Channel!Record, Channel!Event, Event
  <1>3. ASSUME NEW w \in Workers, NEW e \in Event, Send(w, e) \/ SendFails(w, e)
        PROVE  UNCHANGED Channel!vars \/ Channel!Publish(e)
    <2>1. e \in recorded
      BY <1>3 DEF Send, SendFails, First, IInv, WorkersOK
    <2>2. UNCHANGED status /\ published' \in {published, published \cup {e}}
      BY <1>3 DEF Send, SendFails
    <2> QED
      BY <2>1, <2>2 DEF Channel!Publish, Channel!vars
  <1>4. ASSUME NEW w \in Workers, MarkSent(w) PROVE UNCHANGED Channel!vars
    <2>1. /\ UNCHANGED published /\ pc[w] = "mark"
          /\ status' = [status EXCEPT ![current[w]] = "SENT"]
      BY <1>4 DEF MarkSent
    <2>2. current[w] \in recorded
      BY <2>1 DEF IInv, WorkersOK, TypeOK
    <2>3. recorded' = recorded
      BY <2>1, <2>2 DEF IInv, TypeOK
    <2> QED
      BY <2>1, <2>3 DEF Channel!vars
  <1>5. ASSUME NEW s \in Saves, BeginSave(s) \/ RollBackSave(s)
        PROVE  UNCHANGED Channel!vars
    BY <1>1, <1>5 DEF BeginSave, RollBackSave
  <1>6. ASSUME NEW w \in Workers, Poll(w) \/ CountRetry(w) \/ DropRound(w)
        PROVE  UNCHANGED Channel!vars
    BY <1>1, <1>6 DEF Poll, CountRetry, DropRound
  <1>7. CASE UNCHANGED vars
    BY <1>1, <1>7 DEF vars
  <1>8. CASE Next
    <2>1. CASE \E s \in Saves : BeginSave(s) \/ CommitSave(s) \/ RollBackSave(s)
      BY <2>1, <1>2, <1>5 DEF Channel!Next
    <2>2. ASSUME NEW w \in Workers, Round(w) \/ DropRound(w)
          PROVE  [Channel!Next]_(Channel!vars)
      <3>1. CASE \E e \in Event : Send(w, e) \/ SendFails(w, e)
        BY <3>1, <1>3 DEF Channel!Next, Channel!Event, Event
      <3>2. CASE MarkSent(w)
        BY <3>2, <1>4
      <3>3. CASE Poll(w) \/ CountRetry(w) \/ DropRound(w)
        BY <3>3, <1>6
      <3> QED
        BY <2>2, <3>1, <3>2, <3>3 DEF Round
    <2> QED
      BY <1>8, <2>1, <2>2 DEF Next
  <1> QED
    BY <1>7, <1>8

\* The events of a save are recorded together, and nothing is published that was not
\* recorded.
THEOREM RelayImplementsChannel == Spec => Channel!SafeSpec
  <1>1. Init => Channel!Init
    BY DEF Init, Channel!Init
  <1> QED
    BY <1>1, Invariant, ChannelStep, PTL DEF Spec, Channel!SafeSpec

---------------------------------------------------------------------------
(* A single worker.                                                        *)

OneWorker == \A v, w \in Workers : v = w

\* What a worker has yet to send or to mark was marked by nobody.  A second worker could
\* mark it in between.
FetchedPending == \A w \in Workers : \A f \in fetched[w] : status[f] = "PENDING"

\* A row that is marked leaves the list at the same time.
LEMMA MarkedLeaves ==
  ASSUME OneWorker, IInv, FetchedPending, NEW w \in Workers, MarkSent(w)
  PROVE  FetchedPending'
  <1>1. /\ status' = [status EXCEPT ![current[w]] = "SENT"]
        /\ fetched' = [fetched EXCEPT ![w] = @ \ {current[w]}]
    BY DEF MarkSent, GoOn
  <1>2. ASSUME NEW v \in Workers, NEW f \in fetched'[v] PROVE status'[f] = "PENDING"
    <2>1. v = w
      BY DEF OneWorker
    <2>2. f \in fetched[w] /\ f # current[w] /\ f \in Event
      BY <1>1, <2>1 DEF IInv, TypeOK
    <2> QED
      BY <1>1, <2>2 DEF FetchedPending, IInv, TypeOK
  <1> QED
    BY <1>2 DEF FetchedPending

\* Every step of one worker keeps the rest of its list PENDING.
LEMMA PendingStep ==
  ASSUME OneWorker, IInv, FetchedPending, [Next]_vars
  PROVE  FetchedPending'
  <1>1. ASSUME NEW s \in Saves, CommitSave(s) PROVE FetchedPending'
    <2>1. /\ fetched' = fetched
          /\ status' = [e \in Event |-> IF e.save = s THEN "PENDING" ELSE status[e]]
      BY <1>1 DEF CommitSave, workerVars
    <2> QED
      BY <2>1 DEF FetchedPending, IInv, TypeOK
  <1>2. ASSUME NEW w \in Workers, Poll(w) PROVE FetchedPending'
    BY <1>2 DEF Poll, Pending, FetchedPending, IInv, TypeOK
  <1>3. ASSUME NEW w \in Workers, CountRetry(w) \/ DropRound(w) PROVE FetchedPending'
    BY <1>3 DEF CountRetry, GoOn, DropRound, FetchedPending, IInv, TypeOK
  <1>4. CASE UNCHANGED <<status, fetched>>
    BY <1>4 DEF FetchedPending
  <1>5. ASSUME NEW s \in Saves, BeginSave(s) \/ RollBackSave(s) PROVE FetchedPending'
    BY <1>5, <1>4 DEF BeginSave, RollBackSave, workerVars
  <1>6. ASSUME NEW w \in Workers, NEW e \in Event, Send(w, e) \/ SendFails(w, e)
        PROVE  FetchedPending'
    BY <1>6, <1>4 DEF Send, SendFails
  <1> QED
    BY <1>1, <1>2, <1>3, <1>4, <1>5, <1>6, MarkedLeaves DEF Next, Round, vars, workerVars

\* Where one process runs, an event whose row is marked is never sent again, although the
\* worker sends from a list that it read before it marked the rows before it.
THEOREM MarkedNotSentAgain == ASSUME OneWorker PROVE Spec => NotSentAgain
  <1>1. Init => FetchedPending
    BY DEF Init, FetchedPending
  <1>2. IInv /\ FetchedPending /\ [Next]_vars => FetchedPending'
    BY PendingStep
  <1>3. IInv /\ FetchedPending =>
            \A w \in Workers, e \in Event : Send(w, e) => status[e] = "PENDING"
    BY DEF FetchedPending, Send, First
  <1> QED
    BY <1>1, <1>2, <1>3, Invariant, PTL DEF Spec, NotSentAgain
============================================================================
