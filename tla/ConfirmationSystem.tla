------------------------- MODULE ConfirmationSystem -------------------------
(* The process: the consumer of KafkaConsumer hands the messages of        *)
(* event-service to ConfirmationService, while HTTP requests call it too.  *)
(*                                                                         *)
(* A message is one call of the handler Consumer.  How the call ends is    *)
(* how _process goes on: it returns, it raises one of OFFSET_ERRORS, it    *)
(* raises anything else.  When the process ends, every call ends with it.  *)
EXTENDS ServiceProperties, Sequences

CONSTANTS
    Consumer,       \* the handler that handles messages
    Partition,
    History,        \* what event-service publishes, in its order
    MaxFaults       \* bound: lost connections, failed commits and crashes

\* What a message may ask for: the topics of event-service.
MessageOps == {"roles", "create", "submit", "update", "add", "delete", "role"}

\* A message that does not parse has no request.
ASSUME HistoryAssumption ==
    /\ History \in Seq([partition : Partition, request : Request \cup {None}])
    /\ \A i \in DOMAIN History :
        LET r == History[i].request IN
        r # None => r \in Inbox[Consumer] /\ r.op \in MessageOps

ASSUME SystemAssumption == Consumer \in Handlers /\ MaxFaults \in Nat

\* No router calls what a message may ask for (consumer.py:78-113,
\* confirmation_router.py:26-59).
ASSUME HttpAssumption ==
    \A h \in Handlers \ {Consumer} : \A r \in Inbox[h] : r.op \notin MessageOps

VARIABLES
    logEnd, committed, position, msg, settled, missed,
    consuming,      \* pc of KafkaConsumer
    faults          \* how many faults have happened

consumerVars == <<logEnd, committed, position, consuming, msg, settled, missed>>
sysVars == <<vars, consumerVars, faults>>

MaxLog == Len(History)

\* The offset of a message in its partition.
OffsetOf ==
    [i \in DOMAIN History |->
        Cardinality({j \in 1 .. i - 1 : History[j].partition = History[i].partition})]

Malformed ==
    [p \in Partition |->
        {OffsetOf[i] : i \in {j \in DOMAIN History :
            History[j].partition = p /\ History[j].request = None}}]

\* Whether a message can be handled depends on the tables: none always raises.  Every
\* message is text: KafkaConsumer tells what one that is not does to the process.
K == INSTANCE ConsumerProperties WITH
    pc <- consuming,
    Undecodable <- [p \in Partition |-> {}],
    Poison <- [p \in Partition |-> {}]

Published(i) == OffsetOf[i] < logEnd[History[i].partition]

InHand(i) == msg = [partition |-> History[i].partition, offset |-> OffsetOf[i]]

\* The request of the message in hand.
Received == History[CHOOSE i \in DOMAIN History : InHand(i)].request

SystemInit == Init /\ K!Init /\ faults = 0

---------------------------------------------------------------------------
(* event-service, and the consumer between two calls.                      *)

Publish(i) ==
    /\ \A j \in 1 .. i - 1 : Published(j)
    /\ OffsetOf[i] = logEnd[History[i].partition]
    /\ K!Produce(History[i].partition)
    /\ UNCHANGED <<vars, faults>>

Fault == faults < MaxFaults /\ faults' = faults + 1

Start == K!Start /\ UNCHANGED <<vars, faults>>

Receive(p) == K!Receive(p) /\ UNCHANGED <<vars, faults>>

SkipMalformed == K!SkipMalformed /\ UNCHANGED <<vars, faults>>

Commit == K!Commit /\ UNCHANGED <<vars, faults>>

CommitFails == K!CommitFails /\ Fault /\ UNCHANGED vars

SkipCommitFails == K!SkipCommitFails /\ Fault /\ ProcessEnds

Crash == UNCHANGED settled /\ K!Crash /\ Fault /\ ProcessEnds

---------------------------------------------------------------------------
(* One message is one call.                                                *)

BeginMessage ==
    /\ K!CanDispatch
    /\ Begin(Consumer)
    /\ request'[Consumer] = Received
    /\ UNCHANGED <<consumerVars, faults>>

Proceed ==
    /\ \/ SubmitOrUpdate(Consumer) \/ LoadRow(Consumer) \/ ChangeRoster(Consumer)
       \/ LoadTrack(Consumer) \/ LoadRoles(Consumer) \/ ValidateApplication(Consumer)
    /\ UNCHANGED <<consumerVars, faults>>

\* update_track_roles begins and ends in one step.
RolesStored ==
    /\ K!CanDispatch
    /\ pc[Consumer] = "idle"
    /\ Received.op = "roles"
    /\ StoreTrackRoles(Received)

Effect == RolesStored \/ Save(Consumer)

Return ==
    /\ Effect \/ SubmitConfirmed(Consumer) \/ GiveUp(Consumer)
    /\ K!Dispatch
    /\ UNCHANGED faults

\* Mutant: a refused save is an offset error too.
NotFoundOrRefused ==
    ApplicationNotFound(Consumer) \/ TrackNotFound(Consumer) \/ SaveFails(Consumer)

\* OFFSET_ERRORS.
NotFound == ApplicationNotFound(Consumer) \/ TrackNotFound(Consumer)

Skip ==
    /\ NotFound
    /\ K!SkipNotFound
    /\ UNCHANGED faults

\* The database refuses the save.
Refused ==
    /\ SaveFails(Consumer)
    /\ UNCHANGED <<settled, faults>>
    /\ K!DispatchFails

\* The connection is lost, before a transaction is committed or after it.
ConnectionLost ==
    /\ Fault
    /\ \/ Effect /\ K!Settle
       \/ Abort(Consumer) /\ UNCHANGED settled
       \/ pc[Consumer] = "idle" /\ UNCHANGED <<vars, settled>>
    /\ K!DispatchFails

Handle == BeginMessage \/ Proceed \/ Return \/ Skip \/ Refused

---------------------------------------------------------------------------
(* The HTTP requests.  The clock stands: nothing that a process calls      *)
(* compares it with a deadline.                                            *)

Http(h) ==
    /\ h # Consumer
    /\ consuming # "stopped"
    /\ \/ Call(h) /\ UNCHANGED faults
       \/ Abort(h) /\ Fault
    /\ UNCHANGED consumerVars

SetRule(k) ==
    /\ consuming # "stopped"
    /\ CreateRule(k)
    /\ UNCHANGED <<consumerVars, faults>>

SystemNext ==
    \/ \E i \in DOMAIN History : Publish(i)
    \/ \E p \in Partition : Receive(p)
    \/ Start \/ Handle \/ SkipMalformed \/ Commit
    \/ ConnectionLost \/ CommitFails \/ SkipCommitFails \/ Crash
    \/ \E h \in Handlers : Http(h)
    \/ \E k \in Tracks : SetRule(k)

SystemSpec == SystemInit /\ [][SystemNext]_sysVars

\* The process is started and the event loop resumes it; the fetcher takes turns among
\* the partitions.  Faults come to an end; refusals need not.
FairSystemSpec ==
    /\ SystemSpec
    /\ WF_sysVars(Start)
    /\ WF_sysVars(Handle \/ SkipMalformed \/ Commit)
    /\ \A p \in Partition : SF_sysVars(Receive(p))
============================================================================
