-------------------------- MODULE SystemProperties --------------------------
(* What is claimed of the consumer and the service together.               *)
EXTENDS ConfirmationSystem

Committed(i) ==
    LET c == committed[History[i].partition] IN c # None /\ OffsetOf[i] < c

Missed(i) == OffsetOf[i] \in missed[History[i].partition]

Settled(i) == OffsetOf[i] \in settled[History[i].partition]

Asks(i, op) == History[i].request # None /\ History[i].request.op = op

\* A creation and an announcement of a track have put their row into the tables.
EffectStored(i) ==
    /\ Asks(i, "create") => apps[History[i].request.team] # None
    /\ Asks(i, "roles") => tracks[History[i].request.track] # None

\* The messages that create a team or ask something of it.
AboutTeam(i) == History[i].request # None /\ History[i].request.op # "roles"

\* The effect of a creation, and of an announcement of a track, is in the tables before its
\* offset is committed, although the call may be refused, fail, lose its answer or end with
\* the process, and although a commit for one message carries the positions of all
\* partitions; what a first start passed over is the exception (consumer.py:172-192).
CommittedStored ==
    \A i \in DOMAIN History : Committed(i) /\ ~Missed(i) => EffectStored(i)

\* A message about a team is skipped only while no creation of the team has taken effect,
\* or no announcement of the payload's track: a team that is known loses no message to a
\* save that is refused for now (consumer.py:30, 176-183).
SkippedOnlyEarly ==
    [][\A i \in DOMAIN History :
            /\ InHand(i) /\ AboutTeam(i)
            /\ consuming = "process" /\ consuming' = "skip"
        => LET r == History[i].request IN
           \/ \A j \in DOMAIN History :
                Asks(j, "create") /\ History[j].request.team = r.team => ~Settled(j)
           \/ /\ r.op \in {"submit", "update"}
              /\ \A j \in DOMAIN History :
                Asks(j, "roles") /\ History[j].request.track = r.track => ~Settled(j)]_sysVars

Undone(t) == HasStatus(t, "none")' /\ apps[t] # None /\ ~HasStatus(t, "none")

\* The decision about a team is undone only by its creation, and only while this is the
\* last message of its partition that was handled: once the next one is committed, no
\* failure makes it come back (confirmation.py:70-77, consumer.py:192).
DecisionKept ==
    [][\A t \in Teams : Undone(t) =>
        \E i \in DOMAIN History :
            /\ Asks(i, "create") /\ History[i].request.team = t
            /\ InHand(i)
            /\ \A j \in DOMAIN History :
                History[j].partition = History[i].partition /\ OffsetOf[j] > OffsetOf[i]
                    => ~Settled(j)]_sysVars

\* A first start passed over an announcement of a track, and with it over its roles.
AnnouncementMissed == \E j \in DOMAIN History : Asks(j, "roles") /\ Missed(j)

\* A team whose submission is in the topic when team and track are known is answered in the
\* end: an event about it is recorded, whatever fails in between.  A first start may pass
\* over the submission, or over the role of its owner (confirmation.py:79-85).
SubmissionAnswered ==
    \A i \in DOMAIN History : Asks(i, "submit") =>
        LET r == History[i].request IN
        (/\ Published(i) /\ ~Settled(i)
         /\ apps[r.team] # None /\ tracks[r.track] # None)
            ~> (outbox[r.team] # {} \/ Missed(i) \/ AnnouncementMissed)

\* The consumer catches up with event-service again and again: a creation that is refused
\* because its track is not known holds up its partition and not the one that announces
\* the track.  It does so forever if the first start passed over the announcement
\* (application.py:51-56).
CatchesUp ==
    []<>(AnnouncementMissed
            \/ \A i \in DOMAIN History : Published(i) => Settled(i) \/ Missed(i))

---------------------------------------------------------------------------
(* Why CommittedStored holds, besides the invariants of the two parts.     *)

\* Every offset below the end of a log is that of a published message.
LogOK ==
    \A p \in Partition : \A o \in 0 .. logEnd[p] - 1 :
        \E i \in DOMAIN History : History[i].partition = p /\ OffsetOf[i] = o

HandOK == consuming = "process" => \E i \in DOMAIN History : InHand(i)

\* The consumer's handler is in a call exactly for the message in hand.
MessageOK ==
    pc[Consumer] # "idle" =>
        /\ K!CanDispatch
        /\ \A i \in DOMAIN History : InHand(i) => request[Consumer] = History[i].request
        /\ request[Consumer].op \in MessageOps \ {"roles"}
        /\ request[Consumer].op = "create" => app[Consumer].id = request[Consumer].team

SettledStored == \A i \in DOMAIN History : Settled(i) => EffectStored(i)

SystemInv == LogOK /\ HandOK /\ MessageOK /\ SettledStored
============================================================================
