SPECIFICATION FairSystemSpec
CONSTANTS
    None = None
    t1 = t1
    t2 = t2
    m1 = m1
    dev = dev
    k1 = k1
    consumer = consumer
    http = http
    tracksTopic = tracksTopic
    created = created
    submitted = submitted
    Teams = {t1, t2}
    Members = {m1}
    Roles = {dev}
    Tracks = {k1}
    Handlers = {consumer, http}
    Inbox <- SystemInbox
    Configs <- AutoConfirm
    StoredTracks <- NoTracks
    StoredRoles <- NoRoles
    StoredTrackRoles <- NoTrackRoles
    MaxTime = 0
    Consumer = consumer
    Partition = {tracksTopic, created, submitted}
    History <- OneSubmission
    MaxFaults = 2
INVARIANTS
    CommittedStored
PROPERTIES
    SkippedOnlyEarly
    DecisionKept
    SubmissionAnswered
    CatchesUp
