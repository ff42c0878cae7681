SPECIFICATION Spec
CONSTANTS
    None = None
    t1 = t1
    t2 = t2
    m1 = m1
    m2 = m2
    dev = dev
    ops = ops
    k1 = k1
    k2 = k2
    consumer = consumer
    http = http
    Teams = {t1, t2}
    Members = {m1, m2}
    Roles = {dev}
    Tracks = {k1}
    Handlers = {consumer}
    Inbox <- SeqInbox
    Configs <- SeqConfigs
    StoredTracks <- NoTracksYet
    StoredRoles <- SeqRoles
    StoredTrackRoles <- SeqTrackRoles
    MaxTime = 2
INVARIANTS
    TypeOK
    RowCoherent
    DecisionAnnounced
PROPERTIES
    GraceHonoured
    LifecycleSpec
