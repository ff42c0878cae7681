SPECIFICATION HistorySpec
CONSTANTS
    None = None
    t1 = t1
    t2 = t2
    m1 = m1
    m2 = m2
    dev = dev
    ops = ops
    k1 = k1
    k2 = k2
    consumer = consumer
    http = http
    Teams = {t1, t2}
    Members = {m1}
    Roles = {dev, ops}
    Tracks = {k1, k2}
    Handlers = {consumer, http}
    Inbox <- HistInbox
    Configs <- HistConfigs
    StoredTracks <- HistTracks
    StoredRoles <- HistRoles
    StoredTrackRoles <- HistTrackRoles
    MaxTime = 1
INVARIANTS
    RowCoherent
    DecisionAnnounced
PROPERTIES
    GraceNotExtended
    AcceptedRosterStored
    AdmissionWithinCapacity
