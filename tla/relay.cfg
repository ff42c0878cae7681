SPECIFICATION FairSpec
CONSTANTS
    None = None
    s1 = s1
    s2 = s2
    w1 = w1
    Saves = {s1, s2}
    Topics = {"validated", "confirmed", "became_invalid", "slot_released", "rejected"}
    Recorded <- AdmissionRecorded
    Workers = {w1}
INVARIANTS
    TypeOK
    SentIsPublished
    PublishedInOrder
PROPERTIES
    NotSentAgain
    ChannelSpec
CHECK_DEADLOCK FALSE
