SPECIFICATION FairSpec
CONSTANTS
    None = None
    p1 = p1
    p2 = p2
    Partition = {p1, p2}
    MaxLog = 2
    Malformed <- NoOffsets
    Undecodable <- SecondUndecodable
    Poison <- NoOffsets
PROPERTIES
    MalformedSkipped
