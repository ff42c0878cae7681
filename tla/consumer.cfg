SPECIFICATION FairSpec
CONSTANTS
    None = None
    p1 = p1
    p2 = p2
    Partition = {p1, p2}
    MaxLog = 3
    Malformed <- SecondMalformed
    Undecodable <- ThirdUndecodable
    Poison <- SecondPoison
INVARIANTS
    TypeOK
    CommittedSettled
    SettledInOrder
    OneRepeated
PROPERTIES
    EverySettled
