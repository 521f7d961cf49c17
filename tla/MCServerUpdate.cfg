CONSTANTS
    TargetTime = 0
    FailedTickThreshold = 1
    AverageThreshold = 2
    BatchSize = 2
    Deltas = {0, 2}
    ConnectionCount = 1
    MaxPerUpdate = 2
    MaxEntries = 1
    SeqCount = 4
    MaxNumber = 4
    MaxCommands = 1
    MaxQueue = 2
SPECIFICATION FairSpec
INVARIANTS
    TypeOK
    NumbersFollowEachOther
PROPERTY
    ImplementsWatch
    HandledInOrder
    DatagramsAreRead
