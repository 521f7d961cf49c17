CONSTANTS
    Capacity = 2
    MaxEntries = 1
    ChannelCount = 2
    FirstChannel = 1
    Window = 4
    MaxRedundancy = 1
    RequestCount = 2
    Sizes = {2}
    MaxStep = 3
    MaxGame = 2
    FirstSteps = {1}
    MaxRestarts = 1
    DownSize = 3
SPECIFICATION UnendingSpec
INVARIANTS
    TypeOK
    DownloadIsOneState
    AckedChunksAreReceived
    StepsWithoutGap
    NeverAhead
PROPERTY
    ProgressIsKept
    ClientCatchesUp
