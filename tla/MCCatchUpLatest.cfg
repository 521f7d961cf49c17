CONSTANTS
    Capacity = 2
    MaxEntries = 1
    ChannelCount = 3
    FirstChannel = 1
    Window = 4
    MaxRedundancy = 1
    RequestCount = 3
    Sizes = {2}
    MaxStep = 2
    MaxGame = 2
    FirstSteps = {0}
    MaxRestarts = 1
    DownSize = 3
SPECIFICATION Spec
PROPERTY
    DownloadIsLatest
