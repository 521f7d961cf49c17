CONSTANTS
    Capacity = 2
    PartyCapacity = 2
    WindowSize = 6
    EnoughFromAll = 1
    EnoughFromSome = 2
    ForcedThreshold = 1
    FirstThreshold = 2
    StartStepId = 0
    MaxStepId = 4
    MaxForced = 2
    GapAccepted = FALSE
    OverflowPossible = FALSE
SPECIFICATION Spec
INVARIANTS
    RejoinedParticipantsTakePart
