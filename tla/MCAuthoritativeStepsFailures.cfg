CONSTANTS
    Capacity = 2
    PartyCapacity = 2
    WindowSize = 4
    EnoughFromAll = 1
    EnoughFromSome = 2
    ForcedThreshold = 1
    FirstThreshold = 2
    StartStepId = 0
    MaxStepId = 3
    MaxForced = 1
    GapAccepted = TRUE
    OverflowPossible = TRUE
SPECIFICATION Spec
INVARIANTS
    ParticipantCountExact
    FreeListExact
    MembersBelong
    AuthoritativeWindowBounded
    StepAnnouncesItsEntries
