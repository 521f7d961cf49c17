CONSTANTS
    Capacity = 2
    PartyCapacity = 2
    WindowSize = 6
    EnoughFromAll = 1
    EnoughFromSome = 2
    ForcedThreshold = 1
    FirstThreshold = 2
    StartStepId = 1
    MaxStepId = 5
    MaxForced = 2
    GapAccepted = FALSE
    OverflowPossible = FALSE
SPECIFICATION FairSpec
INVARIANTS
    TypeOK
    ParticipantCountExact
    FreeListExact
    MembersBelong
    StepAnnouncesItsEntries
    UsedPartiesHaveMembers
    WireLifecycle
    StepsReadInOrder
    ForcedOnlyIfNotAccepted
PROPERTY
    ImplementsStepLog
    ComposingEnds
