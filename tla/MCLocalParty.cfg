CONSTANTS
    ForcedThreshold = 2
    FirstThreshold = 3
    Patience = 3
    DefaultWait = 4
    SetupWait = 2
    MaxForced = 4
SPECIFICATION FairSpec
INVARIANTS
    TypeOK
    DoubtIsEarned
PROPERTY
    ImplementsLifecycle
    SilentPartyIsDissolved
