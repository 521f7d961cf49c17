----------------------------- MODULE LocalParty -----------------------------
(***************************************************************************)
(* One party place and its timers: local_party.c, connection_quality.c and *)
(* delayed_quality.c, driven by tickParties and destroyParty of server.c   *)
(* and by the joins of local_parties.c.  The weaving of authoritative      *)
(* steps reports to the place's quality whether the step of a participant  *)
(* was there (module AuthoritativeSteps); here that can happen at any      *)
(* time between two ticks.                                                 *)
(***************************************************************************)
EXTENDS Integers

CONSTANTS
    ForcedThreshold,    \* the 20 of connection_quality.c:39
    FirstThreshold,     \* the 200 of connection_quality.c:41
    Patience,           \* the 180 of delayed_quality.c:45
    DefaultWait,        \* the 62 * 20 of local_party.c:29
    SetupWait,          \* setup.maxWaitingForReconnectTicks
    MaxForced           \* bound: forced steps in a row that are counted

ASSUME ThresholdAssumption ==
    ForcedThreshold \in Nat \ {0} /\ FirstThreshold \in Nat \ {0}
ASSUME PatienceAssumption == Patience \in Nat
ASSUME WaitAssumption == DefaultWait \in Nat /\ SetupWait \in Nat
ASSUME MaxForcedAssumption ==
    MaxForced \in Nat /\ MaxForced >= ForcedThreshold /\ MaxForced >= FirstThreshold

VARIABLES
    isUsed,
    state,
    hasParticipant,             \* is participantReferenceCount not 0?
    forcedStepInRowCounter,     \* of party->quality
    hasAddedFirstAcceptedSteps, \* of party->quality
    impedingDisconnectCounter,  \* of party->delayedQuality
    waitingForReconnectTimer,
    waitingForReconnectMaxTimer,
    silent,             \* environment: the client has stopped for good
    ticks,              \* history: ticks since the last (re)join, up to Patience + 1
    frame               \* history: flips with every tick

qualityVars == <<forcedStepInRowCounter, hasAddedFirstAcceptedSteps>>
timerVars == <<waitingForReconnectTimer, waitingForReconnectMaxTimer>>
vars == <<isUsed, state, hasParticipant, qualityVars,
          impedingDisconnectCounter, timerVars, silent, ticks, frame>>

States == {"Normal", "WaitingForReJoin", "Dissolved"}

\* The counters stay in range; the one of the delayed quality ends at one
\* more than Patience, since the party is then put to wait.
TypeOK ==
    /\ isUsed \in BOOLEAN
    /\ state \in States
    /\ hasParticipant \in BOOLEAN
    /\ forcedStepInRowCounter \in 0..MaxForced
    /\ hasAddedFirstAcceptedSteps \in BOOLEAN
    /\ impedingDisconnectCounter \in 0..(Patience + 1)
    /\ waitingForReconnectTimer \in Nat
    /\ waitingForReconnectMaxTimer \in {DefaultWait, SetupWait}
    /\ silent \in BOOLEAN
    /\ ticks \in 0..(Patience + 1)
    /\ frame \in 0..1

\* nimbleServerLocalPartyInit
Init ==
    /\ isUsed = FALSE
    /\ state = "Normal"
    /\ hasParticipant = FALSE
    /\ forcedStepInRowCounter = 0 /\ hasAddedFirstAcceptedSteps = FALSE
    /\ impedingDisconnectCounter = 0
    /\ waitingForReconnectTimer = 0
    /\ waitingForReconnectMaxTimer = DefaultWait
    /\ silent = FALSE
    /\ ticks = 0 /\ frame = 0

-----------------------------------------------------------------------------
QualityReset ==
    /\ forcedStepInRowCounter' = 0
    /\ hasAddedFirstAcceptedSteps' = FALSE

\* Mutant: the counter of the last party in the place stays.
ReInitKeepsImpeding(newState) ==
    /\ state' = newState
    /\ QualityReset
    /\ impedingDisconnectCounter' = impedingDisconnectCounter
    /\ waitingForReconnectTimer' = 0
    /\ ticks' = 0

\* nimbleServerLocalPartyReInit, with the state that is set after it
ReInit(newState) ==
    /\ state' = newState
    /\ QualityReset
    /\ impedingDisconnectCounter' = 0
    /\ waitingForReconnectTimer' = 0
    /\ ticks' = 0

\* nimbleServerLocalPartyReset, with the state that the place is left in
Reset(oldState) ==
    /\ isUsed' = FALSE
    /\ hasParticipant' = FALSE
    /\ state' = oldState
    /\ QualityReset
    /\ impedingDisconnectCounter' = 0
    /\ waitingForReconnectTimer' = 0
    /\ UNCHANGED <<waitingForReconnectMaxTimer, silent, ticks>>

\* A join request creates the party: nimbleServerLocalPartiesCreate.
Create ==
    /\ ~isUsed
    /\ isUsed' = TRUE
    /\ hasParticipant' = TRUE
    /\ ReInit("Normal")
    /\ waitingForReconnectMaxTimer' = SetupWait
    /\ silent' = FALSE

\* A join request with the party's secret, from a new connection:
\* nimbleServerLocalPartyRejoin.  It does not ask whether the place is used.
\* (A request over the connection the party already has changes nothing,
\* even while the party waits.)
Rejoin ==
    /\ hasParticipant
    /\ ~silent
    /\ ReInit("Normal")
    /\ waitingForReconnectMaxTimer' = SetupWait
    /\ UNCHANGED <<isUsed, hasParticipant, silent>>

\* nimbleServerHostMigration resets all parties and prepares some of them.
Prepare ==
    /\ isUsed' = TRUE
    /\ hasParticipant' = TRUE
    /\ ReInit("WaitingForReJoin")
    /\ silent' = FALSE
    /\ UNCHANGED waitingForReconnectMaxTimer

\* nimbleServerReInitWithGame, or a host migration without this party
ReInitWithGame == Reset(state)

\* nimbleServerConnectionDisconnected
ConnectionDisconnected ==
    /\ isUsed
    /\ isUsed' = FALSE
    /\ UNCHANGED <<state, hasParticipant, qualityVars, impedingDisconnectCounter,
                   timerVars, silent, ticks>>

-----------------------------------------------------------------------------
\* nimbleServerConnectionQualityProvidedUsableStep
ProvidedUsableStep ==
    /\ ~silent
    /\ forcedStepInRowCounter' = 0
    /\ hasAddedFirstAcceptedSteps' = TRUE
    /\ UNCHANGED <<isUsed, state, hasParticipant, impedingDisconnectCounter,
                   timerVars, silent, ticks>>

\* nimbleServerConnectionQualityAddedForcedSteps
AddedForcedSteps ==
    /\ forcedStepInRowCounter < MaxForced
    /\ forcedStepInRowCounter' = forcedStepInRowCounter + 1
    /\ UNCHANGED <<isUsed, state, hasParticipant, hasAddedFirstAcceptedSteps,
                   impedingDisconnectCounter, timerVars, silent, ticks>>

\* Environment: the client stops sending and will not come back.
GoesSilent ==
    /\ isUsed /\ ~silent
    /\ silent' = TRUE
    /\ UNCHANGED <<isUsed, state, hasParticipant, qualityVars,
                   impedingDisconnectCounter, timerVars, ticks>>

-----------------------------------------------------------------------------
\* Mutant: before the first accepted step no number of forced steps is bad.
IsFailingOnlyAfterFirst ==
    /\ hasAddedFirstAcceptedSteps
    /\ forcedStepInRowCounter >= ForcedThreshold

IsFailingToProvideStepsInTime ==
    forcedStepInRowCounter >=
        IF hasAddedFirstAcceptedSteps THEN ForcedThreshold ELSE FirstThreshold

\* The counter of nimbleServerConnectionQualityDelayedTick
Impeding ==
    IF IsFailingToProvideStepsInTime THEN impedingDisconnectCounter + 1
    ELSE IF impedingDisconnectCounter > 0 THEN impedingDisconnectCounter - 1
    ELSE 0

\* Mutant: one tick too many before the party is put to wait.
ShouldKeepTooLong == IsFailingToProvideStepsInTime => Impeding <= Patience + 1

ShouldKeep == IsFailingToProvideStepsInTime => Impeding <= Patience

OneTickOlder == ticks' = IF ticks <= Patience THEN ticks + 1 ELSE ticks

TickNormal ==
    /\ isUsed /\ state = "Normal"
    /\ impedingDisconnectCounter' = Impeding
    /\ IF ShouldKeep
       THEN UNCHANGED <<state, waitingForReconnectTimer>>
       ELSE state' = "WaitingForReJoin" /\ waitingForReconnectTimer' = 0
    /\ OneTickOlder
    /\ UNCHANGED <<isUsed, hasParticipant, qualityVars, waitingForReconnectMaxTimer, silent>>

\* Mutant: the party waits one tick too long.
TickWaitingTooLong ==
    /\ isUsed /\ state = "WaitingForReJoin"
    /\ IF waitingForReconnectTimer + 1 <= waitingForReconnectMaxTimer
       THEN /\ waitingForReconnectTimer' = waitingForReconnectTimer + 1
            /\ OneTickOlder
            /\ UNCHANGED <<isUsed, state, hasParticipant, qualityVars,
                           impedingDisconnectCounter, waitingForReconnectMaxTimer, silent>>
       ELSE Reset("Dissolved")

\* tickWaitingForReconnect, and destroyParty when it gives up
TickWaitingForReconnect ==
    /\ isUsed /\ state = "WaitingForReJoin"
    /\ IF waitingForReconnectTimer + 1 < waitingForReconnectMaxTimer
       THEN /\ waitingForReconnectTimer' = waitingForReconnectTimer + 1
            /\ OneTickOlder
            /\ UNCHANGED <<isUsed, state, hasParticipant, qualityVars,
                           impedingDisconnectCounter, waitingForReconnectMaxTimer, silent>>
       ELSE Reset("Dissolved")

Tick == TickNormal \/ TickWaitingForReconnect

-----------------------------------------------------------------------------
Next ==
    \/ /\ \/ Create \/ Rejoin \/ Prepare \/ ReInitWithGame \/ ConnectionDisconnected
          \/ ProvidedUsableStep \/ AddedForcedSteps \/ GoesSilent
       /\ frame' = frame
    \/ Tick /\ frame' = 1 - frame

Spec == Init /\ [][Next]_vars

\* The application calls nimbleServerUpdate every frame, and the other
\* clients' steps keep authoritative steps being composed.
FairSpec == Spec
            /\ WF_vars(Tick /\ frame' = 1 - frame)
            /\ WF_vars(AddedForcedSteps /\ frame' = frame)

-----------------------------------------------------------------------------
(* Properties.                                                             *)

\* Doubt about the connection is never older than the party: when a place is
\* reused or rejoined, none of the bad ticks of before count, and a party
\* put to wait by bad quality has been in the game for more than Patience
\* ticks (delayed_quality.c:44-53, local_party.c:45-56).
DoubtIsEarned ==
    /\ impedingDisconnectCounter <= ticks
    /\ state = "Normal" => impedingDisconnectCounter <= Patience

\* The timers implement the promise of PartyLifecycle: a grace period after
\* every join and rejoin, then a wait of exactly the configured number of
\* ticks.
L == INSTANCE PartyLifecycle WITH
        Limits <- {DefaultWait, SetupWait},
        status <- IF ~isUsed THEN "free" ELSE IF state = "Normal" THEN "playing" ELSE "waiting",
        age    <- IF ~isUsed THEN 0 ELSE IF state = "Normal" THEN ticks
                  ELSE waitingForReconnectTimer,
        limit  <- waitingForReconnectMaxTimer
ImplementsLifecycle == L!Spec

\* A client that has stopped for good loses its place in the end, as long
\* as the others keep playing and no host migration reserves the place
\* anew (server.c:55-73).
SilentPartyIsDissolved == silent ~> ~isUsed \/ ~silent
=============================================================================
