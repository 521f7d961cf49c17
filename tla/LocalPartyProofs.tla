-------------------------- MODULE LocalPartyProofs --------------------------
(***************************************************************************)
(* Proofs about module LocalParty, for any thresholds and timers: the      *)
(* counters are consistent and the party keeps the promise of              *)
(* PartyLifecycle.                                                         *)
(***************************************************************************)
EXTENDS LocalParty, TLAPS

Flags ==
    /\ isUsed \in BOOLEAN /\ hasParticipant \in BOOLEAN
    /\ hasAddedFirstAcceptedSteps \in BOOLEAN /\ silent \in BOOLEAN

Counters ==
    /\ forcedStepInRowCounter \in 0..MaxForced
    /\ impedingDisconnectCounter \in 0..(Patience + 1)
    /\ waitingForReconnectTimer \in Nat
    /\ waitingForReconnectMaxTimer \in {DefaultWait, SetupWait}
    /\ ticks \in 0..(Patience + 1)
    /\ frame \in 0..1
    /\ DoubtIsEarned

Life == state \in States /\ (isUsed => state # "Dissolved")

IInv == Flags /\ Counters /\ Life

Outside ==
    \/ Create \/ Rejoin \/ Prepare \/ ReInitWithGame \/ ConnectionDisconnected
    \/ ProvidedUsableStep \/ AddedForcedSteps \/ GoesSilent

-----------------------------------------------------------------------------
\* A place just initialised satisfies the inductive invariant.
LEMMA InitIInv == Init => IInv
<1> SUFFICES ASSUME Init PROVE IInv
    OBVIOUS
<1>1. Flags
    BY Zenon DEF Init, Flags
<1>2. Counters
    BY ThresholdAssumption, PatienceAssumption, MaxForcedAssumption
    DEF Init, Counters, DoubtIsEarned
<1>3. Life
    BY Zenon DEF Init, Life, States
<1>4. QED
    BY <1>1, <1>2, <1>3 DEF IInv

\* Starting the timers over keeps the counters consistent.
LEMMA ReInitCounters ==
    ASSUME IInv, NEW s, ReInit(s), frame' = frame,
           waitingForReconnectMaxTimer' \in {SetupWait, waitingForReconnectMaxTimer}
    PROVE  Counters'
<1>1. /\ forcedStepInRowCounter' = 0 /\ impedingDisconnectCounter' = 0
      /\ waitingForReconnectTimer' = 0 /\ ticks' = 0
    BY DEF ReInit, QualityReset
<1>2. QED
    BY <1>1, PatienceAssumption, MaxForcedAssumption DEF IInv, Counters, DoubtIsEarned

\* Resetting the place from one of the states keeps the invariant.
LEMMA ResetIInv == ASSUME IInv, NEW s \in States, Reset(s), frame' \in 0..1 PROVE IInv'
<1>1. Flags'
    BY Zenon DEF IInv, Flags, Reset, QualityReset
<1>2. /\ forcedStepInRowCounter' = 0 /\ impedingDisconnectCounter' = 0
      /\ waitingForReconnectTimer' = 0
      /\ UNCHANGED <<waitingForReconnectMaxTimer, ticks>>
    BY DEF Reset, QualityReset
<1>3. Counters'
    BY <1>2, PatienceAssumption, MaxForcedAssumption DEF IInv, Counters, DoubtIsEarned
<1>4. Life'
    BY Zenon DEF Reset, Life
<1>5. QED
    BY <1>1, <1>3, <1>4 DEF IInv

\* Joins, rejoins, reported steps and resets keep the invariant.
LEMMA OutsideIInv == ASSUME IInv, Outside, frame' = frame PROVE IInv'
<1>1. CASE Create \/ Rejoin \/ Prepare
    <2>1. \E s \in {"Normal", "WaitingForReJoin"} : state' = s /\ ReInit(s)
        BY <1>1, Zenon DEF Create, Rejoin, Prepare, ReInit
    <2>2. waitingForReconnectMaxTimer' \in {SetupWait, waitingForReconnectMaxTimer}
        BY <1>1 DEF Create, Rejoin, Prepare
    <2>3. Flags'
        BY <1>1, Zenon DEF IInv, Flags, Create, Rejoin, Prepare, ReInit, QualityReset
    <2>4. Counters'
        BY <2>1, <2>2, ReInitCounters
    <2>5. Life'
        BY <2>1 DEF Life, States
    <2>6. QED
        BY <2>3, <2>4, <2>5 DEF IInv
<1>2. CASE ReInitWithGame
    <2>1. state \in States /\ frame' \in 0..1
        BY DEF IInv, Life, Counters
    <2>2. QED
        BY <1>2, <2>1, ResetIInv DEF ReInitWithGame
<1>3. CASE ConnectionDisconnected
    <2>0. Flags'
        BY <1>3, Zenon DEF IInv, Flags, ConnectionDisconnected, qualityVars
    <2>1. Life'
        <3>1. ~isUsed' /\ state' = state
            BY <1>3, Zenon DEF ConnectionDisconnected
        <3>2. QED
            BY <3>1, Zenon DEF IInv, Life
    <2>2. UNCHANGED <<state, forcedStepInRowCounter, impedingDisconnectCounter, timerVars, ticks>>
        BY <1>3 DEF ConnectionDisconnected, qualityVars
    <2>3. QED
        BY <2>0, <2>1, <2>2 DEF IInv, Counters, DoubtIsEarned, timerVars
<1>4. CASE ProvidedUsableStep \/ AddedForcedSteps \/ GoesSilent
    <2>0. UNCHANGED <<isUsed, state, hasParticipant>>
          /\ hasAddedFirstAcceptedSteps' \in {hasAddedFirstAcceptedSteps, TRUE}
          /\ silent' \in {silent, TRUE}
        BY <1>4, Zenon DEF ProvidedUsableStep, AddedForcedSteps, GoesSilent, qualityVars
    <2>1. Flags' /\ Life'
        BY <2>0, Zenon DEF IInv, Flags, Life
    <2>2. UNCHANGED <<state, impedingDisconnectCounter, timerVars, ticks>>
        BY <1>4 DEF ProvidedUsableStep, AddedForcedSteps, GoesSilent
    <2>3. \/ forcedStepInRowCounter' = 0
          \/ forcedStepInRowCounter < MaxForced
             /\ forcedStepInRowCounter' = forcedStepInRowCounter + 1
          \/ forcedStepInRowCounter' = forcedStepInRowCounter
        BY <1>4 DEF ProvidedUsableStep, AddedForcedSteps, GoesSilent, qualityVars
    <2>4. Counters'
        BY <2>2, <2>3, MaxForcedAssumption DEF IInv, Counters, DoubtIsEarned, timerVars
    <2>5. QED
        BY <2>1, <2>4 DEF IInv
<1>5. QED
    BY <1>1, <1>2, <1>3, <1>4 DEF Outside

\* What a tick makes of the counter: it goes up by one when the quality is
\* bad, and otherwise down towards zero (delayed_quality.c:29-77).
LEMMA ImpedingMoves ==
    ASSUME IInv
    PROVE  /\ Impeding \in 0..(impedingDisconnectCounter + 1)
           /\ ~IsFailingToProvideStepsInTime => Impeding <= impedingDisconnectCounter
           /\ impedingDisconnectCounter \in Nat
BY PatienceAssumption DEF IInv, Counters, Impeding

\* A tick of a party in the game keeps the invariant, and only a party older
\* than Patience ticks is put to wait.
LEMMA TickNormalIInv ==
    ASSUME IInv, TickNormal, frame' = 1 - frame
    PROVE  IInv' /\ (state' # "Normal" => ticks + 1 > Patience)
<1>1. /\ impedingDisconnectCounter' = Impeding
      /\ ticks' = IF ticks <= Patience THEN ticks + 1 ELSE ticks
      /\ UNCHANGED <<forcedStepInRowCounter, waitingForReconnectMaxTimer>>
    BY DEF TickNormal, OneTickOlder, qualityVars
<1>2. /\ ticks \in 0..(Patience + 1) /\ frame \in 0..1
      /\ impedingDisconnectCounter <= ticks /\ impedingDisconnectCounter <= Patience
    BY DEF IInv, Counters, DoubtIsEarned, TickNormal
<1>3. \/ ShouldKeep /\ state' = "Normal" /\ waitingForReconnectTimer' = waitingForReconnectTimer
      \/ ~ShouldKeep /\ state' = "WaitingForReJoin" /\ waitingForReconnectTimer' = 0
    BY Zenon DEF TickNormal
<1>4. ShouldKeep => Impeding <= Patience
    BY <1>2, ImpedingMoves, PatienceAssumption DEF ShouldKeep
<1>5. ~ShouldKeep => Impeding > Patience
    BY ImpedingMoves, PatienceAssumption DEF ShouldKeep
<1>6. /\ Impeding <= ticks' /\ ticks' \in 0..(Patience + 1) /\ frame' \in 0..1
      /\ Impeding > Patience => ticks + 1 > Patience
    BY <1>1, <1>2, ImpedingMoves, PatienceAssumption
<1>7. Impeding \in 0..(Patience + 1)
    BY <1>6, ImpedingMoves, PatienceAssumption
<1>8. /\ state' \in States /\ state' # "Dissolved"
      /\ state' = "Normal" => Impeding <= Patience
      /\ state' # "Normal" => ticks + 1 > Patience
      /\ waitingForReconnectTimer' \in Nat
    BY <1>3, <1>4, <1>5, <1>6 DEF States, IInv, Counters
<1>9. Counters'
    BY <1>1, <1>6, <1>7, <1>8 DEF IInv, Counters, DoubtIsEarned
<1>10. Flags'
    BY Zenon DEF TickNormal, IInv, Flags, qualityVars
<1>11. QED
    BY <1>8, <1>9, <1>10 DEF IInv, Life

\* A tick of a waiting party keeps the invariant, whether it goes on
\* waiting or is dissolved.
LEMMA TickWaitingIInv ==
    ASSUME IInv, TickWaitingForReconnect, frame' = 1 - frame
    PROVE  IInv'
<1>1. frame' \in 0..1
    BY DEF IInv, Counters
<1>2. CASE Reset("Dissolved")
    BY <1>1, <1>2, ResetIInv DEF States
<1>3. CASE waitingForReconnectTimer + 1 < waitingForReconnectMaxTimer
    <2>1. /\ waitingForReconnectTimer' = waitingForReconnectTimer + 1 /\ OneTickOlder
          /\ UNCHANGED <<isUsed, state, hasParticipant, qualityVars,
                         impedingDisconnectCounter, waitingForReconnectMaxTimer, silent>>
        BY <1>3, Zenon DEF TickWaitingForReconnect
    <2>2. Counters'
        BY <1>1, <2>1, PatienceAssumption
        DEF IInv, Counters, DoubtIsEarned, OneTickOlder, qualityVars
    <2>3. Flags' /\ Life'
        BY <2>1, Zenon DEF IInv, Flags, Life, qualityVars
    <2>4. QED
        BY <2>2, <2>3 DEF IInv
<1>4. QED
    BY <1>2, <1>3, Zenon DEF TickWaitingForReconnect

\* Every step keeps the inductive invariant.
LEMMA NextIInv == IInv /\ [Next]_vars => IInv'
<1> SUFFICES ASSUME IInv, [Next]_vars PROVE IInv'
    OBVIOUS
<1>1. CASE Outside /\ frame' = frame
    BY <1>1, OutsideIInv
<1>2. CASE Tick /\ frame' = 1 - frame
    BY <1>2, TickNormalIInv, TickWaitingIInv DEF Tick
<1>3. CASE UNCHANGED vars
    <2>1. Flags' /\ Life'
        BY <1>3, Zenon DEF vars, qualityVars, IInv, Flags, Life
    <2>2. Counters'
        BY <1>3 DEF vars, qualityVars, timerVars, IInv, Counters, DoubtIsEarned
    <2>3. QED
        BY <2>1, <2>2 DEF IInv
<1>4. QED
    BY <1>1, <1>2, <1>3 DEF Next, Outside

\* The inductive invariant always holds.
LEMMA AlwaysIInv == Spec => []IInv
BY InitIInv, NextIInv, PTL DEF Spec

\* All counters stay in their ranges; in particular the counter of bad ticks
\* stops at one more than Patience.
THEOREM TypeCorrect == Spec => []TypeOK
<1>1. IInv => TypeOK
    BY Zenon DEF IInv, Flags, Counters, Life, TypeOK
<1>2. QED
    BY <1>1, AlwaysIInv, PTL

\* No bad tick from before a join or rejoin counts against the party, so a
\* party is put to wait only after more than Patience ticks in the game.
THEOREM DoubtEarned == Spec => []DoubtIsEarned
<1>1. IInv => DoubtIsEarned
    BY DEF IInv, Counters
<1>2. QED
    BY <1>1, AlwaysIInv, PTL

-----------------------------------------------------------------------------
(* The party implements PartyLifecycle.                                    *)

Status == IF ~isUsed THEN "free" ELSE IF state = "Normal" THEN "playing" ELSE "waiting"
Age == IF ~isUsed THEN 0 ELSE IF state = "Normal" THEN ticks ELSE waitingForReconnectTimer

\* The expressions that PartyLifecycle's variables stand for.
LEMMA Mapping ==
    /\ ~isUsed => Status = "free" /\ Age = 0
    /\ isUsed /\ state = "Normal" => Status = "playing" /\ Age = ticks
    /\ isUsed /\ state # "Normal" => Status = "waiting" /\ Age = waitingForReconnectTimer
BY Zenon DEF Status, Age

\* The same for the next state.
LEMMA MappingNext ==
    /\ ~isUsed' => Status' = "free" /\ Age' = 0
    /\ isUsed' /\ state' = "Normal" => Status' = "playing" /\ Age' = ticks'
    /\ isUsed' /\ state' # "Normal" => Status' = "waiting" /\ Age' = waitingForReconnectTimer'
BY Zenon DEF Status, Age

\* The steps of PartyLifecycle, in terms of this module's variables.
LEMMA LifecycleSteps ==
    ASSUME waitingForReconnectMaxTimer' \in {DefaultWait, SetupWait}
    PROVE  /\ Status' = "playing" /\ Age' = 0 /\ frame' = frame => L!Next
           /\ Status' = "free" /\ Age' = 0 /\ frame' = frame => L!Next
           /\ Status' = "waiting" /\ Age' = 0 /\ frame' = frame
              /\ UNCHANGED waitingForReconnectMaxTimer => L!Next
BY Zenon DEF L!Next, L!Play, L!Leave, L!Reserve, Status, Age

\* Joins, rejoins, resets and reports are joins, reservations, leaving, or
\* nothing, to PartyLifecycle.
LEMMA OutsideRefines == ASSUME IInv, IInv', Outside, frame' = frame PROVE [L!Next]_(L!vars)
<1>0. waitingForReconnectMaxTimer' \in {DefaultWait, SetupWait}
    BY DEF IInv, Counters
<1>1. CASE Create
    <2>1. isUsed' /\ state' = "Normal" /\ ticks' = 0
        BY <1>1, Zenon DEF Create, ReInit
    <2>2. QED
        BY <1>0, <2>1, MappingNext, LifecycleSteps
<1>2. CASE Prepare
    <2>1. /\ isUsed' /\ state' = "WaitingForReJoin" /\ waitingForReconnectTimer' = 0
          /\ UNCHANGED waitingForReconnectMaxTimer
        BY <1>2, Zenon DEF Prepare, ReInit
    <2>2. QED
        BY <1>0, <2>1, MappingNext, LifecycleSteps
<1>3. CASE ~isUsed'
    BY <1>0, <1>3, MappingNext, LifecycleSteps
<1>4. CASE ReInitWithGame \/ ConnectionDisconnected
    <2>1. ~isUsed'
        BY <1>4, Zenon DEF ReInitWithGame, Reset, ConnectionDisconnected
    <2>2. QED
        BY <1>3, <2>1
<1>5. CASE Rejoin /\ isUsed'
    <2>1. state' = "Normal" /\ ticks' = 0
        BY <1>5, Zenon DEF Rejoin, ReInit
    <2>2. QED
        BY <1>0, <1>5, <2>1, MappingNext, LifecycleSteps
<1>6. CASE ProvidedUsableStep \/ AddedForcedSteps \/ GoesSilent
    <2>1. UNCHANGED <<isUsed, state, ticks, waitingForReconnectTimer,
                      waitingForReconnectMaxTimer>>
        BY <1>6, Zenon DEF ProvidedUsableStep, AddedForcedSteps, GoesSilent, timerVars
    <2>2. QED
        BY <2>1, Zenon DEF L!vars
<1>7. QED
    BY <1>1, <1>2, <1>3, <1>4, <1>5, <1>6 DEF Outside

\* A tick of the party is a tick of PartyLifecycle.
LEMMA TickRefines ==
    ASSUME IInv, IInv', Tick, frame' = 1 - frame PROVE L!Next
<1>1. CASE TickNormal
    <2>1. /\ isUsed /\ isUsed' /\ state = "Normal"
          /\ UNCHANGED waitingForReconnectMaxTimer
        BY <1>1, Zenon DEF TickNormal
    <2>2. ticks' = IF ticks <= Patience THEN ticks + 1 ELSE ticks
        BY <1>1 DEF TickNormal, OneTickOlder
    <2>3. Status = "playing" /\ Age = ticks
        BY <2>1, Mapping
    <2>4. CASE state' = "Normal"
        <3>1. Status' = "playing" /\ Age' = ticks'
            BY <2>1, <2>4, MappingNext
        <3>2. QED
            BY <2>1, <2>2, <2>3, <3>1, Zenon DEF L!Next, L!TickPlaying, Status, Age
    <2>5. CASE state' # "Normal"
        <3>1. waitingForReconnectTimer' = 0
            BY <1>1, <2>5, Zenon DEF TickNormal
        <3>2. Status' = "waiting" /\ Age' = 0
            BY <2>1, <2>5, <3>1, MappingNext
        <3>3. ticks + 1 > Patience
            BY <1>1, <2>5, TickNormalIInv
        <3>4. QED
            BY <2>1, <2>3, <3>2, <3>3, Zenon DEF L!Next, L!TickPlaying, Status, Age
    <2>6. QED
        BY <2>4, <2>5
<1>2. CASE TickWaitingForReconnect
    <2>1. isUsed /\ state = "WaitingForReJoin" /\ UNCHANGED waitingForReconnectMaxTimer
        BY <1>2, Zenon DEF TickWaitingForReconnect, Reset
    <2>2. Status = "waiting" /\ Age = waitingForReconnectTimer
        BY <2>1, Mapping
    <2>3. CASE waitingForReconnectTimer + 1 < waitingForReconnectMaxTimer
        <3>1. /\ isUsed' /\ state' = "WaitingForReJoin"
              /\ waitingForReconnectTimer' = waitingForReconnectTimer + 1
            BY <1>2, <2>1, <2>3, Zenon DEF TickWaitingForReconnect
        <3>2. Status' = "waiting" /\ Age' = waitingForReconnectTimer + 1
            BY <3>1, MappingNext
        <3>3. QED
            BY <2>1, <2>2, <2>3, <3>2, Zenon DEF L!Next, L!TickWaiting, Status, Age
    <2>4. CASE ~(waitingForReconnectTimer + 1 < waitingForReconnectMaxTimer)
        <3>1. ~isUsed'
            BY <1>2, <2>4, Zenon DEF TickWaitingForReconnect, Reset
        <3>2. Status' = "free" /\ Age' = 0
            BY <3>1, MappingNext
        <3>3. QED
            BY <2>1, <2>2, <2>4, <3>2, Zenon DEF L!Next, L!TickWaiting, Status, Age
    <2>5. QED
        BY <2>3, <2>4
<1>3. QED
    BY <1>1, <1>2 DEF Tick

\* For every choice of thresholds and timers the party implements
\* PartyLifecycle: at least Patience ticks of grace after a join or rejoin,
\* then a wait of exactly the configured length.
THEOREM PartyKeepsItsPromise == Spec => ImplementsLifecycle
<1>1. Init => L!Init
    <2> SUFFICES ASSUME Init PROVE L!Init
        OBVIOUS
    <2>1. ~isUsed /\ waitingForReconnectMaxTimer = DefaultWait /\ frame = 0
        BY Zenon DEF Init
    <2>2. QED
        BY <2>1, Zenon DEF L!Init
<1>2. IInv /\ IInv' /\ [Next]_vars => [L!Next]_(L!vars)
    <2> SUFFICES ASSUME IInv, IInv', [Next]_vars PROVE [L!Next]_(L!vars)
        OBVIOUS
    <2>1. CASE Outside /\ frame' = frame
        BY <2>1, OutsideRefines
    <2>2. CASE Tick /\ frame' = 1 - frame
        BY <2>2, TickRefines
    <2>3. CASE UNCHANGED vars
        <3>1. UNCHANGED <<isUsed, state, ticks, waitingForReconnectTimer,
                          waitingForReconnectMaxTimer, frame>>
            BY <2>3, Zenon DEF vars, timerVars
        <3>2. QED
            BY <3>1, Zenon DEF L!vars
    <2>4. QED
        BY <2>1, <2>2, <2>3 DEF Next, Outside
<1>3. QED
    BY <1>1, <1>2, AlwaysIInv, PTL DEF Spec, ImplementsLifecycle, L!Spec
=============================================================================
