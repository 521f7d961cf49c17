------------------------- MODULE AuthoritativeSteps -------------------------
(***************************************************************************)
(* The game: participants, the predicted steps their clients send, and     *)
(* the authoritative steps that are woven from them.  It is the state and  *)
(* the operations of participants.c, participant.c, authoritative_steps.c, *)
(* req_step.c and incoming_predicted_steps.c, with the part of             *)
(* local_party.c and connection_quality.c that the weaving reads and       *)
(* writes.                                                                 *)
(*                                                                         *)
(* The server is one thread.  A datagram with predicted steps is handled   *)
(* by ReqGameStep, followed, while phase is not "idle", by the iterations  *)
(* of the two nested loops of nimbleServerComposeAuthoritativeSteps: no    *)
(* other operation starts before the loops have ended.                     *)
(*                                                                         *)
(* The module does not say which client sends what: a datagram for any     *)
(* party can arrive at any time, and a party is put to wait, dissolved or  *)
(* rejoined whenever the condition the code tests allows it (modules       *)
(* LocalParty and Session say when that is).                               *)
(***************************************************************************)
EXTENDS Integers, Sequences, FiniteSets

CONSTANTS
    Capacity,           \* participants->participantCapacity
    PartyCapacity,      \* localParties->capacityCount
    WindowSize,         \* NBS_WINDOW_SIZE of the nimble-steps library
    EnoughFromAll,      \* the 3 of authoritative_steps.c:157
    EnoughFromSome,     \* the 5 of authoritative_steps.c:158
    ForcedThreshold,    \* the 20 of connection_quality.c:39
    FirstThreshold,     \* the 200 of connection_quality.c:41
    StartStepId,        \* the step id the game was (re)initialised with
    MaxStepId,          \* bound: clients send steps below this id
    MaxForced,          \* bound: forced steps while steps overflow
    GapAccepted,        \* does nimble-steps store a step beyond a gap?
    OverflowPossible    \* can a combined step exceed its 1024 octets?

ASSUME CapacityAssumption == Capacity \in Nat \ {0}
ASSUME PartyCapacityAssumption == PartyCapacity \in Nat \ {0}
ASSUME WindowAssumption == WindowSize \in Nat
ASSUME EnoughAssumption == EnoughFromAll \in Nat /\ EnoughFromSome \in Nat
ASSUME ThresholdAssumption ==
    ForcedThreshold \in Nat \ {0} /\ FirstThreshold \in Nat \ {0}
ASSUME StepIdAssumption == StartStepId \in Nat /\ MaxStepId \in Nat
ASSUME MaxForcedAssumption == MaxForced \in Nat
ASSUME SwitchAssumption == GapAccepted \in BOOLEAN /\ OverflowPossible \in BOOLEAN

Ids      == 0..(Capacity - 1)
PartyIds == 0..(PartyCapacity - 1)
None     == -1                       \* a null pointer

ParticipantStates ==
    {"JustJoined", "Normal", "WaitingForRejoin", "Leaving", "Destroyed"}
PartyStates == {"Normal", "WaitingForReJoin", "Dissolved"}
StepTypes ==
    {"Normal", "StepNotProvidedInTime", "WaitingForReJoin", "Joined", "Left"}
NoEntry == "none"

VARIABLES
    \* participants.c: one entry per participant id
    used,               \* the participants with isUsed
    state,              \* participant->state
    inParty,            \* participant->inParty
    stored,             \* ids of the predicted steps in participant->steps
    writeId,            \* participant->steps.expectedWriteId
    participantCount,
    freeList,
    \* game->authoritativeSteps, contiguous from readId up to writeId
    authReadId,
    authWriteId,
    \* local_parties.c: one entry per party slot
    partyUsed,          \* the parties with isUsed
    partyState,         \* party->state
    member,             \* the participant reference, None when the count is 0
    highestReceived,    \* party->highestReceivedStepId
    forced,             \* party->quality.forcedStepInRowCounter
    accepted,           \* the parties with quality.hasAddedFirstAcceptedSteps
    \* where the thread is in nimbleServerComposeAuthoritativeSteps
    phase,
    cursor,             \* the i of composeOneAuthoritativeStep
    announced,          \* the participant count written first into the step
    woven,              \* the type of the entry written for a participant
    \* history: the participants the step stream says are in the game
    present

participantVars == <<used, state, inParty, stored, writeId,
                     participantCount, freeList>>
authVars    == <<authReadId, authWriteId>>
qualityVars == <<forced, accepted>>
partyVars   == <<partyUsed, partyState, member, highestReceived>>
composeVars == <<phase, cursor, announced, woven>>
vars == <<participantVars, authVars, qualityVars, partyVars, composeVars, present>>

\* Every variable keeps to its type; the loop of composeOneAuthoritativeStep
\* stays within the participants.
TypeOK ==
    /\ used \in SUBSET Ids
    /\ state \in [Ids -> ParticipantStates]
    /\ inParty \in [Ids -> PartyIds \cup {None}]
    /\ stored \in [Ids -> SUBSET Nat]
    /\ writeId \in [Ids -> Nat]
    /\ participantCount \in Nat
    /\ freeList \in Seq(Ids)
    /\ authReadId \in Nat /\ authWriteId \in Nat
    /\ partyUsed \in SUBSET PartyIds
    /\ partyState \in [PartyIds -> PartyStates]
    /\ member \in [PartyIds -> Ids \cup {None}]
    /\ highestReceived \in [PartyIds -> Nat]
    /\ forced \in [PartyIds -> Nat]
    /\ accepted \in SUBSET PartyIds
    /\ phase \in {"idle", "composing", "weaving"}
    /\ cursor \in 0..Capacity
    /\ announced \in Nat
    /\ woven \in [Ids -> StepTypes \cup {NoEntry}]
    /\ present \in SUBSET Ids

AuthCount == authWriteId - authReadId

Init ==
    /\ used = {}
    /\ state = [p \in Ids |-> "Destroyed"]
    /\ inParty = [p \in Ids |-> None]
    /\ stored = [p \in Ids |-> {}]
    /\ writeId = [p \in Ids |-> 0]
    /\ participantCount = 0
    /\ freeList = [i \in 1..Capacity |-> i - 1]
    /\ authReadId = StartStepId /\ authWriteId = StartStepId
    /\ partyUsed = {}
    /\ partyState = [q \in PartyIds |-> "Normal"]
    /\ member = [q \in PartyIds |-> None]
    /\ highestReceived = [q \in PartyIds |-> 0]
    /\ forced = [q \in PartyIds |-> 0]
    /\ accepted = {}
    /\ phase = "idle" /\ cursor = 0 /\ announced = 0
    /\ woven = [p \in Ids |-> NoEntry]
    /\ present = {}

-----------------------------------------------------------------------------
(* Parties and participants come and go.                                   *)

\* Mutant: a reused party place keeps the forced steps of its last party.
QualityResetKeepsForced(q) ==
    /\ forced' = forced
    /\ accepted' = accepted \ {q}

\* nimbleServerConnectionQualityReset
QualityReset(q) ==
    /\ forced' = [forced EXCEPT ![q] = 0]
    /\ accepted' = accepted \ {q}

\* isFailingToProvideStepsInTime
IsFailingToProvideStepsInTime(q) ==
    forced[q] >= IF q \in accepted THEN ForcedThreshold ELSE FirstThreshold

\* The party place findFreePartyPlaceButDoNotReserveItYet returns.
IsFreePartyPlace(q) ==
    /\ q \in PartyIds \ partyUsed
    /\ \A r \in PartyIds \ partyUsed : q <= r

\* Mutant: the first step expected is not the next one but the one after.
ParticipantsJoinOneStepLate(p, q) ==
    /\ participantCount + 1 <= Capacity
    /\ p = Head(freeList)
    /\ freeList' = Tail(freeList)
    /\ used' = used \cup {p}
    /\ state' = [state EXCEPT ![p] = "JustJoined"]
    /\ inParty' = [inParty EXCEPT ![p] = q]
    /\ stored' = [stored EXCEPT ![p] = {}]
    /\ writeId' = [writeId EXCEPT ![p] = authWriteId + 1]
    /\ participantCount' = participantCount + 1

\* nimbleServerParticipantsJoin: the id comes from the free list.
ParticipantsJoin(p, q) ==
    /\ participantCount + 1 <= Capacity
    /\ p = Head(freeList)
    /\ freeList' = Tail(freeList)
    /\ used' = used \cup {p}
    /\ state' = [state EXCEPT ![p] = "JustJoined"]
    /\ inParty' = [inParty EXCEPT ![p] = q]
    /\ stored' = [stored EXCEPT ![p] = {}]
    /\ writeId' = [writeId EXCEPT ![p] = authWriteId]
    /\ participantCount' = participantCount + 1

\* nimbleServerLocalPartiesCreate, on a join without a secret.  Without a
\* party place or a participant left it fails and changes nothing.
CreateParty ==
    /\ phase = "idle"
    /\ \E q \in PartyIds, p \in Ids :
          /\ IsFreePartyPlace(q)
          /\ ParticipantsJoin(p, q)
          /\ QualityReset(q)
          /\ partyUsed' = partyUsed \cup {q}
          /\ partyState' = [partyState EXCEPT ![q] = "Normal"]
          /\ member' = [member EXCEPT ![q] = p]
    /\ UNCHANGED <<authVars, highestReceived, composeVars, present>>

\* nimbleServerLocalPartyRejoin, on a join with the secret of party q.  The
\* states of its participants are left as they are.
RejoinParty(q) ==
    /\ phase = "idle"
    /\ member[q] # None
    /\ partyState' = [partyState EXCEPT ![q] = "Normal"]
    /\ QualityReset(q)
    /\ UNCHANGED <<participantVars, authVars, partyUsed, member,
                   highestReceived, composeVars, present>>

\* setToWaitingForReJoin, when a tick finds the quality bad once too often
\* (how often is in module LocalParty).
PartyWaits(q) ==
    /\ phase = "idle"
    /\ q \in partyUsed
    /\ partyState[q] = "Normal"
    /\ IsFailingToProvideStepsInTime(q)
    /\ partyState' = [partyState EXCEPT ![q] = "WaitingForReJoin"]
    /\ state' = [state EXCEPT ![member[q]] = "WaitingForRejoin"]
    /\ UNCHANGED <<used, inParty, stored, writeId, participantCount, freeList,
                   authVars, qualityVars, partyUsed, member, highestReceived,
                   composeVars, present>>

\* Mutants: the participant reference, or the place, is not given up.
DestroyPartyKeepsMember(q) ==
    /\ phase = "idle"
    /\ q \in partyUsed
    /\ partyState[q] = "WaitingForReJoin"
    /\ partyState' = [partyState EXCEPT ![q] = "Dissolved"]
    /\ state' = [state EXCEPT ![member[q]] = "Leaving"]
    /\ partyUsed' = partyUsed \ {q}
    /\ QualityReset(q)
    /\ UNCHANGED <<used, inParty, stored, writeId, participantCount, freeList,
                   authVars, highestReceived, composeVars, present, member>>

DestroyPartyKeepsPlace(q) ==
    /\ phase = "idle"
    /\ q \in partyUsed
    /\ partyState[q] = "WaitingForReJoin"
    /\ partyState' = [partyState EXCEPT ![q] = "Dissolved"]
    /\ state' = [state EXCEPT ![member[q]] = "Leaving"]
    /\ member' = [member EXCEPT ![q] = None]
    /\ QualityReset(q)
    /\ UNCHANGED <<used, inParty, stored, writeId, participantCount, freeList,
                   authVars, highestReceived, composeVars, present, partyUsed>>

\* destroyParty, when the wait for a rejoin has timed out.
DestroyParty(q) ==
    /\ phase = "idle"
    /\ q \in partyUsed
    /\ partyState[q] = "WaitingForReJoin"
    /\ partyState' = [partyState EXCEPT ![q] = "Dissolved"]
    /\ state' = [state EXCEPT ![member[q]] = "Leaving"]
    /\ partyUsed' = partyUsed \ {q}
    /\ member' = [member EXCEPT ![q] = None]
    /\ QualityReset(q)
    /\ UNCHANGED <<used, inParty, stored, writeId, participantCount, freeList,
                   authVars, highestReceived, composeVars, present>>

\* nimbleServerConnectionDisconnected: the party place is given up, with its
\* participant reference left in it.
ConnectionDisconnected(q) ==
    /\ phase = "idle"
    /\ q \in partyUsed
    /\ partyUsed' = partyUsed \ {q}
    /\ UNCHANGED <<participantVars, authVars, qualityVars, partyState, member,
                   highestReceived, composeVars, present>>

\* The unused ids in increasing order, as nimbleServerHostMigration writes
\* them into the free list.
IsRebuiltFreeList(list, prepared) ==
    /\ \A i, j \in DOMAIN list : i < j => list[i] < list[j]
    /\ {list[i] : i \in DOMAIN list} = Ids \ prepared

\* nimbleServerParticipantsPrepare, for each of the n parties that a host
\* migration prepares: participant ids[q] is that of party q.
ParticipantsPrepare(n, ids, prepared) ==
    /\ used' = prepared
    /\ state' = [p \in Ids |-> IF p \in prepared THEN "WaitingForRejoin" ELSE state[p]]
    /\ inParty' = [p \in Ids |-> IF p \in prepared
                                 THEN CHOOSE q \in 0..(n - 1) : ids[q] = p
                                 ELSE inParty[p]]
    /\ stored' = [p \in Ids |-> IF p \in prepared THEN {} ELSE stored[p]]
    /\ writeId' = [p \in Ids |-> IF p \in prepared THEN authWriteId - 1 ELSE writeId[p]]
    /\ participantCount' = participantCount + n

\* nimbleServerHostMigration, on a server that nobody has joined yet or that
\* everybody has left: the parties 0..(n - 1) are prepared, party q with the
\* participant ids[q], and wait for their clients.  The game goes on from a
\* step the old host made, so that expectedWriteId - 1 is a step id, and
\* the clients know the participants from the old host's steps.
HostMigration(n, ids) ==
    LET prepared == {ids[q] : q \in 0..(n - 1)}
    IN  /\ phase = "idle"
        /\ used = {}
        /\ authWriteId > 0
        /\ \A q, r \in 0..(n - 1) : ids[q] = ids[r] => q = r
        /\ ParticipantsPrepare(n, ids, prepared)
        /\ \E list \in [1..(Capacity - n) -> Ids] :
              IsRebuiltFreeList(list, prepared) /\ freeList' = list
        /\ partyUsed' = 0..(n - 1)
        /\ partyState' = [q \in PartyIds |-> IF q < n THEN "WaitingForReJoin" ELSE partyState[q]]
        /\ member' = [q \in PartyIds |-> IF q < n THEN ids[q] ELSE None]
        /\ forced' = [q \in PartyIds |-> 0]
        /\ accepted' = {}
        /\ present' = prepared
        /\ UNCHANGED <<authVars, highestReceived, composeVars>>

-----------------------------------------------------------------------------
(* Receiving predicted steps.                                              *)

\* Mutant: one step more is discarded than are too many.
DiscardedReadIdOneMore ==
    IF AuthCount > WindowSize \div 3
    THEN authWriteId - WindowSize \div 3 + 1
    ELSE authReadId

\* discardAuthoritativeStepsIfBufferGettingFull: the read id afterwards
DiscardedReadId ==
    IF AuthCount > WindowSize \div 3
    THEN authWriteId - WindowSize \div 3
    ELSE authReadId

\* What nimble-steps makes of the predicted steps first..last for
\* participant p, one call per step: steps below the expected id are
\* skipped, the expected one is stored while the window has room, and the
\* first step that cannot be stored fails the call and ends the loop.
IsGap(p, first) == first > writeId[p] /\ ~GapAccepted
FirstNew(p, first) == IF first > writeId[p] THEN first ELSE writeId[p]
LastAdded(p, first, last) ==
    LET lastStorable == FirstNew(p, first) + WindowSize - Cardinality(stored[p]) - 1
    IN  IF last <= lastStorable THEN last ELSE lastStorable
Added(p, first, last) ==
    IF IsGap(p, first) THEN {} ELSE FirstNew(p, first)..LastAdded(p, first, last)
DeserializeFails(p, first, last) ==
    /\ FirstNew(p, first) <= last
    /\ IsGap(p, first) \/ LastAdded(p, first, last) < last

\* nimbleServerLocalPartyDeserializePredictedSteps for the participant of
\* party q.
DeserializePredictedSteps(q, first, last) ==
    LET p     == member[q]
        added == Added(p, first, last)
        next  == IF added = {} THEN writeId[p] ELSE LastAdded(p, first, last) + 1
    IN  /\ stored' = [stored EXCEPT ![p] = @ \cup added]
        /\ writeId' = [writeId EXCEPT ![p] = next]
        /\ highestReceived' =
              IF /\ added # {}
                 /\ ~DeserializeFails(p, first, last)
                 /\ next - 1 > highestReceived[q]
              THEN [highestReceived EXCEPT ![q] = next - 1]
              ELSE highestReceived

\* nimbleServerReqGameStep up to the composing, for a datagram from a
\* connection whose assigned party is q with the steps first..last (none if
\* last < first).  A party that is dissolved or has no participant is an
\* error, found after the discarding.
ReqGameStep(q, first, last) ==
    /\ phase = "idle"
    /\ authReadId' = DiscardedReadId
    /\ \/ /\ partyState[q] = "Dissolved" \/ member[q] = None
          /\ UNCHANGED <<stored, writeId, highestReceived, phase>>
       \/ /\ partyState[q] # "Dissolved" /\ member[q] # None
          /\ DeserializePredictedSteps(q, first, last)
          /\ phase' = IF DeserializeFails(member[q], first, last)
                      THEN "idle" ELSE "composing"
    /\ UNCHANGED <<used, state, inParty, participantCount, freeList,
                   authWriteId, qualityVars, partyUsed, partyState, member,
                   cursor, announced, woven, present>>

-----------------------------------------------------------------------------
(* Composing authoritative steps.                                          *)

\* maxPredictedStepContributionForParticipants, for one participant
CanContribute(p) == stored[p] # {} /\ writeId[p] > authWriteId
Contribution(p) == IF CanContribute(p) THEN writeId[p] - authWriteId + 1 ELSE 0

ShouldComposeNewAuthoritativeStep ==
    \/ /\ \E p \in used : Contribution(p) > EnoughFromAll
       /\ \A p \in used : CanContribute(p)
    \/ \E p \in used : Contribution(p) > EnoughFromSome

\* Mutant: one step too many.
CanAdvanceOneTooMany == AuthCount <= WindowSize \div 2

CanAdvanceDueToDistanceFromLastState == AuthCount < WindowSize \div 2

ShouldAdvanceAuthoritative ==
    ShouldComposeNewAuthoritativeStep /\ CanAdvanceDueToDistanceFromLastState

\* Mutant: leaving participants are not announced.
ComposeBeginWithoutLeaving ==
    /\ phase = "composing"
    /\ ShouldAdvanceAuthoritative
    /\ phase' = "weaving"
    /\ announced' = Cardinality({p \in used : state[p] # "Leaving"})
    /\ UNCHANGED <<participantVars, authVars, qualityVars, partyVars,
                   cursor, woven, present>>

\* The while loop goes round: composeOneAuthoritativeStep starts with the
\* participant count.
ComposeBegin ==
    /\ phase = "composing"
    /\ ShouldAdvanceAuthoritative
    /\ phase' = "weaving"
    /\ announced' = participantCount
    /\ UNCHANGED <<participantVars, authVars, qualityVars, partyVars,
                   cursor, woven, present>>

\* The while loop ends, and with it the handling of the datagram.
ComposeEnd ==
    /\ phase = "composing"
    /\ ~ShouldAdvanceAuthoritative
    /\ phase' = "idle"
    /\ UNCHANGED <<participantVars, authVars, qualityVars, partyVars,
                   cursor, announced, woven, present>>

\* Mutant: the step looked for is dropped with the ones before it.
UsableDropsOneTooMany(p) == {s \in stored[p] : s > authWriteId}

\* nbsStepsReadExactStepId drops the steps before the one looked for.  The
\* collection is then empty, starts with the step, or starts after it.
Usable(p) == {s \in stored[p] : s >= authWriteId}
IsEmpty(p) == Usable(p) = {}
IsProvided(p) == authWriteId \in stored[p]

\* The quality of the party that a participant was created in is told
\* whether its step was there.
ReportQuality(p) ==
    /\ forced' = IF IsEmpty(p) THEN [forced EXCEPT ![inParty[p]] = @ + 1]
                 ELSE IF IsProvided(p) THEN [forced EXCEPT ![inParty[p]] = 0]
                 ELSE forced
    /\ accepted' = IF IsProvided(p) THEN accepted \cup {inParty[p]} ELSE accepted

\* Mutants: the count is kept; the id is not given back.
ParticipantsDestroyKeepsCount(p) ==
    /\ used' = used \ {p}
    /\ inParty' = [inParty EXCEPT ![p] = None]
    /\ participantCount' = participantCount
    /\ freeList' = Append(freeList, p)

ParticipantsDestroyLosesId(p) ==
    /\ used' = used \ {p}
    /\ inParty' = [inParty EXCEPT ![p] = None]
    /\ participantCount' = participantCount - 1
    /\ freeList' = freeList

\* nimbleServerParticipantsDestroy
ParticipantsDestroy(p) ==
    /\ used' = used \ {p}
    /\ inParty' = [inParty EXCEPT ![p] = None]
    /\ participantCount' = participantCount - 1
    /\ freeList' = Append(freeList, p)

EntryType(p) ==
    CASE state[p] = "WaitingForRejoin" -> "WaitingForReJoin"
      [] state[p] = "JustJoined" -> "Joined"
      [] state[p] = "Leaving" -> "Left"
      [] OTHER -> IF IsEmpty(p) THEN "StepNotProvidedInTime" ELSE "Normal"

\* One iteration of the loop of composeOneAuthoritativeStep, up to writing
\* the entry.
TakeStep(p) ==
    /\ stored' = [stored EXCEPT ![p] = Usable(p) \ {authWriteId}]
    /\ ReportQuality(p)
    /\ state' = [state EXCEPT ![p] = CASE @ = "JustJoined" -> "Normal"
                                       [] @ = "Leaving" -> "Destroyed"
                                       [] OTHER -> @]
    /\ IF state[p] = "Leaving"
       THEN ParticipantsDestroy(p)
       ELSE UNCHANGED <<used, inParty, participantCount, freeList>>
    /\ UNCHANGED <<writeId, authVars, partyVars, present>>

Weave ==
    /\ phase = "weaving"
    /\ cursor \in used
    /\ TakeStep(cursor)
    /\ woven' = [woven EXCEPT ![cursor] = EntryType(cursor)]
    /\ cursor' = cursor + 1
    /\ UNCHANGED <<phase, announced>>

\* Mutant: the loop goes one participant too far.
SkipUnusedPastTheEnd ==
    /\ phase = "weaving"
    /\ cursor <= Capacity
    /\ cursor \notin used
    /\ cursor' = cursor + 1
    /\ UNCHANGED <<participantVars, authVars, qualityVars, partyVars, phase,
                   announced, woven, present>>

SkipUnused ==
    /\ phase = "weaving"
    /\ cursor < Capacity
    /\ cursor \notin used
    /\ cursor' = cursor + 1
    /\ UNCHANGED <<participantVars, authVars, qualityVars, partyVars, phase,
                   announced, woven, present>>

\* The entry does not fit into the combined step: composing is given up, and
\* what was done to the participants so far stays done.
WeaveOverflows ==
    /\ OverflowPossible
    /\ \A q \in PartyIds : forced[q] <= MaxForced
    /\ phase = "weaving"
    /\ cursor \in used
    /\ TakeStep(cursor)
    /\ phase' = "idle"
    /\ cursor' = 0
    /\ announced' = 0
    /\ woven' = [p \in Ids |-> NoEntry]

\* Mutant: writing the step does not advance the id looked for.
WriteStepKeepsId ==
    /\ phase = "weaving"
    /\ cursor = Capacity
    /\ phase' = "composing"
    /\ cursor' = 0
    /\ announced' = 0
    /\ woven' = [p \in Ids |-> NoEntry]
    /\ UNCHANGED <<participantVars, authVars, qualityVars, partyVars, present>>

\* The combined step is written to the authoritative steps.
WriteStep ==
    /\ phase = "weaving"
    /\ cursor = Capacity
    /\ authWriteId' = authWriteId + 1
    /\ present' = {p \in Ids : \/ woven[p] = "Joined"
                               \/ p \in present /\ woven[p] # "Left"}
    /\ phase' = "composing"
    /\ cursor' = 0
    /\ announced' = 0
    /\ woven' = [p \in Ids |-> NoEntry]
    /\ UNCHANGED <<participantVars, authReadId, qualityVars, partyVars>>

-----------------------------------------------------------------------------
Party(q) ==
    \/ RejoinParty(q)
    \/ PartyWaits(q)
    \/ DestroyParty(q)
    \/ ConnectionDisconnected(q)
    \/ \E first \in 0..MaxStepId : \E last \in (first - 1)..(MaxStepId - 1) :
          ReqGameStep(q, first, last)

Compose == ComposeBegin \/ ComposeEnd \/ Weave \/ SkipUnused \/ WeaveOverflows \/ WriteStep

Migrate == \E n \in 0..PartyCapacity : \E ids \in [0..(n - 1) -> Ids] : HostMigration(n, ids)

Next == CreateParty \/ Migrate \/ (\E q \in PartyIds : Party(q)) \/ Compose

Spec == Init /\ [][Next]_vars

\* The loops run on the server's only thread until they end.
FairSpec == Spec /\ WF_vars(Compose)

-----------------------------------------------------------------------------
(* Properties.                                                             *)

\* participantCount, which decides who may join and is written into every
\* authoritative step, is the number of participants in use, also in the
\* middle of a weaving that destroys some (participants.c:66,170).
ParticipantCountExact == participantCount = Cardinality(used)

\* The free list holds every unused participant id once and no used one, so
\* that nimbleServerParticipantsJoin never takes an id that is "already
\* used, even if the index came from the free list" (participants.c:149-157)
\* and never reads an empty list.
FreeListExact ==
    /\ \A i, j \in 1..Len(freeList) : freeList[i] = freeList[j] => i = j
    /\ {freeList[i] : i \in 1..Len(freeList)} = Ids \ used

\* The participant a party refers to is in use, was created in that party
\* and is not leaving: putting a party to wait never brings back a
\* participant that was told to leave or that another party now owns
\* (local_party.c:96-99).
MembersBelong ==
    \A q \in PartyIds :
        member[q] # None =>
            /\ member[q] \in used
            /\ inParty[member[q]] = q
            /\ state[member[q]] \in {"JustJoined", "Normal", "WaitingForRejoin"}

\* A party in use refers to a participant, so its ticks act on somebody.
UsedPartiesHaveMembers == \A q \in partyUsed : member[q] # None

\* The authoritative buffer never holds more than half a window, which keeps
\* the write after a weaving from failing (authoritative_steps.c:170-171,
\* req_step.c:21-25).
AuthoritativeWindowBounded ==
    0 <= AuthCount /\ AuthCount <= WindowSize \div 2

\* However the steps are woven, forced or given up half-way, a step that was
\* written stays for the clients until a third of a window of newer ones is
\* there, and none is written beyond half a window: the game keeps what
\* StepLog promises (req_step.c:21-25, authoritative_steps.c:168-178).
Log == INSTANCE StepLog WITH
    Keep <- WindowSize \div 3, Hold <- WindowSize \div 2,
    game <- 0, first <- authReadId, next <- authWriteId
ImplementsStepLog == Log!Spec

\* A finished authoritative step has as many entries as the participant
\* count written at its start says, which is what lets a client parse it
\* (authoritative_steps.c:29,89).
StepAnnouncesItsEntries ==
    phase = "weaving" /\ cursor = Capacity =>
        announced = Cardinality({p \in Ids : woven[p] # NoEntry})

\* Read as a stream, the authoritative steps tell a consistent story of each
\* participant id: the first entry after it was away says Joined, no other
\* does, and as long as it has not Left every step has an entry for it.  A
\* participant put to wait before its Joined entry was written, a reused id
\* or a leaving participant that is skipped would break it
\* (authoritative_steps.c:68-84, local_party.c:98).
WireLifecycle ==
    phase = "weaving" =>
        /\ \A p \in Ids : woven[p] # NoEntry =>
                             (woven[p] = "Joined" <=> p \notin present)
        /\ cursor = Capacity => \A p \in present : woven[p] # NoEntry

\* When its turn comes, the step looked for is the oldest one a participant
\* still has, or it has none: "steps for participant is corrupt" is never
\* logged (authoritative_steps.c:47-58), however late or often its client
\* resends.  Holds when nimble-steps refuses a step beyond a gap.
StepsReadInOrder ==
    phase = "weaving" =>
        \A p \in used : p >= cursor => IsEmpty(p) \/ IsProvided(p)

\* A participant is given a forced step exactly when the server has not
\* accepted its predicted step for that id: no accepted step is dropped,
\* overtaken or read twice on its way through the buffer, whatever
\* resending, late joining and reuse of ids went on
\* (authoritative_steps.c:47-55).
ForcedOnlyIfNotAccepted ==
    phase = "weaving" =>
        \A p \in Ids :
            /\ woven[p] = "StepNotProvidedInTime" => writeId[p] <= authWriteId
            /\ woven[p] = "Normal" => writeId[p] > authWriteId

\* The loops of nimbleServerComposeAuthoritativeSteps end, so the server
\* gets back to its other work after every datagram
\* (authoritative_steps.c:198-217).
ComposingEnds == phase # "idle" ~> phase = "idle"

\* composeOneAuthoritativeStep asserts, after its loop, that it "did not find
\* the same amount of participants as in participantCount" otherwise
\* (authoritative_steps.c:109-110).
FoundEqualsParticipantCount ==
    phase = "weaving" /\ cursor = Capacity =>
        Cardinality({p \in Ids : woven[p] # NoEntry}) = participantCount

\* A party that has rejoined plays on: its participant is not one whose steps
\* are replaced by "waiting for rejoin" entries ("Facilitates the rejoining
\* process of a party using a new transport connection", local_party.c:71).
RejoinedParticipantsTakePart ==
    \A q \in partyUsed : partyState[q] = "Normal" => state[member[q]] # "WaitingForRejoin"
=============================================================================
