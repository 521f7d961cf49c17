--------------------- MODULE AuthoritativeStreamProofs ----------------------
(***************************************************************************)
(* Proofs about what goes into the stream of authoritative steps and what  *)
(* comes out of it: the clients are told a consistent story of who joined  *)
(* and who left, and every predicted step that was accepted is used.       *)
(***************************************************************************)
EXTENDS AuthoritativeStepsProofs

-----------------------------------------------------------------------------
(* The layer Stream relates what the written steps told the clients to the *)
(* participants' states.                                                   *)

\* A participant not reached yet is in the stream of steps if it is used and
\* has been announced as joined.  One already handled has an entry that fits
\* what the stream said of it before and what it is now.  Outside the loops
\* a participant that has just joined is in a party without forced steps,
\* which keeps that party from being put to wait too early.
Stream ==
    /\ \A p \in Ids : p >= cursor => (p \in present <=> p \in used /\ state[p] # "JustJoined")
    /\ \A p \in Ids : p < cursor =>
          /\ p \in used => state[p] # "JustJoined"
          /\ p \in used <=> woven[p] \notin {NoEntry, "Left"}
          /\ woven[p] = NoEntry => p \notin present
          /\ woven[p] # NoEntry => (woven[p] = "Joined" <=> p \notin present)
    /\ phase # "weaving" =>
          \A p \in used : state[p] = "JustJoined" => forced[inParty[p]] = 0

\* Every step keeps the stream of steps consistent, as long as no combined
\* step is given up half-way.
LEMMA NextStream ==
    ~OverflowPossible /\ Allocation /\ Ownership /\ Weaving /\ Stream /\ [Next]_vars => Stream'
<1> SUFFICES ASSUME ~OverflowPossible, Allocation, Ownership, Weaving, Stream, [Next]_vars
             PROVE  Stream'
    BY Zenon
<1>0. /\ TypeOK /\ \A p \in Ids : p \in Nat /\ p < Capacity
      /\ None \notin Ids /\ None \notin PartyIds
    BY CapacityAssumption, PartyCapacityAssumption DEF Allocation, Ids, PartyIds, None
<1> USE <1>0
<1>i. phase = "idle" => cursor = 0
    BY Zenon DEF Weaving
<1>1. CASE CreateParty
    <2>1. PICK q \in PartyIds, p \in Ids : ParticipantsJoin(p, q) /\ QualityReset(q)
        BY <1>1, Zenon DEF CreateParty
    <2>2. phase = "idle" /\ UNCHANGED <<composeVars, present>>
        BY <1>1, Zenon DEF CreateParty
    <2>3. p \notin used
        BY <2>1, JoinAllocates, Zenon
    <2>4. /\ used' = used \cup {p} /\ state' = [state EXCEPT ![p] = "JustJoined"]
          /\ inParty' = [inParty EXCEPT ![p] = q] /\ forced' = [forced EXCEPT ![q] = 0]
        BY <2>1, Zenon DEF ParticipantsJoin, QualityReset
    <2>5. \A r \in used' : state'[r] = "JustJoined" => forced'[inParty'[r]] = 0
        <3>1. \A r \in used : r \in Ids /\ (state[r] = "JustJoined" => forced[inParty[r]] = 0)
            BY <2>2, Zenon DEF Stream, TypeOK
        <3>2. \A r \in Ids : r # p => state'[r] = state[r] /\ inParty'[r] = inParty[r]
            BY <2>4, Zenon DEF TypeOK
        <3>3. inParty'[p] = q /\ forced'[q] = 0
            BY <2>4, Zenon DEF TypeOK
        <3>4. \A r \in Ids : forced[inParty[r]] = 0 /\ r \in used => forced'[inParty[r]] = 0
            BY <2>4, Zenon DEF TypeOK, Allocation
        <3>5. QED
            BY <2>4, <3>1, <3>2, <3>3, <3>4
    <2>6. \A r \in Ids : ~(r < cursor')
        BY <1>i, <2>2 DEF composeVars
    <2>7. \A r \in Ids : r \in present <=> r \in used /\ state[r] # "JustJoined"
        BY <1>i, <2>2 DEF Stream
    <2>8. state'[p] = "JustJoined" /\ \A r \in Ids : r # p => state'[r] = state[r]
        BY <2>4, Zenon DEF TypeOK
    <2>9. \A r \in Ids : r \in present' <=> r \in used' /\ state'[r] # "JustJoined"
        BY <2>2, <2>3, <2>4, <2>7, <2>8, Zenon
    <2>10. QED
        BY <2>5, <2>6, <2>9, Zenon DEF Stream
<1>2. ASSUME NEW q \in PartyIds, RejoinParty(q) PROVE Stream'
    <2>1. /\ phase = "idle" /\ UNCHANGED <<used, state, inParty, composeVars, present>>
          /\ forced' = [forced EXCEPT ![q] = 0]
        BY <1>2, Zenon DEF RejoinParty, QualityReset, participantVars
    <2>2. \A r \in used' : state'[r] = "JustJoined" => forced'[inParty'[r]] = 0
        BY <2>1 DEF Stream, TypeOK
    <2>3. QED
        BY <1>i, <2>1, <2>2, Zenon DEF Stream, composeVars
<1>3. ASSUME NEW q \in PartyIds, PartyWaits(q) PROVE Stream'
    <2>1. /\ phase = "idle" /\ q \in partyUsed /\ forced[q] > 0
          /\ UNCHANGED <<used, inParty, forced, composeVars, present>>
          /\ state' = [state EXCEPT ![member[q]] = "WaitingForRejoin"]
        <3>1. /\ phase = "idle" /\ q \in partyUsed /\ IsFailingToProvideStepsInTime(q)
              /\ UNCHANGED <<used, inParty, forced, composeVars, present>>
              /\ state' = [state EXCEPT ![member[q]] = "WaitingForRejoin"]
            BY <1>3, Zenon DEF PartyWaits, qualityVars
        <3>2. forced[q] >= ForcedThreshold \/ forced[q] >= FirstThreshold
            BY <3>1, Zenon DEF IsFailingToProvideStepsInTime
        <3>3. forced[q] \in Nat
            BY Zenon DEF TypeOK
        <3>4. forced[q] > 0
            BY <3>2, <3>3, ThresholdAssumption
        <3>5. QED
            BY <3>1, <3>4, Zenon
    <2>2. member[q] \in used /\ inParty[member[q]] = q
        BY <2>1, Zenon DEF Ownership, MembersBelong, UsedPartiesHaveMembers
    <2>3. state[member[q]] # "JustJoined"
        <3>1. state[member[q]] = "JustJoined" => forced[inParty[member[q]]] = 0
            BY <2>1, <2>2, Zenon DEF Stream
        <3>2. QED
            BY <2>1, <2>2, <3>1
    <2>4. \A r \in Ids : ~(r < cursor')
        BY <1>i, <2>1 DEF composeVars
    <2>5. \A r \in Ids : r \in present <=> r \in used /\ state[r] # "JustJoined"
        BY <1>i, <2>1 DEF Stream
    <2>6. \A r \in Ids : state'[r] = "JustJoined" <=> state[r] = "JustJoined"
        BY <2>1, <2>3, Zenon DEF TypeOK
    <2>7. \A r \in Ids : r \in present' <=> r \in used' /\ state'[r] # "JustJoined"
        BY <2>1, <2>5, <2>6, Zenon
    <2>8. \A r \in used' : state'[r] = "JustJoined" => forced'[inParty'[r]] = 0
        <3>1. \A r \in used : r \in Ids /\ (state[r] = "JustJoined" => forced[inParty[r]] = 0)
            BY <2>1, Zenon DEF Stream, TypeOK
        <3>2. QED
            BY <2>1, <2>6, <3>1, Zenon
    <2>9. QED
        BY <2>4, <2>7, <2>8, Zenon DEF Stream
<1>4. ASSUME NEW q \in PartyIds, DestroyParty(q) PROVE Stream'
    <2>1. /\ phase = "idle" /\ q \in partyUsed /\ partyState[q] = "WaitingForReJoin"
          /\ UNCHANGED <<used, inParty, composeVars, present>>
          /\ state' = [state EXCEPT ![member[q]] = "Leaving"]
          /\ forced' = [forced EXCEPT ![q] = 0]
        BY <1>4, Zenon DEF DestroyParty, QualityReset
    <2>2. member[q] \in used /\ state[member[q]] = "WaitingForRejoin"
        BY <2>1, Zenon DEF Ownership, MembersBelong, UsedPartiesHaveMembers
    <2>3. \A r \in used' : state'[r] = "JustJoined" => forced'[inParty'[r]] = 0
        BY <2>1, <2>2 DEF Stream, TypeOK
    <2>4. QED
        BY <1>i, <2>1, <2>2, <2>3, Zenon DEF Stream, TypeOK, composeVars
<1>5. ASSUME NEW q \in PartyIds,
             \/ ConnectionDisconnected(q)
             \/ \E first \in 0..MaxStepId : \E last \in (first - 1)..(MaxStepId - 1) :
                    ReqGameStep(q, first, last)
      PROVE  Stream'
    <2>1. phase = "idle" /\ UNCHANGED <<used, state, inParty, forced, cursor, woven, present>>
        BY <1>5, Zenon
           DEF ConnectionDisconnected, ReqGameStep, participantVars, qualityVars, composeVars
    <2>2. QED
        BY <2>1, Zenon DEF Stream
<1>6. CASE ComposeBegin \/ ComposeEnd \/ UNCHANGED vars
    <2>1. UNCHANGED <<used, state, inParty, forced, cursor, woven, present>>
          /\ (phase' # "weaving" => phase # "weaving")
        BY <1>6, Zenon DEF ComposeBegin, ComposeEnd, vars, participantVars, qualityVars, composeVars
    <2>2. QED
        BY <2>1, Zenon DEF Stream
<1>7. CASE Weave
    <2>1. /\ cursor \in used /\ TakeStep(cursor) /\ cursor' = cursor + 1
          /\ woven' = [woven EXCEPT ![cursor] = EntryType(cursor)]
          /\ phase = "weaving" /\ phase' = "weaving" /\ present' = present
        BY <1>7, Zenon DEF Weave, TakeStep
    <2>2. /\ state[cursor] = "Leaving" => used' = used \ {cursor}
          /\ state[cursor] # "Leaving" => used' = used
          /\ \A p \in Ids : p # cursor => state'[p] = state[p]
          /\ state'[cursor] # "JustJoined"
        BY <2>1, Zenon DEF TakeStep, ParticipantsDestroy, TypeOK
    <2>3. /\ EntryType(cursor) = "Joined" <=> state[cursor] = "JustJoined"
          /\ EntryType(cursor) = "Left" <=> state[cursor] = "Leaving"
          /\ EntryType(cursor) # NoEntry
        BY Zenon DEF EntryType, NoEntry
    <2>4. /\ woven'[cursor] = EntryType(cursor) /\ cursor \in Ids
          /\ \A p \in Ids : p # cursor => woven'[p] = woven[p]
        BY <2>1, Zenon DEF TypeOK
    <2>5. cursor \in present <=> state[cursor] # "JustJoined"
        <3>1. \A p \in Ids : p >= cursor => (p \in present <=> p \in used /\ state[p] # "JustJoined")
            BY Zenon DEF Stream
        <3>2. cursor \in Ids /\ cursor >= cursor
            BY <2>4
        <3>3. cursor \in present <=> cursor \in used /\ state[cursor] # "JustJoined"
            BY <3>1, <3>2, Zenon
        <3>4. QED
            BY <2>1, <3>3, Zenon
    <2>6. \A p \in Ids : p < cursor' => p = cursor \/ p < cursor
        BY <2>1, <2>4
    <2>7. \A p \in Ids : p >= cursor' => p # cursor /\ p >= cursor
        BY <2>1, <2>4
    <2>8. QED
        BY <2>1, <2>2, <2>3, <2>4, <2>5, <2>6, <2>7 DEF Stream
<1>8. CASE SkipUnused
    <2>1. /\ cursor \notin used /\ cursor' = cursor + 1 /\ phase = "weaving" /\ cursor \in Ids
          /\ UNCHANGED <<used, state, phase, woven, present>>
        <3>1. /\ cursor \notin used /\ cursor' = cursor + 1 /\ phase = "weaving" /\ cursor < Capacity
              /\ UNCHANGED <<used, state, phase, woven, present>>
            BY <1>8, Zenon DEF SkipUnused, participantVars
        <3>2. cursor \in Ids
            BY <3>1, CapacityAssumption DEF TypeOK, Ids
        <3>3. QED
            BY <3>1, <3>2, Zenon
    <2>2. woven[cursor] = NoEntry /\ cursor \notin present
        <3>1. cursor >= cursor
            BY <2>1
        <3>2. woven[cursor] = NoEntry
            BY <2>1, <3>1, Zenon DEF Weaving
        <3>3. cursor \notin present
            BY <2>1, <3>1, Zenon DEF Stream
        <3>4. QED
            BY <3>2, <3>3, Zenon
    <2>3. \A p \in Ids : p < cursor' => p = cursor \/ p < cursor
        BY <2>1
    <2>4. \A p \in Ids : p >= cursor' => p # cursor /\ p >= cursor
        BY <2>1
    <2>5. QED
        BY <2>1, <2>2, <2>3, <2>4, Zenon DEF Stream
<1>9. CASE WriteStep
    <2>1. /\ cursor = Capacity /\ cursor' = 0 /\ UNCHANGED <<used, state, inParty, forced>>
          /\ present' = {p \in Ids : woven[p] = "Joined" \/ (p \in present /\ woven[p] # "Left")}
        BY <1>9, Zenon DEF WriteStep, participantVars, qualityVars
    <2>2. \A p \in Ids : p < cursor
        BY <2>1, Zenon
    <2>3. \A p \in Ids : p \in used => state[p] # "JustJoined"
        BY <2>2, Zenon DEF Stream
    <2>4. \A p \in Ids : p \in present' <=> p \in used
        BY <2>1, <2>2, Zenon DEF Stream, NoEntry
    <2>5. QED
        <3>1. \A p \in Ids : ~(p < cursor')
            BY <2>1
        <3>2. \A p \in Ids : p \in present' <=> p \in used' /\ state'[p] # "JustJoined"
            BY <2>1, <2>3, <2>4, Zenon
        <3>3. \A p \in used' : state'[p] # "JustJoined"
            BY <2>1, <2>3, Zenon DEF TypeOK
        <3>4. QED
            BY <3>1, <3>2, <3>3, Zenon DEF Stream
<1>10. ~WeaveOverflows
    BY Zenon DEF WeaveOverflows
<1>11. CASE Migrate
    <2>1. /\ phase = "idle" /\ present' = used' /\ UNCHANGED composeVars
          /\ state' = [p \in Ids |-> IF p \in used' THEN "WaitingForRejoin" ELSE state[p]]
        BY <1>11 DEF Migrate, HostMigration, ParticipantsPrepare
    <2>2. \A p \in Ids : ~(p < cursor')
        BY <1>i, <2>1 DEF composeVars
    <2>3. used' \in SUBSET Ids
        BY <1>11, MigrationPrepares, Zenon DEF Migrate
    <2>4. QED
        BY <2>1, <2>2, <2>3, Zenon DEF Stream
<1>12. QED
    BY <1>1, <1>2, <1>3, <1>4, <1>5, <1>6, <1>7, <1>8, <1>9, <1>10, <1>11, Zenon
   DEF Next, Party, Compose

-----------------------------------------------------------------------------
\* The layer Stream on top of the inductive invariant.
StreamIInv == IInv /\ Stream

\* A game just initialised satisfies the strengthened invariant.
LEMMA InitStream == Init => StreamIInv
<1> SUFFICES ASSUME Init PROVE StreamIInv
    BY Zenon
<1>1. IInv
    BY InitIInv, Zenon
<1>2. Stream
    BY Zenon DEF Init, Stream, Ids
<1>3. QED
    BY <1>1, <1>2, Zenon DEF StreamIInv

\* The strengthened invariant always holds.
LEMMA AlwaysStream == ASSUME ~OverflowPossible PROVE Spec => []StreamIInv
<1>1. StreamIInv /\ [Next]_vars => StreamIInv'
    BY NextIInv, NextStream, Zenon DEF StreamIInv, IInv
<1>2. QED
    BY <1>1, InitStream, PTL DEF Spec

\* As long as combined steps fit their buffer, the stream of authoritative
\* steps reports every participant as joined once, then in every step, until
\* it says that it left.
THEOREM StreamIsConsistent == ASSUME ~OverflowPossible PROVE Spec => []WireLifecycle
<1>1. StreamIInv => WireLifecycle
    <2> SUFFICES ASSUME StreamIInv, phase = "weaving"
                 PROVE  /\ \A p \in Ids : woven[p] # NoEntry =>
                                              (woven[p] = "Joined" <=> p \notin present)
                        /\ cursor = Capacity => \A p \in present : woven[p] # NoEntry
        BY Zenon DEF WireLifecycle
    <2>1. Stream /\ Weaving /\ TypeOK
        BY Zenon DEF StreamIInv, IInv, Allocation
    <2>2. \A p \in Ids : p \in Nat /\ p < Capacity
        BY CapacityAssumption DEF Ids
    <2>3. \A p \in Ids : p < cursor \/ p >= cursor
        BY <2>1, <2>2 DEF TypeOK
    <2>4. ASSUME NEW p \in Ids, woven[p] # NoEntry
          PROVE  woven[p] = "Joined" <=> p \notin present
        BY <2>1, <2>3, <2>4, Zenon DEF Stream, Weaving
    <2>5. ASSUME cursor = Capacity, NEW p \in present PROVE woven[p] # NoEntry
        BY <2>1, <2>2, <2>5, Zenon DEF Stream, TypeOK
    <2>6. QED
        BY <2>4, <2>5, Zenon
<1>2. QED
    BY <1>1, AlwaysStream, PTL

-----------------------------------------------------------------------------
(* The layer Buffers says which predicted steps a participant's buffer     *)
(* holds.                                                                  *)

\* The id of the next authoritative step that participant p is asked for.
NextFor(p) == IF p < cursor THEN authWriteId + 1 ELSE authWriteId

\* Every predicted step that was accepted and is not used yet is stored, and
\* the entries written so far say whether there was one.
Buffers ==
    /\ \A p \in used : \A s \in stored[p] : s < writeId[p]
    /\ \A p \in used : \A s \in Nat : NextFor(p) <= s /\ s < writeId[p] => s \in stored[p]
    /\ \A p \in Ids : woven[p] = "StepNotProvidedInTime" => writeId[p] <= authWriteId
    /\ \A p \in Ids : woven[p] = "Normal" => writeId[p] > authWriteId

\* Reading incoming steps keeps a participant's steps without holes, however
\* the range in the datagram overlaps what was received before and wherever
\* the window is full.
LEMMA DeserializeBuffers ==
    ASSUME ~GapAccepted, Allocation, Buffers, NEW q \in PartyIds, member[q] \in used,
           NEW first \in Nat, NEW last \in Int,
           DeserializePredictedSteps(q, first, last)
    PROVE  /\ \A p \in used : \A s \in stored'[p] : s < writeId'[p]
           /\ \A p \in used : \A s \in Nat :
                 NextFor(p) <= s /\ s < writeId'[p] => s \in stored'[p]
           /\ \A p \in Ids : p # member[q] => writeId'[p] = writeId[p]
<1> DEFINE p == member[q]
           added == Added(p, first, last)
           top == LastAdded(p, first, last)
<1>1. /\ p \in Ids /\ stored \in [Ids -> SUBSET Nat] /\ writeId \in [Ids -> Nat]
      /\ IsFiniteSet(stored[p]) /\ used \in SUBSET Ids
    BY Zenon DEF Allocation, TypeOK
<1>2. Cardinality(stored[p]) \in Nat
    BY <1>1, FS_CardinalityType, Zenon
<1>3. top \in Int
    BY <1>1, <1>2, WindowAssumption DEF LastAdded, FirstNew
<1>4. added = {} \/ (added = writeId[p]..top /\ writeId[p] <= top)
    <2>1. added = {} \/ (first <= writeId[p] /\ added = FirstNew(p, first)..top)
        BY <1>1 DEF Added, IsGap
    <2>2. first <= writeId[p] => FirstNew(p, first) = writeId[p]
        BY <1>1 DEF FirstNew
    <2> HIDE DEF added, top
    <2>3. QED
        BY <1>1, <1>3, <2>1, <2>2
<1>5. /\ stored' = [stored EXCEPT ![p] = @ \cup added]
      /\ writeId' = [writeId EXCEPT ![p] = IF added = {} THEN writeId[p] ELSE top + 1]
    BY Zenon DEF DeserializePredictedSteps
<1> HIDE DEF p, added, top
<1>6. /\ \A r \in Ids : r # p => stored'[r] = stored[r] /\ writeId'[r] = writeId[r]
      /\ stored'[p] = stored[p] \cup added
      /\ writeId'[p] = IF added = {} THEN writeId[p] ELSE top + 1
    BY <1>1, <1>5, Zenon
<1>7. p \in used
    BY Zenon DEF p
<1>8. \A s \in stored'[p] : s < writeId'[p]
    <2>1. \A s \in stored[p] : s \in Nat /\ s < writeId[p]
        BY <1>1, <1>7, Zenon DEF Buffers
    <2>2. CASE added = {}
        BY <1>6, <2>1, <2>2, Zenon
    <2>3. CASE added = writeId[p]..top /\ writeId[p] <= top
        <3>1. added # {} /\ writeId[p] \in Nat
            BY <1>1, <1>3, <2>3
        <3>2. writeId'[p] = top + 1
            BY <1>6, <3>1, Zenon
        <3>3. ASSUME NEW s \in added PROVE s < top + 1
            BY <1>3, <2>3, <3>1, <3>3
        <3>4. ASSUME NEW s \in stored[p] PROVE s < top + 1
            BY <1>3, <2>1, <2>3, <3>1, <3>4
        <3>5. QED
            BY <1>6, <3>2, <3>3, <3>4, Zenon
    <2>4. QED
        BY <1>4, <2>2, <2>3, Zenon
<1>9. ASSUME NEW s \in Nat, NextFor(p) <= s, s < writeId'[p] PROVE s \in stored'[p]
    <2>1. CASE s < writeId[p]
        BY <1>6, <1>7, <1>9, <2>1, Zenon DEF Buffers
    <2>2. CASE ~(s < writeId[p])
        <3>1. writeId[p] \in Nat
            BY <1>1, Zenon
        <3>2. added # {}
            BY <1>6, <1>9, <2>2, Zenon
        <3>3. added = writeId[p]..top /\ s < top + 1
            BY <1>4, <1>6, <1>9, <3>2, Zenon
        <3>4. s \in added
            BY <1>3, <2>2, <3>1, <3>3
        <3>5. QED
            BY <1>6, <3>4, Zenon
    <2>3. QED  BY <2>1, <2>2, Zenon
<1>10. QED
    BY <1>1, <1>6, <1>8, <1>9, Zenon DEF Buffers, p

\* Every step keeps the buffers without holes, as long as nimble-steps
\* refuses a step beyond a gap and no combined step is given up half-way.
LEMMA NextBuffers ==
    ~GapAccepted /\ ~OverflowPossible /\ Allocation /\ Ownership /\ Weaving /\ Buffers
        /\ [Next]_vars => Buffers'
<1> SUFFICES ASSUME ~GapAccepted, ~OverflowPossible, Allocation, Ownership, Weaving, Buffers,
                    [Next]_vars
             PROVE  Buffers'
    BY Zenon
<1>0. /\ TypeOK /\ \A p \in Ids : p \in Nat /\ p < Capacity
      /\ authWriteId \in Nat /\ cursor \in Nat
    <2>1. TypeOK
        BY Zenon DEF Allocation
    <2>2. \A p \in Ids : p \in Nat /\ p < Capacity
        BY CapacityAssumption DEF Ids
    <2>3. authWriteId \in Nat /\ cursor \in Nat
        BY <2>1, CapacityAssumption DEF TypeOK
    <2>4. QED
        BY <2>1, <2>2, <2>3, Zenon
<1> USE <1>0
<1>i. phase = "idle" => cursor = 0 /\ \A p \in Ids : woven[p] = NoEntry
    BY DEF Weaving
<1>1. CASE CreateParty
    <2>1. PICK q \in PartyIds, p \in Ids : ParticipantsJoin(p, q)
        BY <1>1, Zenon DEF CreateParty
    <2>2. phase = "idle" /\ UNCHANGED <<authWriteId, cursor, woven>>
        BY <1>1, Zenon DEF CreateParty, authVars, composeVars
    <2>3. /\ used' = used \cup {p} /\ stored' = [stored EXCEPT ![p] = {}]
          /\ writeId' = [writeId EXCEPT ![p] = authWriteId]
        BY <2>1, Zenon DEF ParticipantsJoin
    <2>4. \A r \in Ids : r # p => stored'[r] = stored[r] /\ writeId'[r] = writeId[r]
                                  /\ NextFor(r)' = NextFor(r)
        BY <2>2, <2>3, Zenon DEF TypeOK, NextFor
    <2>5. stored'[p] = {} /\ writeId'[p] = authWriteId
        BY <2>3, Zenon DEF TypeOK
    <2>6. \A s \in Nat : ~(NextFor(p)' <= s /\ s < writeId'[p])
        <3>1. p \in Nat /\ cursor' = 0 /\ authWriteId' = authWriteId
            BY <1>i, <2>2, Zenon
        <3>2. NextFor(p)' = authWriteId
            BY <3>1 DEF NextFor
        <3>3. \A s \in Nat : ~(authWriteId <= s /\ s < authWriteId)
            OBVIOUS
        <3>4. QED
            BY <2>5, <3>2, <3>3, Zenon
    <2>7. \A r \in Ids : woven'[r] = NoEntry
        BY <1>i, <2>2, Zenon
    <2>8. \A r \in used' : r = p \/ (r # p /\ r \in used /\ r \in Ids)
        BY <2>3, Zenon DEF TypeOK
    <2>9. \A r \in used' : \A s \in stored'[r] : s < writeId'[r]
        BY <2>4, <2>5, <2>8, Zenon DEF Buffers
    <2>10. ASSUME NEW r \in used', NEW s \in Nat, NextFor(r)' <= s, s < writeId'[r]
           PROVE  s \in stored'[r]
        BY <2>4, <2>6, <2>8, <2>10, Zenon DEF Buffers
    <2>11. QED
        BY <2>7, <2>9, <2>10, Zenon DEF Buffers, NoEntry
<1>2. ASSUME NEW q \in PartyIds, NEW first \in 0..MaxStepId,
             NEW last \in (first - 1)..(MaxStepId - 1), ReqGameStep(q, first, last)
      PROVE  Buffers'
    <2>1. phase = "idle" /\ UNCHANGED <<used, authWriteId, cursor, woven>>
        BY <1>2, Zenon DEF ReqGameStep
    <2>2. \A r \in Ids : woven'[r] = NoEntry
        BY <1>i, <2>1, Zenon
    <2>3. \A r \in Ids : NextFor(r)' = NextFor(r)
        BY <2>1, Zenon DEF NextFor
    <2>4. CASE UNCHANGED <<stored, writeId>>
        BY <2>1, <2>2, <2>3, <2>4 DEF Buffers, TypeOK
    <2>5. CASE member[q] # None /\ DeserializePredictedSteps(q, first, last)
        <3>1. first \in Nat /\ last \in Int
            BY StepIdAssumption
        <3>2. member[q] \in used
            BY <2>5, Zenon DEF Ownership, MembersBelong
        <3>3. /\ \A p \in used : \A s \in stored'[p] : s < writeId'[p]
              /\ \A p \in used : \A s \in Nat :
                    NextFor(p) <= s /\ s < writeId'[p] => s \in stored'[p]
            BY <2>5, <3>1, <3>2, DeserializeBuffers, Zenon
        <3>4. QED
            BY <2>1, <2>2, <2>3, <3>3 DEF Buffers, NoEntry, TypeOK
    <2>6. QED
        BY <1>2, <2>4, <2>5, Zenon DEF ReqGameStep
<1>3. CASE UNCHANGED <<used, stored, writeId, authWriteId, cursor, woven>>
    BY <1>3, Zenon DEF Buffers, NextFor
<1>4. ASSUME NEW q \in PartyIds,
             RejoinParty(q) \/ ConnectionDisconnected(q) \/ PartyWaits(q) \/ DestroyParty(q)
      PROVE  Buffers'
    <2>1. UNCHANGED <<used, stored, writeId, authWriteId, cursor, woven>>
        BY <1>4, Zenon DEF RejoinParty, ConnectionDisconnected, PartyWaits, DestroyParty,
                    participantVars, authVars, composeVars
    <2>2. QED
        BY <1>3, <2>1, Zenon
<1>5. CASE ComposeBegin \/ ComposeEnd \/ UNCHANGED vars
    <2>1. UNCHANGED <<used, stored, writeId, authWriteId, cursor, woven>>
        BY <1>5, Zenon DEF ComposeBegin, ComposeEnd, vars, participantVars, authVars, composeVars
    <2>2. QED
        BY <1>3, <2>1, Zenon
<1>6. CASE Weave
    <2>1. /\ cursor \in used /\ cursor \in Ids /\ TakeStep(cursor) /\ cursor' = cursor + 1
          /\ woven' = [woven EXCEPT ![cursor] = EntryType(cursor)]
        BY <1>6, Zenon DEF Weave, TypeOK
    <2>2. /\ stored' = [stored EXCEPT ![cursor] = Usable(cursor) \ {authWriteId}]
          /\ UNCHANGED <<writeId, authWriteId>> /\ used' \subseteq used
        BY <2>1, Zenon DEF TakeStep, ParticipantsDestroy, authVars
    <2>3. stored'[cursor] = {s \in stored[cursor] : s > authWriteId}
        BY <2>1, <2>2 DEF TypeOK, Usable
    <2>4. \A r \in Ids : r # cursor => stored'[r] = stored[r] /\ woven'[r] = woven[r]
                                       /\ NextFor(r)' = NextFor(r)
        <3>1. \A r \in Ids : r # cursor => stored'[r] = stored[r] /\ woven'[r] = woven[r]
            BY <2>1, <2>2, Zenon DEF TypeOK
        <3>2. \A r \in Ids : r # cursor => (r < cursor' <=> r < cursor)
            BY <2>1
        <3>3. QED
            BY <2>2, <3>1, <3>2, Zenon DEF NextFor
    <2>5. NextFor(cursor) = authWriteId
        BY DEF NextFor
    <2>6. ASSUME NEW r \in used', NEW s \in stored'[r] PROVE s < writeId'[r]
        BY <2>2, <2>3, <2>4, Zenon DEF Buffers, TypeOK
    <2>7. ASSUME NEW r \in used', NEW s \in Nat, NextFor(r)' <= s, s < writeId'[r]
          PROVE  s \in stored'[r]
        <3>1. r \in used /\ r \in Ids
            BY <2>2, Zenon DEF TypeOK
        <3>2. CASE r # cursor
            BY <2>2, <2>4, <2>7, <3>1, <3>2, Zenon DEF Buffers
        <3>3. CASE r = cursor
            <4>1. s >= authWriteId + 1
                BY <2>1, <2>2, <2>7, <3>3 DEF NextFor
            <4>2. s \in stored[r]
                BY <2>2, <2>5, <2>7, <3>1, <3>3, <4>1 DEF Buffers
            <4>3. QED
                BY <2>3, <3>3, <4>1, <4>2
        <3>4. QED  BY <3>2, <3>3, Zenon
    <2>8. /\ EntryType(cursor) = "StepNotProvidedInTime" => IsEmpty(cursor)
          /\ EntryType(cursor) = "Normal" => ~IsEmpty(cursor)
        BY Zenon DEF EntryType
    <2>9. IsEmpty(cursor) => writeId[cursor] <= authWriteId
        <3>1. authWriteId < writeId[cursor] => authWriteId \in Usable(cursor)
            <4>1. \A s \in Nat : NextFor(cursor) <= s /\ s < writeId[cursor] => s \in stored[cursor]
                BY <2>1, Zenon DEF Buffers
            <4>2. NextFor(cursor) <= authWriteId
                BY <2>5
            <4>3. authWriteId < writeId[cursor] => authWriteId \in stored[cursor]
                BY <4>1, <4>2, Zenon
            <4>4. QED
                BY <4>3 DEF Usable
        <3>2. QED
            BY <2>1, <3>1 DEF IsEmpty, TypeOK
    <2>10. ~IsEmpty(cursor) => writeId[cursor] > authWriteId
        BY <2>1 DEF Buffers, IsEmpty, Usable, TypeOK
    <2>11. woven'[cursor] = EntryType(cursor)
        BY <2>1, Zenon DEF TypeOK
    <2>12. ASSUME NEW r \in Ids
           PROVE  /\ woven'[r] = "StepNotProvidedInTime" => writeId'[r] <= authWriteId'
                  /\ woven'[r] = "Normal" => writeId'[r] > authWriteId'
        BY <2>2, <2>4, <2>8, <2>9, <2>10, <2>11, Zenon DEF Buffers
    <2>13. QED
        BY <2>6, <2>7, <2>12, Zenon DEF Buffers
<1>7. CASE SkipUnused
    <2>1. /\ cursor \notin used /\ cursor' = cursor + 1
          /\ UNCHANGED <<used, stored, writeId, authWriteId, woven>>
        BY <1>7, Zenon DEF SkipUnused, participantVars, authVars
    <2>2. \A r \in used : NextFor(r)' = NextFor(r)
        BY <2>1 DEF NextFor, TypeOK
    <2>3. QED
        BY <2>1, <2>2, Zenon DEF Buffers
<1>8. CASE WriteStep
    <2>1. /\ cursor = Capacity /\ cursor' = 0 /\ authWriteId' = authWriteId + 1
          /\ UNCHANGED <<used, stored, writeId>> /\ woven' = [r \in Ids |-> NoEntry]
        BY <1>8, Zenon DEF WriteStep, participantVars
    <2>2. \A r \in used : NextFor(r)' = NextFor(r)
        BY <2>1, CapacityAssumption DEF NextFor, TypeOK
    <2>3. \A r \in Ids : woven'[r] = NoEntry
        BY <2>1, Zenon
    <2>4. QED
        BY <2>1, <2>2, <2>3, Zenon DEF Buffers, NoEntry
<1>9. ~WeaveOverflows
    BY Zenon DEF WeaveOverflows
<1>10. CASE Migrate
    <2>1. /\ phase = "idle" /\ UNCHANGED <<authWriteId, cursor, woven>>
          /\ stored' = [p \in Ids |-> IF p \in used' THEN {} ELSE stored[p]]
          /\ writeId' = [p \in Ids |-> IF p \in used' THEN authWriteId - 1 ELSE writeId[p]]
        BY <1>10 DEF Migrate, HostMigration, ParticipantsPrepare, authVars, composeVars
    <2>2. used' \in SUBSET Ids
        BY <1>10, MigrationPrepares, Zenon DEF Migrate
    <2>3. \A p \in used' : stored'[p] = {} /\ writeId'[p] = authWriteId - 1 /\ p \in Nat
        BY <2>1, <2>2, Zenon
    <2>4. \A p \in used' : NextFor(p)' = authWriteId
        BY <1>i, <2>1, <2>3 DEF NextFor
    <2>5. \A s \in Nat : ~(authWriteId <= s /\ s < authWriteId - 1)
        OBVIOUS
    <2>6. \A p \in used' : \A s \in Nat : NextFor(p)' <= s /\ s < writeId'[p] => s \in stored'[p]
        BY <2>3, <2>4, <2>5, Zenon
    <2>7. \A p \in Ids : woven'[p] = NoEntry
        BY <1>i, <2>1, Zenon
    <2>8. QED
        BY <2>3, <2>6, <2>7, Zenon DEF Buffers, NoEntry
<1>11. QED
    BY <1>1, <1>2, <1>4, <1>5, <1>6, <1>7, <1>8, <1>9, <1>10, Zenon DEF Next, Party, Compose

-----------------------------------------------------------------------------
\* The layer Buffers on top of the inductive invariant.
BuffersIInv == IInv /\ Buffers

\* A game just initialised satisfies the strengthened invariant.
LEMMA InitBuffers == Init => BuffersIInv
<1> SUFFICES ASSUME Init PROVE BuffersIInv
    OBVIOUS
<1>1. IInv
    BY InitIInv
<1>2. Buffers
    BY Zenon DEF Init, Buffers, NoEntry
<1>3. QED
    BY <1>1, <1>2 DEF BuffersIInv

\* The strengthened invariant always holds.
LEMMA AlwaysBuffers == ASSUME ~OverflowPossible, ~GapAccepted PROVE Spec => []BuffersIInv
<1>1. BuffersIInv /\ [Next]_vars => BuffersIInv'
    BY NextIInv, NextBuffers, Zenon DEF BuffersIInv, IInv
<1>2. QED
    BY <1>1, InitBuffers, PTL DEF Spec

\* As long as combined steps fit and nimble-steps refuses a step beyond a
\* gap, a participant's buffer is empty or starts with the step looked for.
THEOREM BuffersStartInOrder ==
    ASSUME ~OverflowPossible, ~GapAccepted
    PROVE  Spec => []StepsReadInOrder
<1>1. BuffersIInv => StepsReadInOrder
    <2> SUFFICES ASSUME BuffersIInv, NEW p \in used, p >= cursor
                 PROVE  IsEmpty(p) \/ IsProvided(p)
        BY Zenon DEF StepsReadInOrder
    <2>1. Buffers /\ TypeOK
        BY Zenon DEF BuffersIInv, IInv, Allocation
    <2>2. p \in Ids /\ p \in Nat /\ cursor \in Nat
        <3>1. p \in Ids /\ cursor \in 0..Capacity
            BY <2>1, Zenon DEF TypeOK
        <3>2. QED
            BY <3>1, CapacityAssumption DEF Ids
    <2>3. NextFor(p) = authWriteId
        BY <2>2 DEF NextFor
    <2>4. ASSUME NEW s \in Usable(p) PROVE authWriteId \in stored[p]
        <3>1. s \in stored[p] /\ s \in Nat /\ s >= authWriteId /\ authWriteId \in Nat
            BY <2>1, <2>2, Zenon DEF Usable, TypeOK
        <3>2. s < writeId[p] /\ writeId[p] \in Nat
            <4>1. s < writeId[p]
                BY <2>1, <3>1, Zenon DEF Buffers
            <4>2. writeId[p] \in Nat
                BY <2>1, <2>2, Zenon DEF TypeOK
            <4>3. QED
                BY <4>1, <4>2, Zenon
        <3>3. QED
            BY <2>1, <2>3, <3>1, <3>2 DEF Buffers
    <2>5. QED
        BY <2>4, Zenon DEF IsEmpty, IsProvided
<1>2. QED
    BY <1>1, AlwaysBuffers, PTL

\* Under the same conditions a forced step is used exactly when the
\* participant's own was not accepted in time.
THEOREM AcceptedStepsAreUsed ==
    ASSUME ~OverflowPossible, ~GapAccepted
    PROVE  Spec => []ForcedOnlyIfNotAccepted
<1>1. BuffersIInv => ForcedOnlyIfNotAccepted
    BY Zenon DEF BuffersIInv, IInv, Buffers, ForcedOnlyIfNotAccepted
<1>2. QED
    BY <1>1, AlwaysBuffers, PTL
=============================================================================
