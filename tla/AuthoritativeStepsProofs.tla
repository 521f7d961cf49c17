---------------------- MODULE AuthoritativeStepsProofs ----------------------
(***************************************************************************)
(* Proofs about module AuthoritativeSteps, for any number of participants  *)
(* and parties, any window and any thresholds.                             *)
(*                                                                         *)
(* The inductive invariant is built up in layers, each proved from the     *)
(* ones below: Allocation (types, counts and the free list), Ownership     *)
(* (who belongs to which party), Window and Weaving (what the half-written *)
(* step holds).  AuthoritativeStreamProofs adds two more.                  *)
(***************************************************************************)
EXTENDS AuthoritativeSteps, FiniteSetTheorems, TLAPS

Allocation ==
    /\ TypeOK
    /\ ParticipantCountExact
    /\ FreeListExact
    /\ \A p \in used : inParty[p] # None
    /\ \A p \in Ids : IsFiniteSet(stored[p])

-----------------------------------------------------------------------------
\* The participant ids are a finite set with Capacity members.
LEMMA IdsFinite ==
    IsFiniteSet(Ids) /\ Cardinality(Ids) = Capacity
BY CapacityAssumption, FS_Interval DEF Ids

\* When the participant count leaves room for another one, the free list
\* holds an id that is not in use (participants.c:137-149).
LEMMA FreeIdExists ==
    ASSUME Allocation, participantCount + 1 <= Capacity
    PROVE  freeList # <<>> /\ Head(freeList) \in Ids \ used
<1>1. used # Ids
    BY IdsFinite, CapacityAssumption DEF Allocation, ParticipantCountExact, TypeOK
<1>2. PICK p \in Ids : p \notin used
    BY <1>1, Zenon DEF Allocation, TypeOK
<1>3. PICK i \in 1..Len(freeList) : freeList[i] = p
    BY <1>2, Zenon DEF Allocation, FreeListExact
<1>4. freeList \in Seq(Ids) /\ Len(freeList) \in Nat /\ Len(freeList) > 0
    BY <1>3 DEF Allocation, TypeOK
<1>5. 1 \in 1..Len(freeList) /\ Head(freeList) = freeList[1]
    BY <1>4
<1>6. QED
    BY <1>4, <1>5 DEF Allocation, FreeListExact

\* A game just initialised has every id free.
LEMMA InitAllocation == Init => Allocation
<1> SUFFICES ASSUME Init PROVE Allocation
    BY Zenon
<1>1. freeList = [i \in 1..Capacity |-> i - 1] /\ used = {} /\ Len(freeList) = Capacity
    BY CapacityAssumption DEF Init
<1>2. TypeOK
    BY <1>1, CapacityAssumption, PartyCapacityAssumption, StepIdAssumption
    DEF Init, TypeOK, Ids, PartyIds, ParticipantStates, PartyStates, StepTypes
<1>3. ParticipantCountExact
    BY FS_EmptySet, Zenon DEF Init, ParticipantCountExact
<1>4. FreeListExact
    <2>1. ASSUME NEW p \in Ids PROVE \E i \in 1..Len(freeList) : freeList[i] = p
        <3>1. p + 1 \in 1..Len(freeList) /\ freeList[p + 1] = p
            BY <1>1, CapacityAssumption DEF Ids
        <3>2. QED  BY <3>1, Zenon
    <2>2. \A i \in 1..Len(freeList) : freeList[i] \in Ids /\ freeList[i] = i - 1
        BY <1>1, CapacityAssumption DEF Ids
    <2>3. QED
        BY <1>1, <2>1, <2>2, CapacityAssumption DEF FreeListExact
<1>5. QED
    BY <1>1, <1>2, <1>3, <1>4, FS_EmptySet, Zenon DEF Init, Allocation

\* Joining takes an unused id from the free list and counts it
\* (participants.c:133-178).
LEMMA JoinAllocates ==
    ASSUME Allocation, NEW p \in Ids, NEW q \in PartyIds, ParticipantsJoin(p, q)
    PROVE  /\ used' \in SUBSET Ids /\ p \notin used
           /\ participantCount' \in Nat /\ freeList' \in Seq(Ids)
           /\ ParticipantCountExact' /\ FreeListExact'
<1>1. p = Head(freeList) /\ freeList # <<>> /\ p \in Ids \ used
    BY FreeIdExists, Zenon DEF ParticipantsJoin
<1>2. freeList \in Seq(Ids) /\ Len(freeList) \in Nat \ {0}
    BY <1>1 DEF Allocation, TypeOK
<1>3. /\ freeList' \in Seq(Ids) /\ Len(freeList') = Len(freeList) - 1
      /\ \A i \in 1..Len(freeList') : freeList'[i] = freeList[i + 1]
      /\ freeList[1] = p
    BY <1>1, <1>2 DEF ParticipantsJoin
<1>4. used' = used \cup {p} /\ used \in SUBSET Ids
      /\ participantCount' = participantCount + 1 /\ participantCount \in Nat
    BY Zenon DEF ParticipantsJoin, Allocation, TypeOK
<1>5. ParticipantCountExact'
    <2>1. IsFiniteSet(used)
        BY <1>4, IdsFinite, FS_Subset, Zenon
    <2>2. Cardinality(used') = Cardinality(used) + 1
        BY <1>1, <1>4, <2>1, FS_AddElement, Zenon
    <2>3. QED
        BY <1>4, <2>2, Zenon DEF ParticipantCountExact, Allocation
<1>6. FreeListExact'
    <2> DEFINE n == Len(freeList)
    <2>1. \A i, j \in 1..n : freeList[i] = freeList[j] => i = j
        BY Zenon DEF Allocation, FreeListExact
    <2>2. {freeList[i] : i \in 1..n} = Ids \ used
        BY Zenon DEF Allocation, FreeListExact
    <2>3. \A i \in 1..Len(freeList') : i + 1 \in 1..n /\ freeList'[i] = freeList[i + 1]
        BY <1>2, <1>3
    <2>4. \A i, j \in 1..Len(freeList') : freeList'[i] = freeList'[j] => i = j
        BY <1>2, <1>3, <2>1, <2>3
    <2>5. ASSUME NEW i \in 1..Len(freeList') PROVE freeList'[i] \in Ids \ used'
        BY <1>2, <1>3, <1>4, <2>1, <2>2, <2>3
    <2>6. ASSUME NEW r \in Ids \ used' PROVE \E i \in 1..Len(freeList') : freeList'[i] = r
        <3>1. PICK k \in 1..n : freeList[k] = r
            BY <1>4, <2>2, Zenon
        <3>2. k # 1 /\ k - 1 \in 1..Len(freeList') /\ freeList'[k - 1] = r
            BY <1>2, <1>3, <1>4, <3>1
        <3>3. QED  BY <3>2, Zenon
    <2>7. QED
        BY <2>4, <2>5, <2>6 DEF FreeListExact
<1>7. QED
    BY <1>1, <1>3, <1>4, <1>5, <1>6

\* Destroying gives the id back and uncounts it (participants.c:61-79).
LEMMA DestroyFrees ==
    ASSUME Allocation, NEW p \in used, ParticipantsDestroy(p)
    PROVE  /\ used' \in SUBSET Ids
           /\ participantCount' \in Nat /\ freeList' \in Seq(Ids)
           /\ ParticipantCountExact' /\ FreeListExact'
<1>1. freeList \in Seq(Ids) /\ Len(freeList) \in Nat /\ p \in Ids /\ used \in SUBSET Ids
    BY DEF Allocation, TypeOK
<1>2. /\ freeList' \in Seq(Ids) /\ Len(freeList') = Len(freeList) + 1
      /\ \A i \in 1..Len(freeList) : freeList'[i] = freeList[i]
      /\ freeList'[Len(freeList) + 1] = p
    BY <1>1 DEF ParticipantsDestroy
<1>3. used' = used \ {p} /\ participantCount' = participantCount - 1
    BY Zenon DEF ParticipantsDestroy
<1>4. participantCount' \in Nat /\ ParticipantCountExact'
    <2>1. IsFiniteSet(used)
        BY <1>1, IdsFinite, FS_Subset, Zenon
    <2>2. Cardinality(used') = Cardinality(used) - 1 /\ IsFiniteSet(used')
        BY <1>3, <2>1, FS_RemoveElement, Zenon
    <2>3. Cardinality(used') \in Nat
        BY <2>2, FS_CardinalityType, Zenon
    <2>4. QED
        BY <1>3, <2>2, <2>3, Zenon DEF ParticipantCountExact, Allocation
<1>5. FreeListExact'
    <2> DEFINE n == Len(freeList)
    <2>1. \A i, j \in 1..n : freeList[i] = freeList[j] => i = j
        BY Zenon DEF Allocation, FreeListExact
    <2>2. {freeList[i] : i \in 1..n} = Ids \ used
        BY Zenon DEF Allocation, FreeListExact
    <2>3. \A i \in 1..n : freeList[i] # p
        BY <2>2, Zenon
    <2>4. \A i, j \in 1..Len(freeList') : freeList'[i] = freeList'[j] => i = j
        BY <1>1, <1>2, <2>1, <2>3
    <2>5. ASSUME NEW i \in 1..Len(freeList') PROVE freeList'[i] \in Ids \ used'
        BY <1>1, <1>2, <1>3, <2>2
    <2>6. ASSUME NEW r \in Ids \ used' PROVE \E i \in 1..Len(freeList') : freeList'[i] = r
        <3>1. CASE r = p
            BY <1>1, <1>2, <3>1
        <3>2. CASE r # p
            <4>1. PICK k \in 1..n : freeList[k] = r
                BY <1>3, <2>2, <3>2, Zenon
            <4>2. k \in 1..Len(freeList') /\ freeList'[k] = r
                BY <1>1, <1>2, <4>1
            <4>3. QED  BY <4>2, Zenon
        <3>3. QED  BY <3>1, <3>2, Zenon
    <2>7. QED
        BY <2>4, <2>5, <2>6 DEF FreeListExact
<1>6. QED
    BY <1>1, <1>2, <1>3, <1>4, <1>5, Zenon

\* Reading incoming predicted steps stores finitely many of them and moves
\* the expected write id to a natural number (local_party.c:169-248).
LEMMA DeserializeTypes ==
    ASSUME Allocation, NEW q \in PartyIds, member[q] # None,
           NEW first \in Nat, NEW last \in Int,
           DeserializePredictedSteps(q, first, last)
    PROVE  /\ stored' \in [Ids -> SUBSET Nat]
           /\ \A p \in Ids : IsFiniteSet(stored'[p])
           /\ writeId' \in [Ids -> Nat]
           /\ highestReceived' \in [PartyIds -> Nat]
<1> DEFINE p == member[q]
           added == Added(p, first, last)
           next == IF added = {} THEN writeId[p] ELSE LastAdded(p, first, last) + 1
<1>1. /\ p \in Ids /\ stored \in [Ids -> SUBSET Nat] /\ writeId \in [Ids -> Nat]
      /\ IsFiniteSet(stored[p]) /\ highestReceived \in [PartyIds -> Nat]
    BY Zenon DEF Allocation, TypeOK
<1>2. Cardinality(stored[p]) \in Nat
    BY <1>1, FS_CardinalityType, Zenon
<1>3. FirstNew(p, first) \in Nat
    BY <1>1, Zenon DEF FirstNew
<1>4. LastAdded(p, first, last) \in Int
    BY <1>2, <1>3, WindowAssumption DEF LastAdded
<1>5. added \in SUBSET Nat /\ IsFiniteSet(added)
    <2>1. IsFiniteSet(FirstNew(p, first)..LastAdded(p, first, last))
        BY <1>3, <1>4, FS_Interval
    <2>2. FirstNew(p, first)..LastAdded(p, first, last) \in SUBSET Nat
        BY <1>3, <1>4
    <2>3. \/ added = {}
          \/ added = FirstNew(p, first)..LastAdded(p, first, last)
        BY Zenon DEF Added
    <2>4. QED
        BY <2>1, <2>2, <2>3, FS_EmptySet, Zenon
<1>6. added # {} => LastAdded(p, first, last) \in Nat
    BY <1>3, <1>4 DEF Added
<1>7. next \in Nat
    BY <1>1, <1>6
<1>8. IsFiniteSet(stored[p] \cup added)
    BY <1>1, <1>5, FS_Union, Zenon
<1>9. stored' = [stored EXCEPT ![p] = @ \cup added]
    BY Zenon DEF DeserializePredictedSteps
<1>10. writeId' = [writeId EXCEPT ![p] = next]
    BY Zenon DEF DeserializePredictedSteps
<1>11. \/ highestReceived' = highestReceived
       \/ next - 1 > highestReceived[q] /\ highestReceived' = [highestReceived EXCEPT ![q] = next - 1]
    BY Zenon DEF DeserializePredictedSteps
<1> HIDE DEF added, next
<1>12. stored' \in [Ids -> SUBSET Nat] /\ writeId' \in [Ids -> Nat]
    BY <1>1, <1>5, <1>7, <1>9, <1>10, Zenon
<1>13. ASSUME NEW r \in Ids PROVE IsFiniteSet(stored'[r])
    BY <1>1, <1>8, <1>9, Zenon DEF Allocation
<1>14. highestReceived' \in [PartyIds -> Nat]
    BY <1>1, <1>7, <1>11
<1>15. QED
    BY <1>12, <1>13, <1>14, Zenon

\* Handling one participant keeps the allocation exact, whether it leaves or
\* stays (authoritative_steps.c:40-84).
LEMMA TakeStepAllocation ==
    ASSUME Allocation, NEW p \in used, TakeStep(p)
    PROVE  /\ used' \in SUBSET Ids
           /\ state' \in [Ids -> ParticipantStates]
           /\ inParty' \in [Ids -> PartyIds \cup {None}]
           /\ stored' \in [Ids -> SUBSET Nat]
           /\ participantCount' \in Nat /\ freeList' \in Seq(Ids)
           /\ forced' \in [PartyIds -> Nat] /\ accepted' \in SUBSET PartyIds
           /\ ParticipantCountExact' /\ FreeListExact'
           /\ \A r \in used' : inParty'[r] # None
           /\ \A r \in Ids : IsFiniteSet(stored'[r])
<1>1. /\ p \in Ids /\ inParty[p] \in PartyIds /\ used \in SUBSET Ids
      /\ state \in [Ids -> ParticipantStates] /\ inParty \in [Ids -> PartyIds \cup {None}]
      /\ stored \in [Ids -> SUBSET Nat] /\ IsFiniteSet(stored[p])
      /\ forced \in [PartyIds -> Nat] /\ accepted \in SUBSET PartyIds
    BY Zenon DEF Allocation, TypeOK
<1>2. state' \in [Ids -> ParticipantStates]
    <2>1. state' = [state EXCEPT ![p] = CASE @ = "JustJoined" -> "Normal"
                                          [] @ = "Leaving" -> "Destroyed"
                                          [] OTHER -> @]
        BY Zenon DEF TakeStep
    <2>2. QED
        BY <1>1, <2>1, Zenon DEF ParticipantStates
<1>3. forced' \in [PartyIds -> Nat] /\ accepted' \in SUBSET PartyIds
    BY <1>1 DEF TakeStep, ReportQuality
<1>4. stored' \in [Ids -> SUBSET Nat] /\ \A r \in Ids : IsFiniteSet(stored'[r])
    <2>1. stored' = [stored EXCEPT ![p] = Usable(p) \ {authWriteId}]
        BY Zenon DEF TakeStep
    <2>2. Usable(p) \ {authWriteId} \subseteq stored[p]
        BY Zenon DEF Usable
    <2>3. IsFiniteSet(Usable(p) \ {authWriteId})
        BY <1>1, <2>2, FS_Subset, Zenon
    <2>4. ASSUME NEW r \in Ids PROVE IsFiniteSet(stored'[r])
        BY <1>1, <2>1, <2>3, Zenon DEF Allocation
    <2>5. QED
        BY <1>1, <2>1, <2>2, <2>4, Zenon
<1>5. CASE state[p] = "Leaving"
    <2>1. ParticipantsDestroy(p)
        BY <1>5, Zenon DEF TakeStep
    <2>2. inParty' = [inParty EXCEPT ![p] = None] /\ used' = used \ {p}
        BY <2>1, Zenon DEF ParticipantsDestroy
    <2>3. /\ used' \in SUBSET Ids
          /\ participantCount' \in Nat /\ freeList' \in Seq(Ids)
          /\ ParticipantCountExact' /\ FreeListExact'
        BY <2>1, DestroyFrees, Zenon
    <2>4. inParty' \in [Ids -> PartyIds \cup {None}] /\ \A r \in used' : inParty'[r] # None
        BY <1>1, <2>2, Zenon DEF Allocation
    <2>5. QED
        BY <1>2, <1>3, <1>4, <2>3, <2>4, Zenon
<1>6. CASE state[p] # "Leaving"
    <2>1. UNCHANGED <<used, inParty, participantCount, freeList>>
        BY <1>6, Zenon DEF TakeStep
    <2>2. ParticipantCountExact' /\ FreeListExact'
        BY <2>1, Zenon DEF Allocation, ParticipantCountExact, FreeListExact
    <2>3. /\ used' \in SUBSET Ids /\ participantCount' \in Nat /\ freeList' \in Seq(Ids)
          /\ inParty' \in [Ids -> PartyIds \cup {None}]
          /\ \A r \in used' : inParty'[r] # None
        BY <2>1, Zenon DEF Allocation, TypeOK
    <2>4. QED
        BY <1>2, <1>3, <1>4, <2>2, <2>3, Zenon
<1>7. QED
    BY <1>5, <1>6, Zenon

\* A host migration puts one participant into each of the parties it
\* prepares, counts them, and leaves the other ids on the free list
\* (server.c:358-383).
LEMMA MigrationPrepares ==
    ASSUME Allocation, NEW n \in 0..PartyCapacity, NEW ids \in [0..(n - 1) -> Ids],
           HostMigration(n, ids)
    PROVE  /\ used' \in SUBSET Ids /\ \A q \in 0..(n - 1) : ids[q] \in used'
           /\ participantCount' \in Nat /\ ParticipantCountExact'
           /\ freeList' \in Seq(Ids) /\ FreeListExact'
           /\ \A p \in used' : inParty'[p] \in 0..(n - 1) /\ ids[inParty'[p]] = p
           /\ \A q \in 0..(n - 1) : inParty'[ids[q]] = q
<1> DEFINE D == 0..(n - 1)
           prepared == {ids[q] : q \in D}
<1>1. /\ used = {} /\ used' = prepared /\ participantCount' = participantCount + n
      /\ \A q, r \in D : ids[q] = ids[r] => q = r
      /\ inParty' = [p \in Ids |-> IF p \in prepared THEN CHOOSE q \in D : ids[q] = p
                                                     ELSE inParty[p]]
    BY Zenon DEF HostMigration, ParticipantsPrepare
<1>2. n \in Nat /\ prepared \in SUBSET Ids
    BY PartyCapacityAssumption
<1>3. Cardinality(prepared) = n
    <2>1. ids \in Surjection(D, prepared) /\ ids \in Injection(D, prepared)
        BY <1>1, Zenon DEF Surjection, Injection, IsInjective
    <2>2. IsFiniteSet(D) /\ Cardinality(D) = n
        BY <1>2, FS_Interval
    <2> HIDE DEF D, prepared
    <2>3. QED
        BY <2>1, <2>2, FS_Surjection, Zenon
<1>4. participantCount' = n
    <2>1. participantCount = 0
        BY <1>1, FS_EmptySet, Zenon DEF Allocation, ParticipantCountExact
    <2>2. QED
        BY <1>1, <1>2, <2>1
<1>5. ParticipantCountExact'
    BY <1>1, <1>3, <1>4, Zenon DEF ParticipantCountExact
<1>6. freeList' \in Seq(Ids) /\ FreeListExact'
    <2>1. PICK list \in [1..(Capacity - n) -> Ids] :
              IsRebuiltFreeList(list, prepared) /\ freeList' = list
        BY Zenon DEF HostMigration, ParticipantsPrepare
    <2>2. Capacity - n \in Nat
        <3>1. Cardinality(prepared) <= Cardinality(Ids)
            BY <1>2, IdsFinite, FS_Subset, Zenon
        <3>2. QED
            BY <1>2, <1>3, <3>1, IdsFinite, CapacityAssumption
    <2>3. list \in Seq(Ids) /\ Len(list) = Capacity - n /\ DOMAIN list = 1..Len(list)
        BY <2>2
    <2>4. \A i, j \in 1..Len(list) : list[i] = list[j] => i = j
        <3>1. \A i \in 1..Len(list) : list[i] \in Int /\ i \in Int
            BY <2>3 DEF Ids
        <3>2. \A i, j \in 1..Len(list) : i < j => list[i] < list[j]
            BY <2>1, <2>3, Zenon DEF IsRebuiltFreeList
        <3>3. QED
            BY <3>1, <3>2
    <2>5. {list[i] : i \in 1..Len(list)} = Ids \ prepared
        BY <2>1, <2>3, Zenon DEF IsRebuiltFreeList
    <2>6. FreeListExact'
        BY <1>1, <2>1, <2>4, <2>5 DEF FreeListExact
    <2>7. QED
        BY <2>1, <2>3, <2>6, Zenon
<1>7. ASSUME NEW p \in prepared PROVE inParty'[p] \in D /\ ids[inParty'[p]] = p
    <2>1. \E q \in D : ids[q] = p
        BY Zenon
    <2>2. inParty'[p] = CHOOSE q \in D : ids[q] = p
        BY <1>1, <1>2, Zenon
    <2> HIDE DEF D, prepared
    <2>3. QED
        BY <2>1, <2>2, Zenon
<1>8. ASSUME NEW q \in D PROVE inParty'[ids[q]] = q
    <2>1. ids[q] \in prepared
        BY Zenon
    <2>2. inParty'[ids[q]] \in D /\ ids[inParty'[ids[q]]] = ids[q]
        BY <1>7, <2>1, Zenon
    <2>3. QED
        BY <1>1, <2>2, Zenon
<1>9. QED
    BY <1>1, <1>2, <1>4, <1>5, <1>6, <1>7, <1>8

\* Every step keeps types, counts and the free list exact.
LEMMA NextAllocation == Allocation /\ [Next]_vars => Allocation'
<1> SUFFICES ASSUME Allocation, [Next]_vars PROVE Allocation'
    BY Zenon
<1> USE DEF Allocation
<1>1. CASE CreateParty
    <2>1. PICK q \in PartyIds, p \in Ids :
              /\ ParticipantsJoin(p, q)
              /\ QualityReset(q)
              /\ partyUsed' = partyUsed \cup {q}
              /\ partyState' = [partyState EXCEPT ![q] = "Normal"]
              /\ member' = [member EXCEPT ![q] = p]
        BY <1>1, Zenon DEF CreateParty
    <2>2. UNCHANGED <<authVars, highestReceived, composeVars, present>>
        BY <1>1, Zenon DEF CreateParty
    <2>3. /\ used' \in SUBSET Ids /\ participantCount' \in Nat /\ freeList' \in Seq(Ids)
          /\ ParticipantCountExact' /\ FreeListExact'
        BY <2>1, JoinAllocates, Zenon
    <2>4. /\ used' = used \cup {p}
          /\ state' = [state EXCEPT ![p] = "JustJoined"]
          /\ inParty' = [inParty EXCEPT ![p] = q]
          /\ stored' = [stored EXCEPT ![p] = {}]
          /\ writeId' = [writeId EXCEPT ![p] = authWriteId]
        BY <2>1, Zenon DEF ParticipantsJoin
    <2>5. /\ state' \in [Ids -> ParticipantStates]
          /\ inParty' \in [Ids -> PartyIds \cup {None}]
          /\ stored' \in [Ids -> SUBSET Nat]
          /\ writeId' \in [Ids -> Nat]
        BY <2>4, Zenon DEF TypeOK, ParticipantStates
    <2>6. \A r \in used' : inParty'[r] # None
        BY <2>4, PartyCapacityAssumption DEF TypeOK, PartyIds, None
    <2>7. \A r \in Ids : IsFiniteSet(stored'[r])
        BY <2>4, FS_EmptySet, Zenon DEF TypeOK
    <2>8. /\ partyUsed' \in SUBSET PartyIds /\ partyState' \in [PartyIds -> PartyStates]
          /\ member' \in [PartyIds -> Ids \cup {None}]
          /\ forced' \in [PartyIds -> Nat] /\ accepted' \in SUBSET PartyIds
        BY <2>1, Zenon DEF TypeOK, QualityReset, PartyStates
    <2>9. TypeOK'
        BY <2>2, <2>3, <2>5, <2>8, Zenon DEF TypeOK, authVars, composeVars
    <2>10. QED
        BY <2>3, <2>6, <2>7, <2>9, Zenon
<1>2. ASSUME NEW q \in PartyIds,
             RejoinParty(q) \/ ConnectionDisconnected(q)
      PROVE  Allocation'
    <2>1. UNCHANGED <<participantVars, authVars, member, highestReceived, composeVars, present>>
        BY <1>2, Zenon DEF RejoinParty, ConnectionDisconnected
    <2>2. /\ partyUsed' \in SUBSET PartyIds /\ partyState' \in [PartyIds -> PartyStates]
          /\ forced' \in [PartyIds -> Nat] /\ accepted' \in SUBSET PartyIds
        <3>1. CASE RejoinParty(q)
            BY <3>1, Zenon DEF TypeOK, RejoinParty, QualityReset, PartyStates
        <3>2. CASE ConnectionDisconnected(q)
            BY <3>2, Zenon DEF TypeOK, ConnectionDisconnected, qualityVars
        <3>3. QED
            BY <1>2, <3>1, <3>2, Zenon
    <2>3. TypeOK'
        BY <2>1, <2>2, Zenon DEF TypeOK, participantVars, authVars, composeVars
    <2>4. ParticipantCountExact' /\ FreeListExact'
        BY <2>1, Zenon DEF ParticipantCountExact, FreeListExact, participantVars
    <2>5. QED
        BY <2>1, <2>3, <2>4, Zenon DEF participantVars
<1>3. ASSUME NEW q \in PartyIds, PartyWaits(q) \/ DestroyParty(q)
      PROVE  Allocation'
    <2>1. UNCHANGED <<used, inParty, stored, writeId, participantCount, freeList,
                      authVars, highestReceived, composeVars, present>>
        BY <1>3, Zenon DEF PartyWaits, DestroyParty
    <2>2. /\ partyUsed' \in SUBSET PartyIds /\ partyState' \in [PartyIds -> PartyStates]
          /\ member' \in [PartyIds -> Ids \cup {None}]
          /\ forced' \in [PartyIds -> Nat] /\ accepted' \in SUBSET PartyIds
        <3>1. CASE PartyWaits(q)
            BY <3>1, Zenon DEF TypeOK, PartyWaits, PartyStates, qualityVars
        <3>2. CASE DestroyParty(q)
            BY <3>2, Zenon DEF TypeOK, DestroyParty, QualityReset, PartyStates
        <3>3. QED
            BY <1>3, <3>1, <3>2, Zenon
    <2>3. state' \in [Ids -> ParticipantStates]
        BY <1>3, Zenon DEF TypeOK, PartyWaits, DestroyParty, ParticipantStates
    <2>4. TypeOK'
        BY <2>1, <2>2, <2>3, Zenon DEF TypeOK, authVars, composeVars
    <2>5. ParticipantCountExact' /\ FreeListExact'
        BY <2>1, Zenon DEF ParticipantCountExact, FreeListExact
    <2>6. QED
        BY <2>1, <2>4, <2>5, Zenon
<1>4. ASSUME NEW q \in PartyIds, NEW first \in 0..MaxStepId,
             NEW last \in (first - 1)..(MaxStepId - 1), ReqGameStep(q, first, last)
      PROVE  Allocation'
    <2>1. UNCHANGED <<used, state, inParty, participantCount, freeList,
                      authWriteId, qualityVars, partyUsed, partyState, member,
                      cursor, announced, woven, present>>
        BY <1>4, Zenon DEF ReqGameStep
    <2>2. authReadId' \in Nat
        BY <1>4, WindowAssumption DEF ReqGameStep, DiscardedReadId, AuthCount, TypeOK
    <2>3. phase' \in {"idle", "composing", "weaving"}
        BY <1>4, Zenon DEF ReqGameStep, TypeOK
    <2>4. /\ stored' \in [Ids -> SUBSET Nat]
          /\ \A p \in Ids : IsFiniteSet(stored'[p])
          /\ writeId' \in [Ids -> Nat]
          /\ highestReceived' \in [PartyIds -> Nat]
        <3>1. CASE UNCHANGED <<stored, writeId, highestReceived>>
            BY <3>1, Zenon DEF TypeOK
        <3>2. CASE member[q] # None /\ DeserializePredictedSteps(q, first, last)
            <4>1. first \in Nat /\ last \in Int
                BY StepIdAssumption
            <4>2. QED
                BY <3>2, <4>1, DeserializeTypes, Zenon
        <3>3. QED
            BY <1>4, <3>1, <3>2, Zenon DEF ReqGameStep
    <2>5. TypeOK'
        BY <2>1, <2>2, <2>3, <2>4, Zenon DEF TypeOK, qualityVars
    <2>6. ParticipantCountExact' /\ FreeListExact'
        BY <2>1, Zenon DEF ParticipantCountExact, FreeListExact
    <2>7. QED
        BY <2>1, <2>4, <2>5, <2>6, Zenon
<1>5. CASE ComposeBegin \/ ComposeEnd \/ SkipUnused
    <2>1. UNCHANGED <<participantVars, authVars, qualityVars, partyVars, woven, present>>
        BY <1>5, Zenon DEF ComposeBegin, ComposeEnd, SkipUnused
    <2>2. phase' \in {"idle", "composing", "weaving"} /\ cursor' \in 0..Capacity
          /\ announced' \in Nat
        BY <1>5, CapacityAssumption DEF ComposeBegin, ComposeEnd, SkipUnused, TypeOK
    <2>3. TypeOK'
        BY <2>1, <2>2, Zenon DEF TypeOK, participantVars, authVars, qualityVars, partyVars
    <2>4. ParticipantCountExact' /\ FreeListExact'
        BY <2>1, Zenon DEF ParticipantCountExact, FreeListExact, participantVars
    <2>5. QED
        BY <2>1, <2>3, <2>4, Zenon DEF participantVars
<1>6. CASE Weave \/ WeaveOverflows
    <2>1. cursor \in used /\ TakeStep(cursor)
        BY <1>6, Zenon DEF Weave, WeaveOverflows
    <2>2. /\ used' \in SUBSET Ids
          /\ state' \in [Ids -> ParticipantStates]
          /\ inParty' \in [Ids -> PartyIds \cup {None}]
          /\ stored' \in [Ids -> SUBSET Nat]
          /\ participantCount' \in Nat /\ freeList' \in Seq(Ids)
          /\ forced' \in [PartyIds -> Nat] /\ accepted' \in SUBSET PartyIds
          /\ ParticipantCountExact' /\ FreeListExact'
          /\ \A r \in used' : inParty'[r] # None
          /\ \A r \in Ids : IsFiniteSet(stored'[r])
        BY <2>1, TakeStepAllocation, Zenon
    <2>3. UNCHANGED <<writeId, authVars, partyVars, present>>
        BY <2>1, Zenon DEF TakeStep
    <2>4. EntryType(cursor) \in StepTypes
        BY <2>1, Zenon DEF EntryType, StepTypes
    <2>5. /\ phase' \in {"idle", "composing", "weaving"} /\ announced' \in Nat
          /\ woven' \in [Ids -> StepTypes \cup {NoEntry}]
        <3>1. CASE Weave
            BY <2>4, <3>1, Zenon DEF Weave, TypeOK
        <3>2. CASE WeaveOverflows
            BY <3>2, Zenon DEF WeaveOverflows, TypeOK
        <3>3. QED
            BY <1>6, <3>1, <3>2, Zenon
    <2>6. cursor' \in 0..Capacity
        BY <1>6, <2>1, CapacityAssumption DEF Weave, WeaveOverflows, TypeOK, Ids
    <2>7. TypeOK'
        BY <2>2, <2>3, <2>5, <2>6, Zenon DEF TypeOK, authVars, partyVars
    <2>8. QED
        BY <2>2, <2>7, Zenon
<1>7. CASE WriteStep
    <2>1. UNCHANGED <<participantVars, authReadId, qualityVars, partyVars>>
        BY <1>7, Zenon DEF WriteStep
    <2>2. /\ phase' \in {"idle", "composing", "weaving"} /\ cursor' \in 0..Capacity
          /\ announced' \in Nat /\ authWriteId' \in Nat
          /\ woven' \in [Ids -> StepTypes \cup {NoEntry}]
          /\ present' \in SUBSET Ids
        BY <1>7, CapacityAssumption DEF WriteStep, TypeOK
    <2>3. TypeOK'
        BY <2>1, <2>2, Zenon DEF TypeOK, participantVars, qualityVars, partyVars
    <2>4. ParticipantCountExact' /\ FreeListExact'
        BY <2>1, Zenon DEF ParticipantCountExact, FreeListExact, participantVars
    <2>5. QED
        BY <2>1, <2>3, <2>4, Zenon DEF participantVars
<1>8. CASE UNCHANGED vars
    <2>1. UNCHANGED <<participantVars, authVars, qualityVars, partyVars, composeVars, present>>
        BY <1>8, Zenon DEF vars
    <2>2. TypeOK'
        BY <2>1, Zenon DEF TypeOK, participantVars, authVars, qualityVars, partyVars, composeVars
    <2>3. ParticipantCountExact' /\ FreeListExact'
        BY <2>1, Zenon DEF ParticipantCountExact, FreeListExact, participantVars
    <2>4. QED
        BY <2>1, <2>2, <2>3, Zenon DEF participantVars
<1>9. ASSUME NEW n \in 0..PartyCapacity, NEW ids \in [0..(n - 1) -> Ids], HostMigration(n, ids)
      PROVE  Allocation'
    <2>1. /\ used' \in SUBSET Ids /\ participantCount' \in Nat /\ freeList' \in Seq(Ids)
          /\ ParticipantCountExact' /\ FreeListExact'
          /\ \A p \in used' : inParty'[p] \in 0..(n - 1)
        BY <1>9, MigrationPrepares, Zenon
    <2>2. /\ state' = [p \in Ids |-> IF p \in used' THEN "WaitingForRejoin" ELSE state[p]]
          /\ stored' = [p \in Ids |-> IF p \in used' THEN {} ELSE stored[p]]
          /\ writeId' = [p \in Ids |-> IF p \in used' THEN authWriteId - 1 ELSE writeId[p]]
          /\ \A p \in Ids \ used' : inParty'[p] = inParty[p]
          /\ DOMAIN inParty' = Ids /\ inParty' = [p \in Ids |-> inParty'[p]]
          /\ authWriteId > 0 /\ present' = used'
          /\ UNCHANGED <<authVars, highestReceived, composeVars>>
        BY <1>9, Zenon DEF HostMigration, ParticipantsPrepare
    <2>3. \A q \in 0..(n - 1) : q \in PartyIds /\ q # None
        BY PartyCapacityAssumption DEF PartyIds, None
    <2>4. inParty' \in [Ids -> PartyIds \cup {None}] /\ \A p \in used' : inParty'[p] # None
        BY <2>1, <2>2, <2>3, Zenon DEF TypeOK
    <2>5. /\ state' \in [Ids -> ParticipantStates] /\ stored' \in [Ids -> SUBSET Nat]
          /\ writeId' \in [Ids -> Nat]
        BY <2>2 DEF TypeOK, ParticipantStates
    <2>6. \A p \in Ids : IsFiniteSet(stored'[p])
        BY <2>2, FS_EmptySet, Zenon
    <2>7. /\ partyUsed' \in SUBSET PartyIds /\ partyState' \in [PartyIds -> PartyStates]
          /\ member' \in [PartyIds -> Ids \cup {None}]
          /\ forced' \in [PartyIds -> Nat] /\ accepted' \in SUBSET PartyIds
        BY <1>9, <2>3 DEF HostMigration, ParticipantsPrepare, TypeOK, PartyStates, PartyIds
    <2>8. TypeOK'
        BY <2>1, <2>2, <2>4, <2>5, <2>7, Zenon DEF TypeOK, authVars, composeVars
    <2>9. QED
        BY <2>1, <2>4, <2>6, <2>8, Zenon
<1>10. QED
    BY <1>1, <1>2, <1>3, <1>4, <1>5, <1>6, <1>7, <1>8, <1>9, Zenon DEF Next, Migrate, Party, Compose

-----------------------------------------------------------------------------
\* A party that waits for a rejoin has a participant that says so.
Ownership ==
    /\ MembersBelong
    /\ UsedPartiesHaveMembers
    /\ \A q \in PartyIds :
          member[q] # None /\ partyState[q] = "WaitingForReJoin" =>
              state[member[q]] = "WaitingForRejoin"

\* Every step keeps the participants that parties refer to in those parties.
LEMMA NextOwnership == Allocation /\ Ownership /\ [Next]_vars => Ownership'
<1> SUFFICES ASSUME Allocation, Ownership, [Next]_vars PROVE Ownership'
    BY Zenon
<1> USE DEF Ownership, MembersBelong, UsedPartiesHaveMembers
<1>0. TypeOK
    BY Zenon DEF Allocation
<1> USE <1>0
<1>n. None \notin Ids /\ None \notin PartyIds
    BY CapacityAssumption, PartyCapacityAssumption DEF None, Ids, PartyIds
<1>1. CASE CreateParty
    <2>1. PICK q \in PartyIds, p \in Ids :
              /\ ParticipantsJoin(p, q)
              /\ partyUsed' = partyUsed \cup {q}
              /\ partyState' = [partyState EXCEPT ![q] = "Normal"]
              /\ member' = [member EXCEPT ![q] = p]
        BY <1>1, Zenon DEF CreateParty
    <2>2. /\ used' = used \cup {p} /\ state' = [state EXCEPT ![p] = "JustJoined"]
          /\ inParty' = [inParty EXCEPT ![p] = q]
        BY <2>1, Zenon DEF ParticipantsJoin
    <2>3. p \notin used
        BY <2>1, JoinAllocates, Zenon
    <2>4. QED
        BY <1>n, <2>1, <2>2, <2>3 DEF TypeOK
<1>2. ASSUME NEW q \in PartyIds, RejoinParty(q) PROVE Ownership'
    BY <1>2, Zenon DEF RejoinParty, TypeOK, participantVars
<1>3. ASSUME NEW q \in PartyIds, ConnectionDisconnected(q) PROVE Ownership'
    BY <1>3, Zenon DEF ConnectionDisconnected, TypeOK, participantVars
<1>4. ASSUME NEW q \in PartyIds, PartyWaits(q) PROVE Ownership'
    BY <1>4, <1>n DEF PartyWaits, TypeOK
<1>5. ASSUME NEW q \in PartyIds, DestroyParty(q) PROVE Ownership'
    BY SMTT(30), <1>5, <1>n DEF DestroyParty, TypeOK
<1>6. ASSUME NEW q \in PartyIds, NEW first \in 0..MaxStepId,
             NEW last \in (first - 1)..(MaxStepId - 1), ReqGameStep(q, first, last)
      PROVE  Ownership'
    BY <1>6, Zenon DEF ReqGameStep, TypeOK
<1>7. CASE ComposeBegin \/ ComposeEnd \/ SkipUnused \/ WriteStep
    <2>1. UNCHANGED <<participantVars, partyVars>>
        BY <1>7, Zenon DEF ComposeBegin, ComposeEnd, SkipUnused, WriteStep
    <2>2. QED
        BY <2>1, Zenon DEF participantVars, partyVars
<1>8. CASE Weave \/ WeaveOverflows
    <2>1. cursor \in used /\ TakeStep(cursor)
        BY <1>8, Zenon DEF Weave, WeaveOverflows
    <2>2. UNCHANGED <<partyUsed, partyState, member>>
        BY <2>1, Zenon DEF TakeStep, partyVars
    <2>3. CASE state[cursor] = "Leaving"
        <3>1. \A q \in PartyIds : member[q] # cursor
            BY <1>n, <2>1, <2>3, Zenon DEF TypeOK
        <3>2. /\ used' = used \ {cursor} /\ inParty' = [inParty EXCEPT ![cursor] = None]
              /\ state' = [state EXCEPT ![cursor] = "Destroyed"]
            BY <2>1, <2>3, Zenon DEF TakeStep, ParticipantsDestroy
        <3>3. QED
            BY <1>n, <2>1, <2>2, <3>1, <3>2, Zenon DEF TypeOK
    <2>4. CASE state[cursor] # "Leaving"
        <3>1. UNCHANGED <<used, inParty>>
            BY <2>1, <2>4, Zenon DEF TakeStep
        <3>2. state' = [state EXCEPT ![cursor] = IF @ = "JustJoined" THEN "Normal" ELSE @]
            BY <2>1, <2>4, Zenon DEF TakeStep
        <3>3. QED
            BY <1>n, <2>1, <2>2, <3>1, <3>2, Zenon DEF TypeOK
    <2>5. QED
        BY <2>3, <2>4, Zenon
<1>9. CASE UNCHANGED vars
    BY <1>9, Zenon DEF vars, participantVars, partyVars
<1>10. ASSUME NEW n \in 0..PartyCapacity, NEW ids \in [0..(n - 1) -> Ids], HostMigration(n, ids)
       PROVE  Ownership'
    <2>1. /\ \A q \in 0..(n - 1) : ids[q] \in used' /\ inParty'[ids[q]] = q
          /\ used' \in SUBSET Ids
        BY <1>10, MigrationPrepares, Zenon
    <2>2. /\ state' = [p \in Ids |-> IF p \in used' THEN "WaitingForRejoin" ELSE state[p]]
          /\ partyUsed' = 0..(n - 1)
          /\ member' = [q \in PartyIds |-> IF q < n THEN ids[q] ELSE None]
        BY <1>10, Zenon DEF HostMigration, ParticipantsPrepare
    <2>3. ASSUME NEW q \in PartyIds PROVE q < n <=> q \in 0..(n - 1)
        BY PartyCapacityAssumption DEF PartyIds
    <2>4. \A q \in PartyIds : member'[q] # None =>
              member'[q] \in used' /\ inParty'[member'[q]] = q
                  /\ state'[member'[q]] = "WaitingForRejoin"
        BY <2>1, <2>2, <2>3, Zenon
    <2>5. \A q \in partyUsed' : q \in PartyIds /\ member'[q] # None
        <3>1. \A q \in 0..(n - 1) : q \in PartyIds /\ q < n
            BY PartyCapacityAssumption DEF PartyIds
        <3>2. QED
            BY <1>n, <2>1, <2>2, <3>1, Zenon
    <2>6. QED
        BY <2>4, <2>5, Zenon
<1>11. QED
    BY <1>1, <1>2, <1>3, <1>4, <1>5, <1>6, <1>7, <1>8, <1>9, <1>10, Zenon
   DEF Next, Migrate, Party, Compose

-----------------------------------------------------------------------------
Window ==
    /\ AuthoritativeWindowBounded
    /\ phase = "weaving" => AuthCount < WindowSize \div 2

\* Every step keeps the authoritative buffer within half a window.
LEMMA NextWindow == Allocation /\ Window /\ [Next]_vars => Window'
<1> SUFFICES ASSUME Allocation, Window, [Next]_vars PROVE Window'
    OBVIOUS
<1> DEFINE half == WindowSize \div 2
           third == WindowSize \div 3
<1>0. /\ TypeOK /\ half \in Nat /\ third \in Nat /\ third <= half
      /\ authReadId \in Nat /\ authWriteId \in Nat
    BY WindowAssumption DEF Allocation, TypeOK
<1>1. CASE UNCHANGED authVars /\ (phase' = "weaving" => phase = "weaving")
    BY <1>1, Zenon DEF Window, AuthoritativeWindowBounded, AuthCount, authVars
<1>2. CASE CreateParty \/ ComposeEnd \/ SkipUnused \/ Weave \/ WeaveOverflows \/ UNCHANGED vars
    <2>1. UNCHANGED authVars /\ (phase' = "weaving" => phase = "weaving")
        BY <1>2, Zenon DEF CreateParty, ComposeEnd, SkipUnused, Weave, WeaveOverflows, TakeStep,
                    vars, composeVars
    <2>2. QED
        BY <1>1, <2>1, Zenon
<1>3. ASSUME NEW q \in PartyIds,
             RejoinParty(q) \/ ConnectionDisconnected(q) \/ PartyWaits(q) \/ DestroyParty(q)
      PROVE  Window'
    <2>1. UNCHANGED authVars /\ phase' = phase
        BY <1>3, Zenon DEF RejoinParty, ConnectionDisconnected, PartyWaits, DestroyParty, composeVars
    <2>2. QED
        BY <1>1, <2>1, Zenon
<1>4. ASSUME NEW q \in PartyIds, NEW first \in 0..MaxStepId,
             NEW last \in (first - 1)..(MaxStepId - 1), ReqGameStep(q, first, last)
      PROVE  Window'
    <2>1. /\ authWriteId' = authWriteId /\ phase' # "weaving"
          /\ authReadId' = IF AuthCount > third THEN authWriteId - third ELSE authReadId
        BY <1>4, Zenon DEF ReqGameStep, DiscardedReadId
    <2> HIDE DEF half, third
    <2>2. 0 <= authWriteId' - authReadId' /\ authWriteId' - authReadId' <= half
        BY <1>0, <2>1 DEF Window, AuthoritativeWindowBounded, AuthCount, half
    <2>3. QED
        BY <2>1, <2>2, Zenon DEF Window, AuthoritativeWindowBounded, AuthCount, half
<1>5. CASE ComposeBegin
    <2>1. UNCHANGED authVars /\ AuthCount < half
        BY <1>5, Zenon
           DEF ComposeBegin, ShouldAdvanceAuthoritative, CanAdvanceDueToDistanceFromLastState
    <2>2. QED
        BY <2>1, Zenon DEF Window, AuthoritativeWindowBounded, AuthCount, authVars
<1>6. CASE WriteStep
    <2>1. /\ phase = "weaving" /\ phase' = "composing"
          /\ authWriteId' = authWriteId + 1 /\ authReadId' = authReadId
        BY <1>6, Zenon DEF WriteStep
    <2> HIDE DEF half, third
    <2>2. 0 <= authWriteId' - authReadId' /\ authWriteId' - authReadId' <= half
        BY <1>0, <2>1 DEF Window, AuthoritativeWindowBounded, AuthCount, half
    <2>3. QED
        BY <2>1, <2>2, Zenon DEF Window, AuthoritativeWindowBounded, AuthCount, half
<1>7. CASE Migrate
    <2>1. UNCHANGED authVars /\ phase' = phase
        BY <1>7, Zenon DEF Migrate, HostMigration, ParticipantsPrepare, composeVars
    <2>2. QED
        BY <1>1, <2>1, Zenon
<1>8. QED
    BY <1>2, <1>3, <1>4, <1>5, <1>6, <1>7, Zenon DEF Next, Party, Compose

-----------------------------------------------------------------------------
\* The participants that have an entry or are still to get one.
Announcable == {p \in Ids : woven[p] # NoEntry \/ (p \in used /\ p >= cursor)}

Weaving ==
    /\ phase # "weaving" => cursor = 0
    /\ \A p \in Ids : p >= cursor => woven[p] = NoEntry
    /\ phase = "weaving" => announced = Cardinality(Announcable)

\* Every step keeps the announced count equal to the entries written and
\* still to be written.
LEMMA NextWeaving == Allocation /\ Weaving /\ [Next]_vars => Weaving'
<1> SUFFICES ASSUME Allocation, Weaving, [Next]_vars PROVE Weaving'
    OBVIOUS
<1>0. TypeOK /\ \A p \in Ids : p \in Nat /\ p < Capacity
    BY CapacityAssumption DEF Allocation, Ids
<1> USE <1>0
<1>1. CASE UNCHANGED <<cursor, woven>> /\ phase # "weaving" /\ phase' # "weaving"
    BY <1>1, Zenon DEF Weaving
<1>2. CASE CreateParty \/ ComposeEnd
    BY <1>1, <1>2, Zenon DEF CreateParty, ComposeEnd, composeVars
<1>3. ASSUME NEW q \in PartyIds,
             \/ RejoinParty(q) \/ ConnectionDisconnected(q) \/ PartyWaits(q) \/ DestroyParty(q)
             \/ \E first \in 0..MaxStepId : \E last \in (first - 1)..(MaxStepId - 1) :
                    ReqGameStep(q, first, last)
      PROVE  Weaving'
    <2>1. UNCHANGED <<cursor, woven>> /\ phase # "weaving" /\ phase' # "weaving"
        BY <1>3, Zenon DEF RejoinParty, ConnectionDisconnected, PartyWaits, DestroyParty, ReqGameStep,
                    composeVars
    <2>2. QED
        BY <1>1, <2>1, Zenon
<1>4. CASE ComposeBegin
    <2>1. /\ phase # "weaving" /\ announced' = participantCount
          /\ UNCHANGED <<used, cursor, woven>>
        BY <1>4, Zenon DEF ComposeBegin, participantVars
    <2>2. cursor = 0 /\ \A p \in Ids : woven[p] = NoEntry
        BY <2>1 DEF Weaving
    <2>3. Announcable' = used
        BY <2>1, <2>2 DEF Announcable, TypeOK
    <2>4. QED
        BY <1>4, <2>1, <2>2, <2>3, Zenon DEF Weaving, Allocation, ParticipantCountExact, ComposeBegin
<1>5. CASE Weave
    <2>1. /\ cursor \in used /\ TakeStep(cursor) /\ cursor' = cursor + 1
          /\ woven' = [woven EXCEPT ![cursor] = EntryType(cursor)]
          /\ phase = "weaving" /\ UNCHANGED <<phase, announced>>
        BY <1>5, Zenon DEF Weave
    <2>2. used' = used \/ used' = used \ {cursor}
        BY <2>1, Zenon DEF TakeStep, ParticipantsDestroy
    <2>3. EntryType(cursor) # NoEntry
        BY Zenon DEF EntryType, NoEntry
    <2>4. Announcable' = Announcable
        <3>1. /\ cursor \in Ids /\ woven'[cursor] # NoEntry
              /\ \A p \in Ids : p # cursor => woven'[p] = woven[p]
            BY <2>1, <2>3, Zenon DEF TypeOK
        <3>2. ASSUME NEW p \in Ids, p # cursor
              PROVE  p \in used /\ p >= cursor <=> p \in used' /\ p >= cursor'
            BY <2>1, <2>2, <3>1, <3>2 DEF TypeOK
        <3>3. QED
            BY <2>1, <3>1, <3>2 DEF Announcable
    <2>5. \A p \in Ids : p >= cursor' => woven'[p] = NoEntry
        BY <2>1 DEF Weaving, TypeOK
    <2>6. QED
        BY <2>1, <2>4, <2>5, Zenon DEF Weaving
<1>6. CASE SkipUnused
    <2>1. /\ cursor \notin used /\ cursor' = cursor + 1 /\ phase = "weaving"
          /\ UNCHANGED <<used, phase, announced, woven>>
        BY <1>6, Zenon DEF SkipUnused, participantVars
    <2>2. ASSUME NEW p \in Ids
          PROVE  p \in used /\ p >= cursor <=> p \in used' /\ p >= cursor'
        BY <2>1 DEF TypeOK
    <2>3. Announcable' = Announcable
        BY <2>1, <2>2, Zenon DEF Announcable
    <2>4. QED
        BY <2>1, <2>3 DEF Weaving, TypeOK
<1>7. CASE WeaveOverflows \/ WriteStep
    <2>1. phase' # "weaving" /\ cursor' = 0 /\ woven' = [p \in Ids |-> NoEntry]
        BY <1>7, Zenon DEF WeaveOverflows, WriteStep
    <2>2. QED
        BY <2>1, Zenon DEF Weaving
<1>8. CASE UNCHANGED vars
    <2>1. UNCHANGED <<used, phase, cursor, announced, woven>>
        BY <1>8, Zenon DEF vars, participantVars, composeVars
    <2>2. Announcable' = Announcable
        BY <2>1, Zenon DEF Announcable
    <2>3. QED
        BY <2>1, <2>2, Zenon DEF Weaving
<1>9. CASE Migrate
    BY <1>1, <1>9, Zenon DEF Migrate, HostMigration, ParticipantsPrepare, composeVars
<1>10. QED
    BY <1>2, <1>3, <1>4, <1>5, <1>6, <1>7, <1>8, <1>9, Zenon DEF Next, Party, Compose

-----------------------------------------------------------------------------
(* The theorems.                                                           *)

\* The inductive invariant that needs no assumption on the constants beyond
\* those of the module.
IInv ==
    Allocation /\ Ownership /\ Window /\ Weaving

\* A game just initialised satisfies the inductive invariant.
LEMMA InitIInv == Init => IInv
<1> SUFFICES ASSUME Init PROVE IInv
    OBVIOUS
<1>1. Allocation
    BY InitAllocation, Zenon
<1>2. Ownership
    BY Zenon DEF Init, Ownership, MembersBelong, UsedPartiesHaveMembers
<1>3. Window
    <2>1. AuthCount = 0
        BY StepIdAssumption DEF Init, AuthCount
    <2>2. 0 <= WindowSize \div 2 /\ phase # "weaving"
        BY WindowAssumption DEF Init
    <2>3. QED
        BY <2>1, <2>2 DEF Window, AuthoritativeWindowBounded
<1>4. Weaving
    BY Zenon DEF Init, Weaving
<1>5. QED
    BY <1>1, <1>2, <1>3, <1>4, Zenon DEF IInv

\* Every step keeps the inductive invariant.
LEMMA NextIInv == IInv /\ [Next]_vars => IInv'
BY NextAllocation, NextOwnership, NextWindow, NextWeaving, Zenon DEF IInv

\* The inductive invariant always holds.
LEMMA AlwaysIInv == Spec => []IInv
BY InitIInv, NextIInv, PTL DEF Spec

\* All values keep their types, whatever arrives and whoever comes and goes.
THEOREM TypeCorrect == Spec => []TypeOK
<1>1. IInv => TypeOK
    BY Zenon DEF IInv, Allocation
<1>2. QED
    BY <1>1, AlwaysIInv, PTL

\* For any number of participants, the count written into every step is the
\* number of participants in use (participants.c:66,
\* participants.c:170).
THEOREM CountHolds == Spec => []ParticipantCountExact
<1>1. IInv => ParticipantCountExact
    BY Zenon DEF IInv, Allocation
<1>2. QED
    BY <1>1, AlwaysIInv, PTL

\* The free list holds exactly the unused ids, so a join never gets a used
\* one (participants.c:149-157).
THEOREM AllocationExact == Spec => []FreeListExact
<1>1. IInv => FreeListExact
    BY Zenon DEF IInv, Allocation
<1>2. QED
    BY <1>1, AlwaysIInv, PTL

\* Every participant a party refers to is its own and is still in the game
\* (local_party.c:90-100).
THEOREM MembershipHolds == Spec => []MembersBelong
<1>1. IInv => MembersBelong
    BY Zenon DEF IInv, Ownership
<1>2. QED
    BY <1>1, AlwaysIInv, PTL

\* A used party has a participant, so it has somebody to step for.
THEOREM PartiesAreInhabited == Spec => []UsedPartiesHaveMembers
<1>1. IInv => UsedPartiesHaveMembers
    BY Zenon DEF IInv, Ownership
<1>2. QED
    BY <1>1, AlwaysIInv, PTL

\* The authoritative buffer never exceeds half a window, for every window
\* size (authoritative_steps.c:168-178).
THEOREM WindowHolds == Spec => []AuthoritativeWindowBounded
<1>1. IInv => AuthoritativeWindowBounded
    BY Zenon DEF IInv, Window
<1>2. QED
    BY <1>1, AlwaysIInv, PTL

\* Every finished step has the number of entries it announces, also when
\* participants are destroyed while it is woven.
THEOREM AnnouncementHolds == Spec => []StepAnnouncesItsEntries
<1>1. IInv => StepAnnouncesItsEntries
    <2> SUFFICES ASSUME IInv, phase = "weaving", cursor = Capacity
                 PROVE  announced = Cardinality({p \in Ids : woven[p] # NoEntry})
        BY Zenon DEF StepAnnouncesItsEntries
    <2>1. announced = Cardinality(Announcable)
        BY Zenon DEF IInv, Weaving
    <2>2. \A p \in Ids : ~(p >= cursor)
        BY CapacityAssumption DEF Ids
    <2>3. Announcable = {p \in Ids : woven[p] # NoEntry}
        BY <2>2, Zenon DEF Announcable
    <2>4. QED
        BY <2>1, <2>3, Zenon
<1>2. QED
    BY <1>1, AlwaysIInv, PTL

\* The weaving implements StepLog, for every window size: steps that were
\* written stay until a third of a window of newer ones is there, and none is
\* written beyond half a window (req_step.c:21-25,
\* authoritative_steps.c:168-178).
THEOREM WeavingKeepsTheLog == Spec => ImplementsStepLog
<1>1. Init => Log!Init
    BY StepIdAssumption, Zenon DEF Init, Log!Init
<1>2. ASSUME IInv, IInv', [Next]_vars PROVE [Log!Next]_(Log!vars)
    <2>1. CASE UNCHANGED authVars
        BY <2>1, Zenon DEF authVars, Log!vars
    <2>2. CASE authReadId' = DiscardedReadId /\ authWriteId' = authWriteId
        <3>1. authReadId \in Nat /\ authWriteId \in Nat /\ WindowSize \div 3 \in Nat
            BY <1>2, WindowAssumption DEF IInv, Allocation, TypeOK
        <3>2. authReadId' = authReadId
              \/ (authReadId < authReadId' /\ authReadId' <= authWriteId - WindowSize \div 3)
            BY <2>2, <3>1 DEF DiscardedReadId, AuthCount
        <3>. QED
            BY <2>2, <3>2, Zenon DEF Log!Next, Log!Advance, Log!Discard, Log!vars
    <2>3. CASE WriteStep
        <3>1. authReadId' = authReadId /\ authWriteId' = authWriteId + 1 /\ authWriteId \in Nat
            BY <1>2, <2>3, Zenon DEF WriteStep, IInv, Allocation, TypeOK
        <3>2. authWriteId' - authReadId' <= WindowSize \div 2
            BY <1>2, Zenon DEF IInv, Window, AuthoritativeWindowBounded, AuthCount
        <3>3. authWriteId < authWriteId'
            BY <3>1
        <3>. QED
            BY <3>1, <3>2, <3>3, Zenon DEF Log!Next, Log!Advance, Log!Add
    <2>4. CASE \/ CreateParty \/ Migrate \/ ComposeBegin \/ ComposeEnd \/ Weave \/ SkipUnused
               \/ WeaveOverflows \/ UNCHANGED vars
        <3>1. UNCHANGED authVars
            BY <2>4, Zenon
               DEF CreateParty, Migrate, HostMigration, ParticipantsPrepare, ComposeBegin, ComposeEnd, Weave, TakeStep,
                        SkipUnused, WeaveOverflows, vars
        <3>. QED
            BY <2>1, <3>1, Zenon
    <2>5. ASSUME NEW q \in PartyIds, Party(q) PROVE [Log!Next]_(Log!vars)
        <3>1. CASE RejoinParty(q) \/ ConnectionDisconnected(q) \/ PartyWaits(q) \/ DestroyParty(q)
            BY <2>1, <3>1, Zenon DEF RejoinParty, ConnectionDisconnected, PartyWaits, DestroyParty
        <3>2. ASSUME NEW start, NEW last, ReqGameStep(q, start, last) PROVE [Log!Next]_(Log!vars)
            BY <2>2, <3>2, Zenon DEF ReqGameStep
        <3>. QED
            BY <2>5, <3>1, <3>2, Zenon DEF Party
    <2>. QED
        BY <1>2, <2>3, <2>4, <2>5, Zenon DEF Next, Compose
<1>. QED
    BY <1>1, <1>2, AlwaysIInv, PTL DEF Spec, ImplementsStepLog, Log!Spec
=============================================================================
