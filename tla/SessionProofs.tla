---------------------------- MODULE SessionProofs ----------------------------
(***************************************************************************)
(* Proofs about module Session, for every number of connections and party  *)
(* places.                                                                 *)
(***************************************************************************)
EXTENDS Session, FiniteSetTheorems, TLAPS

-----------------------------------------------------------------------------
(* The number of parties.                                                  *)

Counted ==
    /\ partyUsed \subseteq Parties
    /\ partiesCount \in Nat
    /\ PartiesAreCounted

\* The places are a finite set, and so are those in use.
LEMMA PlacesFinite ==
    /\ IsFiniteSet(Parties)
    /\ \A S \in SUBSET Parties : IsFiniteSet(S) /\ Cardinality(S) \in Nat
<1>1. IsFiniteSet(Parties)
  BY PartyCapacityAssumption, FS_Interval DEF Parties
<1>2. ASSUME NEW S \in SUBSET Parties PROVE IsFiniteSet(S) /\ Cardinality(S) \in Nat
  BY <1>1, FS_Subset, FS_CardinalityType
<1>. QED
  BY <1>1, <1>2

\* Freeing places, counted or not, never makes the number too small, as long
\* as it is lowered for a place in use only.
LEMMA FewerPlaces ==
    ASSUME Counted, NEW S \in SUBSET partyUsed
    PROVE  Cardinality(S) <= partiesCount
<1>1. IsFiniteSet(partyUsed) /\ IsFiniteSet(S)
  BY PlacesFinite DEF Counted
<1>2. Cardinality(S) <= Cardinality(partyUsed)
  BY <1>1, FS_Subset
<1>3. Cardinality(S) \in Nat /\ Cardinality(partyUsed) \in Nat
  BY <1>1, FS_CardinalityType
<1>. QED
  BY <1>2, <1>3 DEF Counted, PartiesAreCounted

\* Every step keeps the number of parties at or above the places in use.
LEMMA NextCounted == Counted /\ [Next]_vars => Counted'
<1>. SUFFICES ASSUME Counted, [Next]_vars PROVE Counted'
  OBVIOUS
<1>. USE DEF Counted
<1>1. ASSUME NEW S \in SUBSET partyUsed, partyUsed' = S, partiesCount' = partiesCount
      PROVE  Counted'
  BY <1>1, FewerPlaces DEF PartiesAreCounted
<1>2. ASSUME UNCHANGED <<partyUsed, partiesCount>> PROVE Counted'
  BY <1>1, <1>2
<1>3. ASSUME NEW c \in Connections, Join(c) PROVE Counted'
  <2>1. PICK q \in Parties : q \notin partyUsed /\ Create(c, q)
    BY <1>3 DEF Join, IsFirstOf
  <2>2. Cardinality(partyUsed \cup {q}) = Cardinality(partyUsed) + 1
    BY <2>1, PlacesFinite, FS_AddElement
  <2>3. Cardinality(partyUsed) \in Nat
    BY PlacesFinite
  <2>. QED
    BY <2>1, <2>2, <2>3 DEF Create, PartiesAreCounted
<1>4. ASSUME NEW q \in Parties, TickDissolves(q) PROVE Counted'
  <2>1. q \in partyUsed /\ partyUsed' = partyUsed \ {q} /\ partiesCount' = partiesCount - 1
    BY <1>4 DEF TickDissolves, DestroyParty
  <2>2. Cardinality(partyUsed \ {q}) = Cardinality(partyUsed) - 1
    BY <2>1, PlacesFinite, FS_RemoveElement
  <2>3. Cardinality(partyUsed) \in Nat /\ Cardinality(partyUsed \ {q}) \in Nat
    BY PlacesFinite
  <2>. QED
    BY <2>1, <2>2, <2>3 DEF PartiesAreCounted
<1>5. ASSUME NEW n \in 1..PartyCapacity, HostMigration(n) PROVE Counted'
  <2>1. partyUsed' = 0..(n - 1) /\ partiesCount' = partiesCount + n
    BY <1>5 DEF HostMigration
  <2>2. Cardinality(0..(n - 1)) = n
    BY FS_Interval, PartyCapacityAssumption
  <2>3. 0..(n - 1) \subseteq Parties
    BY PartyCapacityAssumption DEF Parties
  <2>. QED
    BY <2>1, <2>2, <2>3, PartyCapacityAssumption DEF PartiesAreCounted
<1>6. ASSUME NEW c \in Connections,
             Feed(c) \/ ConnectionConnected(c) \/ JoinAgain(c) \/ JoinPastTheEnd(c)
      PROVE  Counted'
  BY <1>2, <1>6 DEF Feed, ConnectionConnected, JoinAgain, JoinPastTheEnd, partyVars
<1>7. ASSUME NEW c \in Connections, ConnectionDisconnected(c) PROVE Counted'
  <2>1. partyUsed' = partyUsed \ {c} /\ partiesCount' = partiesCount
    BY <1>7 DEF ConnectionDisconnected
  <2>. QED
    BY <1>1, <2>1
<1>8. ASSUME NEW c \in Connections, NEW r \in RequestIds, ReqConnectAgain(c, r) \/ ReqConnect(c, r)
      PROVE  Counted'
  BY <1>2, <1>8 DEF ReqConnectAgain, ReqConnect, partyVars
<1>9. ASSUME NEW c \in Connections, NEW q \in Parties,
             JoinWithSecret(c, q) \/ JoinWithLostSecret(c, q)
      PROVE  Counted'
  BY <1>2, <1>9 DEF JoinWithSecret, JoinWithLostSecret, partyVars
<1>10. ASSUME NEW q \in Parties, TickGoesWaiting(q) PROVE Counted'
  BY <1>2, <1>10 DEF TickGoesWaiting
<1>11. CASE ReInitWithGame
  <2>1. partyUsed' = {} /\ partiesCount' = partiesCount
    BY <1>11 DEF ReInitWithGame
  <2>. QED
    BY <1>1, <2>1
<1>12. CASE UNCHANGED vars
  BY <1>2, <1>12 DEF vars, partyVars
<1>. QED
  BY <1>3, <1>4, <1>5, <1>6, <1>7, <1>8, <1>9, <1>10, <1>11, <1>12 DEF Next

\* nimbleServerLocalPartiesRemove always finds the party it removes counted,
\* for every number of places: "parties count is wrong" is never asserted
\* (local_parties.c:222).
THEOREM RemoveFindsItCounted == Spec => []PartiesAreCounted
<1>1. Init => Counted
  BY FS_EmptySet DEF Init, Counted, PartiesAreCounted
<1>2. Counted => PartiesAreCounted
  BY DEF Counted
<1>. QED
  BY <1>1, <1>2, NextCounted, PTL DEF Spec

-----------------------------------------------------------------------------
(* The connections.  Connection records that are only opened by datagrams  *)
(* and by connect requests are always fully initialised.                   *)

Identified ==
    /\ connUsed \subseteq Connections
    /\ transportIndex \in [Connections -> Connections \cup {Unset}]
    /\ requestId \in [Connections -> RequestIds \cup {0, Unset}]
    /\ connId \in [Connections -> Connections \cup {Unset}]
    /\ freeTransportConnectionList \in Seq(Connections)
    /\ \A d \in connUsed : connId[d] = d

PartiesIdentified ==
    /\ transportConnection \in [Parties -> Connections \cup {None}]
    /\ \A q \in Parties : transportConnection[q] # None =>
                             connId[transportConnection[q]] = transportConnection[q]

\* Two connections have the same transport and request id only when the id is
\* 0 and one of them is the transport's own.
Distinct ==
    \A d, e \in connUsed :
        transportIndex[d] = transportIndex[e] /\ requestId[d] = requestId[e]
            => d = e \/ (requestId[d] = 0 /\ transportIndex[d] \in {d, e})

Served == Identified /\ PartiesIdentified /\ Distinct

\* What a datagram's opening of its connection leaves behind
\* (server.c:158-169).
LEMMA OpenIdentifies ==
    ASSUME Identified, NEW c \in Connections, Open(c),
           freeTransportConnectionList' = freeTransportConnectionList
    PROVE  /\ Identified'
           /\ connId'[c] = c
           /\ \A d \in Connections : connId[d] = d => connId'[d] = d
BY DEF Open, Opened, Accepts, Identified

\* An opened connection has request id 0 and is its transport's own, so it is
\* like no other that a request with another id was given (server.c:158-169).
LEMMA OpenDistinct ==
    ASSUME Identified, Distinct, NEW c \in Connections, Open(c)
    PROVE  Distinct'
<1>1. CASE c \in connUsed
  <2>1. UNCHANGED <<connUsed, transportIndex, requestId>>
    BY <1>1 DEF Open, Opened
  <2>. QED
    BY <2>1 DEF Distinct
<1>2. CASE c \notin connUsed
  <2>1. /\ connUsed' = connUsed \cup {c}
        /\ transportIndex'[c] = c /\ requestId'[c] = 0
        /\ \A d \in connUsed : transportIndex'[d] = transportIndex[d] /\ requestId'[d] = requestId[d]
    BY <1>2 DEF Open, Opened, Identified
  <2>. QED
    BY <1>2, <2>1 DEF Distinct
<1>. QED
  BY <1>1, <1>2

\* A new request takes a connection that then knows its own id, whoever had
\* it before (req_connect.c:60-73).
LEMMA RequestIdentifies ==
    ASSUME Identified, NEW c \in Connections, NEW r \in RequestIds, ReqConnect(c, r)
    PROVE  /\ Identified'
           /\ \A d \in Connections : connId[d] = d => connId'[d] = d
<1>. DEFINE d == Head(freeTransportConnectionList)
<1>1. d \in Connections /\ Tail(freeTransportConnectionList) \in Seq(Connections)
  BY DEF ReqConnect, Identified
<1>. HIDE DEF d
<1>2. /\ TakeConnection(c, r, d)
      /\ freeTransportConnectionList' = Tail(freeTransportConnectionList)
  BY DEF ReqConnect, d
<1>. QED
  BY <1>1, <1>2 DEF TakeConnection, Opened, Identified

\* A new request gets the only connection with its transport and id, since
\* none was found (req_connect.c:51-73).
LEMMA RequestDistinct ==
    ASSUME Identified, Distinct, NEW c \in Connections, NEW r \in RequestIds, ReqConnect(c, r)
    PROVE  Distinct'
<1>. DEFINE d == Head(freeTransportConnectionList)
<1>1. d \in Connections
  BY DEF ReqConnect, Identified
<1>. HIDE DEF d
<1>2. TakeConnection(c, r, d)
  BY DEF ReqConnect, d
<1>3. \A e \in connUsed : ~(transportIndex[e] = c /\ requestId[e] = r)
  BY DEF ReqConnect, ExistingRequest, Opened, Identified
<1>4. /\ connUsed' = connUsed \cup {c, d}
      /\ transportIndex'[d] = c /\ requestId'[d] = r
      /\ c # d /\ c \notin connUsed => transportIndex'[c] = c /\ requestId'[c] = 0
      /\ \A e \in connUsed \ {d} : transportIndex'[e] = transportIndex[e] /\ requestId'[e] = requestId[e]
  BY <1>1, <1>2 DEF TakeConnection, Opened, Identified
<1>5. c # d /\ c \notin connUsed => r # 0
  BY DEF ReqConnect, ExistingRequest, Opened, Identified
<1>. QED
  BY <1>3, <1>4, <1>5 DEF Distinct

\* As long as the host reports no connect, every step keeps ids and requests
\* of connections, and the connections of parties, in order.
LEMMA NextServed ==
    ASSUME Served, [Next]_vars, ~reported'
    PROVE  Served'
<1>. USE DEF Served
<1>0. \A c \in Connections : c # None
  BY ConnectionCountAssumption DEF Connections, None
<1>1. ASSUME NEW c \in Connections, Open(c),
             UNCHANGED <<freeTransportConnectionList, transportConnection>>
      PROVE  Served'
  <2>1. Identified' /\ Distinct' /\ \A d \in Connections : connId[d] = d => connId'[d] = d
    BY <1>1, OpenIdentifies, OpenDistinct
  <2>2. PartiesIdentified'
    BY <1>1, <2>1 DEF PartiesIdentified
  <2>. QED
    BY <2>1, <2>2
<1>2. ASSUME NEW c \in Connections, Open(c), NEW q \in Parties, ReInit(q, c),
             UNCHANGED freeTransportConnectionList
      PROVE  Served'
  <2>1. /\ Identified' /\ Distinct' /\ connId'[c] = c
        /\ \A d \in Connections : connId[d] = d => connId'[d] = d
    BY <1>2, OpenIdentifies, OpenDistinct
  <2>2. PartiesIdentified'
    BY <1>0, <1>2, <2>1 DEF PartiesIdentified, ReInit
  <2>. QED
    BY <2>1, <2>2
<1>3. ASSUME UNCHANGED <<connVars, freeTransportConnectionList, transportConnection>>
      PROVE  Served'
  BY <1>3 DEF connVars, Identified, PartiesIdentified, Distinct
<1>4. ASSUME NEW c \in Connections, Feed(c) \/ JoinAgain(c) \/ JoinPastTheEnd(c)
      PROVE  Served'
  BY <1>1, <1>4 DEF Feed, JoinAgain, JoinPastTheEnd, partyVars
<1>5. ASSUME NEW c \in Connections, Join(c)
      PROVE  Served'
  BY <1>2, <1>5 DEF Join, Create
<1>6. ASSUME NEW c \in Connections, ConnectionDisconnected(c) \/ ConnectionConnected(c)
      PROVE  Served'
  BY <1>3, <1>6 DEF ConnectionDisconnected, ConnectionConnected
<1>7. ASSUME NEW c \in Connections, NEW r \in RequestIds, ReqConnectAgain(c, r)
      PROVE  Served'
  BY <1>1, <1>7 DEF ReqConnectAgain, partyVars
<1>8. ASSUME NEW c \in Connections, NEW r \in RequestIds, ReqConnect(c, r)
      PROVE  Served'
  <2>1. Identified' /\ Distinct' /\ \A d \in Connections : connId[d] = d => connId'[d] = d
    BY <1>8, RequestIdentifies, RequestDistinct
  <2>2. transportConnection' = transportConnection
    BY <1>8 DEF ReqConnect, partyVars
  <2>3. PartiesIdentified'
    BY <2>1, <2>2 DEF PartiesIdentified
  <2>. QED
    BY <2>1, <2>3
<1>9. ASSUME NEW c \in Connections, NEW q \in Parties,
             JoinWithSecret(c, q) \/ JoinWithLostSecret(c, q)
      PROVE  Served'
  BY <1>1, <1>2, <1>9 DEF JoinWithSecret, JoinWithLostSecret, partyVars
<1>10. ASSUME NEW q \in Parties, TickGoesWaiting(q)
       PROVE  Served'
  BY <1>3, <1>10 DEF TickGoesWaiting
<1>11. ASSUME NEW q \in Parties, TickDissolves(q)
       PROVE  Served'
  <2>. DEFINE c == transportConnection[q]
  <2>1. /\ UNCHANGED <<transportIndex, requestId, connId, transportConnection>>
        /\ DisconnectTransportConnection(c)
    BY <1>11 DEF TickDissolves, DestroyParty
  <2>2. c # None => c \in Connections /\ connId[c] = c
    BY DEF PartiesIdentified
  <2>3. connUsed' \subseteq connUsed
    BY <2>1 DEF DisconnectTransportConnection
  <2>4. freeTransportConnectionList' \in Seq(Connections)
    <3>1. CASE c = None
      BY <2>1, <3>1 DEF DisconnectTransportConnection, Identified
    <3>2. CASE c # None
      <4>1. freeTransportConnectionList' = WriteFree(freeTransportConnectionList, c)
        BY <2>1, <2>2, <3>2 DEF DisconnectTransportConnection
      <4>2. c \in Connections
        BY <2>2, <3>2
      <4>. HIDE DEF c
      <4>3. <<c>> \in Seq(Connections) /\ Append(freeTransportConnectionList, c) \in Seq(Connections)
        BY <4>2 DEF Identified
      <4>. QED
        BY <4>1, <4>3 DEF WriteFree
    <3>. QED
      BY <3>1, <3>2
  <2>. HIDE DEF c
  <2>. QED
    BY <2>1, <2>3, <2>4 DEF Identified, PartiesIdentified, Distinct
<1>12. CASE ReInitWithGame
  BY <1>3, <1>12 DEF ReInitWithGame
<1>13. ASSUME NEW n \in 1..PartyCapacity, HostMigration(n)
       PROVE  Served'
  <2>1. UNCHANGED <<connUsed, transportIndex, requestId, connId, freeTransportConnectionList>>
    BY <1>13 DEF HostMigration, connVars
  <2>2. PartiesIdentified'
    BY <1>13, <2>1 DEF HostMigration, PartiesIdentified
  <2>. QED
    BY <2>1, <2>2 DEF Identified, Distinct
<1>14. CASE UNCHANGED vars
  BY <1>3, <1>14 DEF vars, partyVars
<1>. QED
  BY <1>4, <1>5, <1>6, <1>7, <1>8, <1>9, <1>10, <1>11, <1>12, <1>13, <1>14 DEF Next

\* A server just initialised has no connection in use and no party with one.
LEMMA InitServed == Init => Served
<1>. SUFFICES ASSUME Init PROVE Served
  OBVIOUS
<1>1. [i \in 1..(ConnectionCount - 1) |-> i] \in Seq(Connections)
  BY ConnectionCountAssumption DEF Connections
<1>. QED
  BY <1>1 DEF Init, Served, Identified, PartiesIdentified, Distinct

\* The history variable only ever goes from FALSE to TRUE.
LEMMA ReportedStays == ASSUME [Next]_vars, ~reported' PROVE ~reported
BY DEF Next, vars, Feed, ConnectionConnected, JoinAgain, JoinPastTheEnd, Join,
       ConnectionDisconnected, ReqConnectAgain, ReqConnect, JoinWithSecret,
       JoinWithLostSecret, TickGoesWaiting, TickDissolves, ReInitWithGame, HostMigration

\* Connections are in order in every state before the first reported connect.
LEMMA AlwaysServed == Spec => [](~reported => Served)
<1>1. Init => (~reported => Served)
  BY InitServed
<1>2. (~reported => Served) /\ [Next]_vars => (~reported => Served)'
  BY NextServed, ReportedStays
<1>. QED
  BY <1>1, <1>2, PTL DEF Spec

\* Whoever opened or took over a connection, the id that is put on the free
\* list with a dissolved party is that of its own connection, for every number
\* of connections (server.c:46-50).
THEOREM FreedConnectionsKnowThemselves == Spec => []PartyConnectionKnowsItself
<1>1. Spec => []Counted
  <2>1. Init => Counted
    BY FS_EmptySet DEF Init, Counted, PartiesAreCounted
  <2>. QED
    BY <2>1, NextCounted, PTL DEF Spec
<1>2. (~reported => Served) /\ Counted => PartyConnectionKnowsItself
  BY DEF Served, PartiesIdentified, Counted, PartyConnectionKnowsItself
<1>. QED
  BY <1>1, <1>2, AlwaysServed, PTL

\* A connect request that is repeated never gets a second connection, for
\* every number of connections and every set of request ids, 0 included; with
\* id 0 it may find the transport's own connection beside the one it was given
\* (req_connect.c:20-34, server.c:158-169).
THEOREM RepeatedRequestsGetTheirConnection == Spec => []ConnectRequestsAreServedOnce
<1>1. (~reported => Served) => ConnectRequestsAreServedOnce
  BY DEF Served, Distinct, ConnectRequestsAreServedOnce
<1>. QED
  BY <1>1, AlwaysServed, PTL

-----------------------------------------------------------------------------
(* Types, for hosts that report connects as well.                          *)

\* The fields of a connection are set together, and every connection in use
\* or that a party has is set.
SetTogether ==
    /\ \A c \in Connections : transportIndex[c] # Unset => connId[c] # Unset
    /\ \A c \in connUsed : connId[c] # Unset
    /\ \A q \in Parties : transportConnection[q] # None =>
                             connId[transportConnection[q]] # Unset

ConnectionsTyped ==
    /\ connUsed \subseteq Connections
    /\ transportIndex \in [Connections -> Connections \cup {Unset}]
    /\ requestId \in [Connections -> RequestIds \cup {0, Unset}]
    /\ connId \in [Connections -> Connections \cup {Unset}]

PartiesTyped ==
    /\ partyUsed \subseteq Parties
    /\ partyState \in [Parties -> PartyStates]
    /\ hasParticipant \subseteq Parties
    /\ transportConnection \in [Parties -> Connections \cup {None}]
    /\ partiesCount \in 0..MaxPartiesCount

AssignedTyped == assignedParty \in [Connections -> Parties \cup {None, Wild}]

FreeListTyped ==
    /\ freeTransportConnectionList \in Seq(Connections)
    /\ Len(freeTransportConnectionList) <= ConnectionCount

Typed ==
    /\ ConnectionsTyped /\ PartiesTyped /\ AssignedTyped /\ FreeListTyped
    /\ SetTogether
    /\ reported \in BOOLEAN

\* Indices are none of the markers.
LEMMA MarkersAreNoIndices ==
    \A c \in Connections : c # None /\ c # Unset
BY ConnectionCountAssumption DEF Connections, None, Unset

\* Opening a connection sets it and unsets none (server.c:158-169).
LEMMA OpenTyped ==
    ASSUME Typed, NEW c \in Connections, Open(c)
    PROVE  /\ ConnectionsTyped' /\ connId'[c] # Unset
           /\ \A d \in Connections : connId[d] # Unset => connId'[d] # Unset
           /\ \A d \in Connections : transportIndex'[d] # Unset => connId'[d] # Unset
           /\ \A d \in connUsed' : connId'[d] # Unset
<1>. USE DEF Typed, ConnectionsTyped, SetTogether
<1>1. CASE c \in connUsed
  <2>1. UNCHANGED <<connUsed, transportIndex, requestId, connId>>
    BY <1>1 DEF Open, Opened
  <2>. QED
    BY <1>1, <2>1
<1>2. CASE c \notin connUsed
  <2>1. /\ connUsed' = connUsed \cup {c}
        /\ transportIndex' = [transportIndex EXCEPT ![c] = c]
        /\ requestId' = [requestId EXCEPT ![c] = 0]
        /\ connId' = [connId EXCEPT ![c] = c]
    BY <1>2 DEF Open, Opened
  <2>2. ConnectionsTyped'
    BY <2>1
  <2>3. connId'[c] = c /\ c # Unset /\ \A d \in Connections \ {c} :
           connId'[d] = connId[d] /\ transportIndex'[d] = transportIndex[d]
    BY <2>1, MarkersAreNoIndices
  <2>. QED
    BY <2>1, <2>2, <2>3
<1>. QED
  BY <1>1, <1>2

\* The first free connection is an index, and the rest of the list a list.
LEMMA FreeListTaken ==
    ASSUME FreeListTyped, freeTransportConnectionList # <<>>
    PROVE  /\ Head(freeTransportConnectionList) \in Connections
           /\ Tail(freeTransportConnectionList) \in Seq(Connections)
           /\ Len(Tail(freeTransportConnectionList)) <= ConnectionCount
<1>1. /\ Tail(freeTransportConnectionList) \in Seq(Connections)
      /\ Len(Tail(freeTransportConnectionList)) = Len(freeTransportConnectionList) - 1
      /\ Head(freeTransportConnectionList) \in Connections
      /\ Len(freeTransportConnectionList) \in Nat
  BY DEF FreeListTyped
<1>. QED
  BY <1>1, ConnectionCountAssumption DEF FreeListTyped

\* nimbleServerCircularBufferWrite never outgrows the buffer.
LEMMA FreeListWritten ==
    ASSUME FreeListTyped, NEW c \in Connections
    PROVE  /\ WriteFree(freeTransportConnectionList, c) \in Seq(Connections)
           /\ Len(WriteFree(freeTransportConnectionList, c)) <= ConnectionCount
<1>1. /\ <<c>> \in Seq(Connections) /\ Len(<<c>>) = 1
      /\ Append(freeTransportConnectionList, c) \in Seq(Connections)
      /\ Len(Append(freeTransportConnectionList, c)) = Len(freeTransportConnectionList) + 1
      /\ Len(freeTransportConnectionList) \in Nat
  BY DEF FreeListTyped
<1>2. CASE Len(freeTransportConnectionList) = ConnectionCount
  BY <1>1, <1>2, ConnectionCountAssumption DEF WriteFree
<1>3. CASE Len(freeTransportConnectionList) # ConnectionCount
  BY <1>1, <1>3, ConnectionCountAssumption DEF WriteFree, FreeListTyped
<1>. QED
  BY <1>2, <1>3

\* Every step keeps the types.
LEMMA NextTyped == ASSUME Typed, Counted, [Next]_vars PROVE Typed'
<1>0. partiesCount' \in Nat
  BY NextCounted DEF Counted
<1>1. ASSUME NEW c \in Connections, Open(c), UNCHANGED transportConnection
      PROVE  ConnectionsTyped' /\ SetTogether'
  BY <1>1, OpenTyped DEF Typed, PartiesTyped, SetTogether
<1>2. ASSUME NEW c \in Connections, Open(c), NEW q \in Parties, ReInit(q, c)
      PROVE  /\ ConnectionsTyped' /\ SetTogether'
             /\ partyState' \in [Parties -> PartyStates]
             /\ transportConnection' \in [Parties -> Connections \cup {None}]
  <2>1. /\ ConnectionsTyped' /\ connId'[c] # Unset
        /\ \A d \in Connections : connId[d] # Unset => connId'[d] # Unset
        /\ \A d \in Connections : transportIndex'[d] # Unset => connId'[d] # Unset
        /\ \A d \in connUsed' : connId'[d] # Unset
    BY <1>2, OpenTyped
  <2>2. /\ transportConnection' = [transportConnection EXCEPT ![q] = c]
        /\ partyState' = [partyState EXCEPT ![q] = "Normal"]
    BY <1>2 DEF ReInit
  <2>3. /\ transportConnection' \in [Parties -> Connections \cup {None}]
        /\ partyState' \in [Parties -> PartyStates]
    BY <2>2 DEF Typed, PartiesTyped, PartyStates
  <2>4. \A p \in Parties : transportConnection'[p] # None => connId'[transportConnection'[p]] # Unset
    BY <2>1, <2>2 DEF Typed, PartiesTyped, SetTogether
  <2>. QED
    BY <2>1, <2>3, <2>4 DEF SetTogether
<1>3. ASSUME UNCHANGED <<connVars, transportConnection>>
      PROVE  ConnectionsTyped' /\ SetTogether'
  BY <1>3 DEF connVars, Typed, ConnectionsTyped, SetTogether
<1>4. ASSUME UNCHANGED partyVars PROVE PartiesTyped'
  BY <1>4 DEF Typed, partyVars, PartiesTyped
<1>5. ASSUME UNCHANGED freeTransportConnectionList PROVE FreeListTyped'
  BY <1>5 DEF Typed, FreeListTyped
<1>6. ASSUME UNCHANGED assignedParty PROVE AssignedTyped'
  BY <1>6 DEF Typed, AssignedTyped
<1>7. ASSUME NEW c \in Connections, NEW q \in Parties \cup {Wild},
             assignedParty' = [assignedParty EXCEPT ![c] = q]
      PROVE  AssignedTyped'
  BY <1>7 DEF Typed, AssignedTyped
<1>8. ASSUME UNCHANGED reported PROVE reported' \in BOOLEAN
  BY <1>8 DEF Typed
<1>. USE DEF Typed
<1>9. ASSUME NEW c \in Connections, Feed(c) PROVE Typed'
  BY <1>1, <1>4, <1>5, <1>6, <1>8, <1>9 DEF Feed, partyVars
<1>10. ASSUME NEW c \in Connections, ConnectionConnected(c) PROVE Typed'
  <2>1. /\ UNCHANGED <<assignedParty, freeTransportConnectionList, partyVars>>
        /\ connUsed' = connUsed \cup {c} /\ reported' = TRUE
    BY <1>10 DEF ConnectionConnected
  <2>2. /\ ConnectionsTyped' /\ connId'[c] # Unset
        /\ \A d \in Connections : connId[d] # Unset => connId'[d] # Unset
        /\ \A d \in Connections : transportIndex'[d] # Unset => connId'[d] # Unset
    <3>1. CASE transportIndex[c] # Unset
      <4>1. UNCHANGED <<transportIndex, requestId, connId>>
        BY <1>10, <3>1 DEF ConnectionConnected
      <4>. QED
        BY <2>1, <3>1, <4>1 DEF ConnectionsTyped, SetTogether
    <3>2. CASE transportIndex[c] = Unset
      <4>1. PICK t \in Connections, r \in RequestIds \cup {0}, i \in Connections :
              /\ transportIndex' = [transportIndex EXCEPT ![c] = t]
              /\ requestId' = [requestId EXCEPT ![c] = r]
              /\ connId' = [connId EXCEPT ![c] = i]
        BY <1>10, <3>2 DEF ConnectionConnected
      <4>2. i # Unset
        BY MarkersAreNoIndices
      <4>. QED
        BY <2>1, <4>1, <4>2 DEF ConnectionsTyped, SetTogether
    <3>. QED
      BY <3>1, <3>2
  <2>3. SetTogether'
    BY <2>1, <2>2 DEF partyVars, SetTogether, ConnectionsTyped, PartiesTyped
  <2>. QED
    BY <1>4, <1>5, <1>6, <2>1, <2>2, <2>3
<1>11. ASSUME NEW c \in Connections, JoinAgain(c) PROVE Typed'
  BY <1>1, <1>4, <1>5, <1>7, <1>8, <1>11 DEF JoinAgain, partyVars
<1>12. ASSUME NEW c \in Connections, JoinPastTheEnd(c) PROVE Typed'
  BY <1>1, <1>4, <1>5, <1>7, <1>8, <1>12 DEF JoinPastTheEnd, partyVars
<1>13. ASSUME NEW c \in Connections, Join(c) PROVE Typed'
  <2>1. PICK q \in Parties : Create(c, q) /\ assignedParty' = [assignedParty EXCEPT ![c] = q]
    BY <1>13 DEF Join
  <2>2. /\ Open(c) /\ partiesCount < MaxPartiesCount
        /\ UNCHANGED <<freeTransportConnectionList, reported>>
    BY <1>13 DEF Join
  <2>3. ConnectionsTyped' /\ SetTogether'
    BY <1>2, <2>1, <2>2 DEF Create
  <2>4. PartiesTyped'
    <3>1. /\ partyState' \in [Parties -> PartyStates]
          /\ transportConnection' \in [Parties -> Connections \cup {None}]
      BY <1>2, <2>1, <2>2 DEF Create
    <3>2. partyUsed' \subseteq Parties /\ hasParticipant' \subseteq Parties
      BY <2>1 DEF Create, PartiesTyped
    <3>3. partiesCount' \in 0..MaxPartiesCount
      BY <2>1, <2>2, MaxPartiesCountAssumption DEF Create, PartiesTyped
    <3>. QED
      BY <3>1, <3>2, <3>3 DEF PartiesTyped
  <2>. QED
    BY <1>5, <1>7, <1>8, <2>1, <2>2, <2>3, <2>4
<1>14. ASSUME NEW c \in Connections, ConnectionDisconnected(c) PROVE Typed'
  <2>1. PartiesTyped'
    BY <1>14 DEF ConnectionDisconnected, PartiesTyped
  <2>. QED
    BY <1>3, <1>5, <1>6, <1>8, <1>14, <2>1 DEF ConnectionDisconnected
<1>15. ASSUME NEW c \in Connections, NEW r \in RequestIds, ReqConnectAgain(c, r) PROVE Typed'
  BY <1>1, <1>4, <1>5, <1>6, <1>8, <1>15 DEF ReqConnectAgain, partyVars
<1>16. ASSUME NEW c \in Connections, NEW r \in RequestIds, ReqConnect(c, r) PROVE Typed'
  <2>. DEFINE d == Head(freeTransportConnectionList)
  <2>1. d \in Connections /\ FreeListTyped'
    BY <1>16, FreeListTaken DEF ReqConnect, FreeListTyped
  <2>. HIDE DEF d
  <2>2. /\ TakeConnection(c, r, d)
        /\ UNCHANGED <<assignedParty, partyVars, reported>>
    BY <1>16 DEF ReqConnect, d
  <2>3. /\ ConnectionsTyped' /\ connId'[d] = d
        /\ c \notin connUsed \/ c = d => connId'[c] = c
        /\ \A e \in Connections \ {c, d} :
              connId'[e] = connId[e] /\ transportIndex'[e] = transportIndex[e]
        /\ c \in connUsed /\ c # d => connId'[c] = connId[c]
    BY <2>1, <2>2 DEF TakeConnection, Opened, ConnectionsTyped
  <2>4. connUsed' = connUsed \cup {c, d}
    BY <2>2 DEF TakeConnection
  <2>5. connId'[c] # Unset /\ connId'[d] # Unset
    BY <2>1, <2>3, MarkersAreNoIndices DEF SetTogether
  <2>6. SetTogether'
    BY <2>2, <2>3, <2>4, <2>5 DEF partyVars, SetTogether, ConnectionsTyped, PartiesTyped
  <2>. QED
    BY <1>4, <1>6, <1>8, <2>1, <2>2, <2>3, <2>6
<1>17. ASSUME NEW c \in Connections, NEW q \in Parties, JoinWithSecret(c, q) PROVE Typed'
  <2>1. PartiesTyped'
    BY <1>2, <1>17 DEF JoinWithSecret, PartiesTyped
  <2>. QED
    BY <1>2, <1>5, <1>7, <1>8, <1>17, <2>1 DEF JoinWithSecret
<1>18. ASSUME NEW c \in Connections, NEW q \in Parties, JoinWithLostSecret(c, q) PROVE Typed'
  BY <1>1, <1>4, <1>5, <1>7, <1>8, <1>18 DEF JoinWithLostSecret, partyVars
<1>19. ASSUME NEW q \in Parties, TickGoesWaiting(q) PROVE Typed'
  <2>1. PartiesTyped'
    BY <1>19 DEF TickGoesWaiting, PartiesTyped, PartyStates
  <2>. QED
    BY <1>3, <1>5, <1>6, <1>8, <1>19, <2>1 DEF TickGoesWaiting
<1>20. ASSUME NEW q \in Parties, TickDissolves(q) PROVE Typed'
  <2>. DEFINE c == transportConnection[q]
  <2>1. /\ UNCHANGED <<transportIndex, requestId, connId, assignedParty, reported, transportConnection>>
        /\ DisconnectTransportConnection(c)
    BY <1>20 DEF TickDissolves, DestroyParty
  <2>2. PartiesTyped'
    <3>1. /\ partyState' = [partyState EXCEPT ![q] = "Dissolved"]
          /\ partyUsed' = partyUsed \ {q} /\ hasParticipant' = hasParticipant \ {q}
          /\ partiesCount' = partiesCount - 1
      BY <1>20 DEF TickDissolves, DestroyParty
    <3>2. partiesCount' \in 0..MaxPartiesCount
      BY <1>0, <3>1, MaxPartiesCountAssumption DEF PartiesTyped
    <3>. QED
      BY <2>1, <3>1, <3>2 DEF PartiesTyped, PartyStates
  <2>3. c # None => c \in Connections /\ connId[c] \in Connections
    BY DEF PartiesTyped, SetTogether, ConnectionsTyped
  <2>4. FreeListTyped' /\ connUsed' \subseteq connUsed
    <3>1. CASE c = None
      BY <1>5, <2>1, <3>1 DEF DisconnectTransportConnection
    <3>2. CASE c # None
      BY <2>1, <2>3, <3>2, FreeListWritten DEF DisconnectTransportConnection, FreeListTyped
    <3>. QED
      BY <3>1, <3>2
  <2>. HIDE DEF c
  <2>5. ConnectionsTyped' /\ SetTogether'
    BY <2>1, <2>4 DEF ConnectionsTyped, SetTogether
  <2>. QED
    BY <1>6, <1>8, <2>1, <2>2, <2>4, <2>5
<1>21. CASE ReInitWithGame
  <2>1. PartiesTyped'
    BY <1>21 DEF ReInitWithGame, PartiesTyped
  <2>. QED
    BY <1>3, <1>5, <1>6, <1>8, <1>21, <2>1 DEF ReInitWithGame
<1>22. ASSUME NEW n \in 1..PartyCapacity, HostMigration(n) PROVE Typed'
  <2>1. /\ UNCHANGED <<connVars, assignedParty, freeTransportConnectionList, reported>>
        /\ partiesCount' = partiesCount + n /\ partiesCount + n <= MaxPartiesCount
    BY <1>22 DEF HostMigration
  <2>2. partiesCount' \in 0..MaxPartiesCount
    BY <1>0, <2>1, MaxPartiesCountAssumption
  <2>3. 0..(n - 1) \subseteq Parties
    BY PartyCapacityAssumption DEF Parties
  <2>4. PartiesTyped'
    BY <1>22, <2>2, <2>3 DEF HostMigration, PartiesTyped, PartyStates
  <2>5. ConnectionsTyped' /\ SetTogether'
    BY <1>22, <2>1 DEF HostMigration, connVars, ConnectionsTyped, SetTogether, PartiesTyped
  <2>. QED
    BY <1>5, <1>6, <1>8, <2>1, <2>4, <2>5
<1>23. CASE UNCHANGED vars
  BY <1>3, <1>4, <1>5, <1>6, <1>8, <1>23 DEF vars, partyVars
<1>. QED
  BY <1>9, <1>10, <1>11, <1>12, <1>13, <1>14, <1>15, <1>16, <1>17, <1>18, <1>19, <1>20,
     <1>21, <1>22, <1>23 DEF Next

\* A server just initialised has its types; connection 0 is not on the list.
LEMMA InitTyped == Init => Typed
<1>. SUFFICES ASSUME Init PROVE Typed
  OBVIOUS
<1>1. FreeListTyped
  BY ConnectionCountAssumption DEF Init, FreeListTyped, Connections
<1>2. PartiesTyped
  BY MaxPartiesCountAssumption DEF Init, PartiesTyped, PartyStates
<1>. QED
  BY <1>1, <1>2 DEF Init, Typed, ConnectionsTyped, AssignedTyped, SetTogether

\* Every variable keeps its type and the free list never outgrows its buffer
\* (circular_buffer.c:16-27), whatever the host reports and for every number
\* of connections and places.
THEOREM SessionIsTyped == Spec => []TypeOK
<1>1. Init => Typed /\ Counted
  BY InitTyped, FS_EmptySet DEF Init, Counted, PartiesAreCounted
<1>2. (Typed /\ Counted) /\ [Next]_vars => (Typed /\ Counted)'
  BY NextTyped, NextCounted
<1>3. Typed /\ Counted => TypeOK
  BY DEF Typed, ConnectionsTyped, PartiesTyped, AssignedTyped, FreeListTyped, TypeOK
<1>. QED
  BY <1>1, <1>2, <1>3, PTL DEF Spec
=============================================================================
