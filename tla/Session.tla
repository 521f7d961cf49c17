------------------------------- MODULE Session -------------------------------
(***************************************************************************)
(* Who is connected, and to which party: the transport connections and     *)
(* their free list (server.c, req_connect.c, transport_connection.c), the  *)
(* party places (local_parties.c) and the joins that tie one to the other  *)
(* (req_game_join.c).  Connections and places are array indices, as in the *)
(* code.  When a party's quality fails, or its wait ends, is up to module  *)
(* LocalParty; here either can happen at any tick.  Whether a participant  *)
(* is free is up to module AuthoritativeSteps; here a join may lack one.   *)
(***************************************************************************)
EXTENDS Integers, Sequences, FiniteSets

CONSTANTS
    ConnectionCount,    \* NIMBLE_NIMBLE_SERVER_MAX_TRANSPORT_CONNECTIONS, and
                        \* the size of the circular buffer of free ones
    PartyCapacity,      \* localParties.capacityCount
    RequestIds,         \* the ids that clients give their connect requests
    MaxPartiesCount     \* bound: partiesCount is only ever raised up to it

ASSUME ConnectionCountAssumption == ConnectionCount \in Nat \ {0}
ASSUME PartyCapacityAssumption ==
    PartyCapacity \in Nat \ {0} /\ PartyCapacity <= ConnectionCount
ASSUME RequestIdsAssumption == RequestIds \subseteq Nat
ASSUME MaxPartiesCountAssumption ==
    MaxPartiesCount \in Nat /\ MaxPartiesCount >= PartyCapacity

Connections == 0..(ConnectionCount - 1)
Parties == 0..(PartyCapacity - 1)
None == -1      \* a NULL pointer
Wild == -2      \* a pointer that was never assigned, or not to a party
Unset == -3     \* a field that was never assigned

VARIABLES
    connUsed,           \* the connections with isUsed
    transportIndex,     \* of each connection
    requestId,          \* connectedFromConnectRequestId of each connection
    connId,             \* id of each connection
    assignedParty,      \* of each connection
    freeTransportConnectionList,
    partyUsed,          \* the party places with isUsed
    partyState,         \* "Normal", "WaitingForReJoin" or "Dissolved"
    hasParticipant,     \* the places with a participantReferenceCount of 1
    transportConnection,\* of each place
    partiesCount,
    reported            \* history: the host has called
                        \* nimbleServerConnectionConnected

connVars == <<connUsed, transportIndex, requestId, connId>>
partyVars == <<partyUsed, partyState, hasParticipant, transportConnection, partiesCount>>
vars == <<connVars, assignedParty, freeTransportConnectionList, partyVars, reported>>

PartyStates == {"Normal", "WaitingForReJoin", "Dissolved"}

\* Every variable keeps to its type; the free list never outgrows its buffer.
TypeOK ==
    /\ connUsed \subseteq Connections
    /\ transportIndex \in [Connections -> Connections \cup {Unset}]
    /\ requestId \in [Connections -> RequestIds \cup {0, Unset}]
    /\ connId \in [Connections -> Connections \cup {Unset}]
    /\ assignedParty \in [Connections -> Parties \cup {None, Wild}]
    /\ freeTransportConnectionList \in Seq(Connections)
    /\ Len(freeTransportConnectionList) <= ConnectionCount
    /\ partyUsed \subseteq Parties
    /\ partyState \in [Parties -> PartyStates]
    /\ hasParticipant \subseteq Parties
    /\ transportConnection \in [Parties -> Connections \cup {None}]
    /\ partiesCount \in 0..MaxPartiesCount
    /\ reported \in BOOLEAN

\* nimbleServerInit: connection 0 is not put on the free list.
Init ==
    /\ connUsed = {}
    /\ transportIndex = [c \in Connections |-> Unset]
    /\ requestId = [c \in Connections |-> Unset]
    /\ connId = [c \in Connections |-> Unset]
    /\ assignedParty = [c \in Connections |-> None]
    /\ freeTransportConnectionList = [i \in 1..(ConnectionCount - 1) |-> i]
    /\ partyUsed = {}
    /\ partyState = [q \in Parties |-> "Normal"]
    /\ hasParticipant = {}
    /\ transportConnection = [q \in Parties |-> None]
    /\ partiesCount = 0
    /\ reported = FALSE

-----------------------------------------------------------------------------
(* Transport connections *)

\* Mutant: the buffer grows instead of wrapping.
WriteFreeUnbounded(list, c) == Append(list, c)

\* nimbleServerCircularBufferWrite: a write to a full buffer leaves only it.
WriteFree(list, c) ==
    IF Len(list) = ConnectionCount THEN <<c>> ELSE Append(list, c)

\* The start of nimbleServerFeed: a datagram from transport c opens connection
\* c when it is unused, and is refused when c was given to another transport.
\* The party the connection is assigned to is left as it was:
\* transportConnectionInit does not touch it.
Accepts(c) == c \in connUsed => transportIndex[c] = c
Opened(c, field, value) ==
    IF c \in connUsed THEN field ELSE [field EXCEPT ![c] = value]
Open(c) ==
    /\ Accepts(c)
    /\ connUsed' = connUsed \cup {c}
    /\ transportIndex' = Opened(c, transportIndex, c)
    /\ requestId' = Opened(c, requestId, 0)
    /\ connId' = Opened(c, connId, c)

\* A datagram whose commands change nothing here, or that is discarded as out
\* of order: only the connection is opened.
Feed(c) ==
    /\ c \notin connUsed
    /\ Open(c)
    /\ UNCHANGED <<assignedParty, freeTransportConnectionList, partyVars, reported>>

\* Mutant: the loop ends one connection early.
ExistingRequestMissesLast(c, r) ==
    LET index == Opened(c, transportIndex, c)
        ids == Opened(c, requestId, 0)
    IN  {d \in (connUsed \cup {c}) \ {ConnectionCount - 1} : index[d] = c /\ ids[d] = r}

\* findExistingConnectionRequest, after the datagram has opened connection c.
\* A connection that a datagram opens has request id 0, so a request with this
\* id is taken for a repeated one that was given connection c.
ExistingRequest(c, r) ==
    LET index == Opened(c, transportIndex, c)
        ids == Opened(c, requestId, 0)
    IN  {d \in connUsed \cup {c} : index[d] = c /\ ids[d] = r}

\* nimbleServerReqConnect finds the request, or no free connection: the client
\* is answered with the connection it has, or not at all.
ReqConnectAgain(c, r) ==
    /\ Open(c)
    /\ \/ ExistingRequest(c, r) # {}
       \/ freeTransportConnectionList = <<>>
    /\ UNCHANGED <<assignedParty, freeTransportConnectionList, partyVars, reported>>

\* Mutant: the connection gets the id of the transport, not its own.
TakeConnectionForeignId(c, r, d) ==
    /\ connUsed' = connUsed \cup {c, d}
    /\ transportIndex' = [Opened(c, transportIndex, c) EXCEPT ![d] = c]
    /\ requestId' = [Opened(c, requestId, 0) EXCEPT ![d] = r]
    /\ connId' = [Opened(c, connId, c) EXCEPT ![d] = c]

\* Connection d, read from the free list, is given to the request, also when
\* it is in use: the code logs that and goes on.
TakeConnection(c, r, d) ==
    /\ connUsed' = connUsed \cup {c, d}
    /\ transportIndex' = [Opened(c, transportIndex, c) EXCEPT ![d] = c]
    /\ requestId' = [Opened(c, requestId, 0) EXCEPT ![d] = r]
    /\ connId' = [Opened(c, connId, c) EXCEPT ![d] = d]

\* nimbleServerReqConnect for a request that is new
ReqConnect(c, r) ==
    /\ Accepts(c)
    /\ ExistingRequest(c, r) = {}
    /\ freeTransportConnectionList # <<>>
    /\ TakeConnection(c, r, Head(freeTransportConnectionList))
    /\ freeTransportConnectionList' = Tail(freeTransportConnectionList)
    /\ UNCHANGED <<assignedParty, partyVars, reported>>

\* nimbleServerConnectionConnected marks the connection as used and sets no
\* other field; those that were never set hold whatever the memory held.
ConnectionConnected(c) ==
    /\ c \notin connUsed
    /\ connUsed' = connUsed \cup {c}
    /\ IF transportIndex[c] # Unset
       THEN UNCHANGED <<transportIndex, requestId, connId>>
       ELSE \E t \in Connections, r \in RequestIds \cup {0}, i \in Connections :
              /\ transportIndex' = [transportIndex EXCEPT ![c] = t]
              /\ requestId' = [requestId EXCEPT ![c] = r]
              /\ connId' = [connId EXCEPT ![c] = i]
    /\ reported' = TRUE
    /\ UNCHANGED <<assignedParty, freeTransportConnectionList, partyVars>>

-----------------------------------------------------------------------------
(* Parties *)

\* nimbleServerLocalPartiesFindPartyForTransport: the loop ends at the number
\* of parties, not at the number of places.
PartyForTransport(c) ==
    {q \in partyUsed : q < partiesCount /\ transportConnection[q] = c}

\* Past the last place the loop reads memory that holds no party.
LoopLeavesTheArray(c) == PartyForTransport(c) = {} /\ partiesCount > PartyCapacity

IsFirstOf(q, S) == q \in S /\ \A r \in S : q <= r

\* nimbleServerLocalPartyReInit
ReInit(q, c) ==
    /\ partyState' = [partyState EXCEPT ![q] = "Normal"]
    /\ transportConnection' = [transportConnection EXCEPT ![q] = c]

\* joinLocalParty: the connection has a party, whatever the request says.
JoinAgain(c) ==
    /\ Open(c)
    /\ \E q \in Parties : /\ IsFirstOf(q, PartyForTransport(c))
                          /\ assignedParty' = [assignedParty EXCEPT ![c] = q]
    /\ UNCHANGED <<freeTransportConnectionList, partyVars, reported>>

\* joinLocalParty takes memory past the last place for the party.
JoinPastTheEnd(c) ==
    /\ LoopLeavesTheArray(c)
    /\ Open(c)
    /\ assignedParty' = [assignedParty EXCEPT ![c] = Wild]
    /\ UNCHANGED <<freeTransportConnectionList, partyVars, reported>>

\* Mutant: the party is not counted.
CreateUncounted(c, q) ==
    /\ partyUsed' = partyUsed \cup {q}
    /\ hasParticipant' = hasParticipant \cup {q}
    /\ ReInit(q, c)
    /\ UNCHANGED partiesCount

\* nimbleServerLocalPartiesCreate and addParty, with a participant available
Create(c, q) ==
    /\ partyUsed' = partyUsed \cup {q}
    /\ hasParticipant' = hasParticipant \cup {q}
    /\ ReInit(q, c)
    /\ partiesCount' = partiesCount + 1

\* joinLocalParty without a secret, in the first free place.  (With no place
\* or no participant the request is refused: Feed.)
Join(c) ==
    /\ PartyForTransport(c) = {}
    /\ partiesCount < MaxPartiesCount
    /\ Open(c)
    /\ \E q \in Parties : /\ IsFirstOf(q, Parties \ partyUsed)
                          /\ Create(c, q)
                          /\ assignedParty' = [assignedParty EXCEPT ![c] = q]
    /\ UNCHANGED <<freeTransportConnectionList, reported>>

\* joinLocalParty with the secret of party q.  Whether the place is in use, or
\* still holds the party the secret was given to, is not asked.
JoinWithSecret(c, q) ==
    /\ PartyForTransport(c) = {}
    /\ q \in hasParticipant
    /\ Open(c)
    /\ ReInit(q, c)
    /\ assignedParty' = [assignedParty EXCEPT ![c] = q]
    /\ UNCHANGED <<freeTransportConnectionList, partyUsed, hasParticipant, partiesCount,
                   reported>>

\* A secret is only held by a client whose party was in the place.
EverUsed(q) == partyState[q] # "Normal" \/ transportConnection[q] # None

\* joinLocalParty with the secret of a place without participants returns
\* success and no party; nimbleServerReqGameJoin goes on with the pointer it
\* never assigned.
JoinWithLostSecret(c, q) ==
    /\ PartyForTransport(c) = {}
    /\ EverUsed(q)
    /\ q \notin hasParticipant
    /\ Open(c)
    /\ assignedParty' = [assignedParty EXCEPT ![c] = Wild]
    /\ UNCHANGED <<freeTransportConnectionList, partyVars, reported>>

-----------------------------------------------------------------------------
(* The host: ticks, disconnects, a new game *)

\* tickParties, for one party in "Normal": its connection quality has failed.
TickGoesWaiting(q) ==
    /\ q \in partyUsed
    /\ partyState[q] = "Normal"
    /\ partyState' = [partyState EXCEPT ![q] = "WaitingForReJoin"]
    /\ UNCHANGED <<connVars, assignedParty, freeTransportConnectionList, partyUsed,
                   hasParticipant, transportConnection, partiesCount, reported>>

\* destroyParty: nimbleServerLocalPartiesRemove resets the place, which keeps
\* its connection.
DestroyParty(q) ==
    /\ partyState' = [partyState EXCEPT ![q] = "Dissolved"]
    /\ partyUsed' = partyUsed \ {q}
    /\ hasParticipant' = hasParticipant \ {q}
    /\ partiesCount' = partiesCount - 1
    /\ UNCHANGED transportConnection

\* disconnectTransportConnection, if the party has a connection
DisconnectTransportConnection(c) ==
    IF c = None
    THEN UNCHANGED <<connUsed, freeTransportConnectionList>>
    ELSE /\ freeTransportConnectionList' = WriteFree(freeTransportConnectionList, connId[c])
         /\ connUsed' = connUsed \ {c}

\* tickParties, for one party whose wait for a rejoin has ended
TickDissolves(q) ==
    /\ q \in partyUsed
    /\ partyState[q] = "WaitingForReJoin"
    /\ DestroyParty(q)
    /\ DisconnectTransportConnection(transportConnection[q])
    /\ UNCHANGED <<transportIndex, requestId, connId, assignedParty, reported>>

\* nimbleServerConnectionDisconnected takes the index of the connection for
\* the index of a party, and frees that place.
ConnectionDisconnected(c) ==
    /\ c \in partyUsed
    /\ partyUsed' = partyUsed \ {c}
    /\ UNCHANGED <<connVars, assignedParty, freeTransportConnectionList, partyState,
                   hasParticipant, transportConnection, partiesCount, reported>>

\* nimbleServerReInitWithGame: nimbleServerLocalPartiesReset frees all places
\* and leaves their number.
ReInitWithGame ==
    /\ partyUsed' = {}
    /\ hasParticipant' = {}
    /\ UNCHANGED <<connVars, assignedParty, freeTransportConnectionList, partyState,
                   transportConnection, partiesCount, reported>>

\* nimbleServerHostMigration frees all places and prepares the first n, or
\* stops there because a participant or a place is missing.
HostMigration(n) ==
    /\ partiesCount + n <= MaxPartiesCount
    /\ partyUsed' = 0..(n - 1)
    /\ hasParticipant' = 0..(n - 1)
    /\ partyState' = [q \in Parties |-> IF q < n THEN "WaitingForReJoin" ELSE partyState[q]]
    /\ transportConnection' =
          [q \in Parties |-> IF q < n THEN None ELSE transportConnection[q]]
    /\ partiesCount' = partiesCount + n
    /\ UNCHANGED <<connVars, assignedParty, freeTransportConnectionList, reported>>

Next ==
    \/ \E c \in Connections : \/ Feed(c) \/ ConnectionConnected(c)
                              \/ JoinAgain(c) \/ JoinPastTheEnd(c) \/ Join(c)
                              \/ ConnectionDisconnected(c)
    \/ \E c \in Connections, r \in RequestIds : ReqConnectAgain(c, r) \/ ReqConnect(c, r)
    \/ \E c \in Connections, q \in Parties : JoinWithSecret(c, q) \/ JoinWithLostSecret(c, q)
    \/ \E q \in Parties : TickGoesWaiting(q) \/ TickDissolves(q)
    \/ ReInitWithGame
    \/ \E n \in 1..PartyCapacity : HostMigration(n)

Spec == Init /\ [][Next]_vars

-----------------------------------------------------------------------------
(* Properties *)

\* partiesCount is never below the number of places in use, so that
\* nimbleServerLocalPartiesRemove ("parties count is wrong") never takes one
\* from zero.  It may well be above: nimbleServerConnectionDisconnected and
\* nimbleServerLocalPartiesReset free places and do not count them.
PartiesAreCounted == Cardinality(partyUsed) <= partiesCount

\* The id that tickParties writes to the free list when a party is dissolved
\* is that of the party's own connection, also when the connection was opened
\* by a first datagram or has since been given to another transport; unless
\* the host reports connects, which leaves the ids of connections unset.
PartyConnectionKnowsItself ==
    ~reported =>
        \A q \in partyUsed :
            transportConnection[q] # None =>
                connId[transportConnection[q]] = transportConnection[q]

\* A connect request that is sent again gets the connection that it was given
\* before: no two connections in use have the same transport and request id
\* (findExistingConnectionRequest), unless the host reports connects.  The id 0
\* is an exception: it is also the id of a connection that a datagram opened
\* (server.c:161).  When a transport's own connection is dissolved and opened
\* again, it has the id of a request that was given another connection, and
\* that request, sent again, may be answered with either.  No third connection
\* ever has the same transport and id.
ConnectRequestsAreServedOnce ==
    ~reported =>
        \A d, e \in connUsed :
            transportIndex[d] = transportIndex[e] /\ requestId[d] = requestId[e]
                => d = e \/ (requestId[d] = 0 /\ transportIndex[d] \in {d, e})

\* What nimbleServerReqConnect logs as an error never happens to a host that
\* reports no connects: "the transport index from free list was not free".
FreeConnectionIsFree ==
    ~reported /\ freeTransportConnectionList # <<>>
        => Head(freeTransportConnectionList) \notin connUsed

\* A client that asks to rejoin a party that has "probably timed out" gets a
\* new party; nimbleServerReqGameJoin never goes on without one.
LateRejoinGetsAParty == ~reported => \A c \in Connections : assignedParty[c] # Wild
=============================================================================
