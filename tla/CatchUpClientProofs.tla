------------------------- MODULE CatchUpClientProofs -------------------------
(***************************************************************************)
(* Safety of catching up, for every value of the constants.                *)
(*                                                                         *)
(* Request ids and transfer ids come round again, so what is under way is  *)
(* placed by its distance to the newest id: the times the client has       *)
(* started anew since a request was its own, and the transfers the server  *)
(* has started since a transfer was its own.  The links keep the order, so *)
(* nothing under way is older than the transfer that the client takes part *)
(* in, and the two distances stay below the number of ids.                 *)
(*                                                                         *)
(* Here are the invariants, and the lemmas that the steps of the client,   *)
(* the network and the game keep them.  CatchUpProofs has those about the  *)
(* server, and the theorems.                                               *)
(***************************************************************************)
EXTENDS CatchUp, TLAPS

\* Steps round a ring of count ids from one id to another
Distance(from, to, count) == IF from <= to THEN to - from ELSE to - from + count

\* How often the client has started anew since a request was its own, and how
\* many transfers the server has started since one was its own
Since(id, own) == Distance(id, own, RequestCount)
Age(id, own) == Distance(id, own, ChannelCount)

\* The type invariant, by the parts that the actions change
ServerTyped ==
    /\ gameState \in States /\ gameState.chunks <= Capacity
    /\ blobStreamOutClientRequestId \in 0..RequestCount
    /\ nextBlobStreamOutChannel \in Channels
    /\ blobStreamLogicOut \in [transferId : Channels, state : {gameState},
                               acked : SUBSET (1..gameState.chunks)]
GameTyped ==
    /\ game \in 1..MaxGame
    /\ readId \in 0..MaxStep /\ writeId \in readId..MaxStep /\ writeId - readId <= Window \div 2
ClientTyped ==
    /\ request \in 1..RequestCount
    /\ transfer \in [id : Channels \cup {-1}, request : 0..RequestCount, stepId : 0..MaxStep,
                     chunks : 0..Capacity]
    /\ DOMAIN got \subseteq 1..transfer.chunks /\ \A c \in DOMAIN got : got[c] \in States
    /\ playing \in [game : -1..MaxGame, waiting : 0..MaxStep, missing : SUBSET (0..MaxStep)]
    /\ restarts \in 0..MaxRestarts
LinksTyped ==
    /\ toServer \in Seq(Upward)
    /\ toClient \in Seq(Downward) /\ Len(toClient) <= DownSize
Typed == ServerTyped /\ GameTyped /\ ClientTyped /\ LinksTyped

\* The request that the server has last taken up, seen from the client's
Lag == Since(blobStreamOutClientRequestId, request)

\* The server's request is not older than the client's transfer.
ServerInv ==
    /\ Lag <= restarts + 1
    /\ (Lag = restarts + 1) <=> (blobStreamOutClientRequestId = NoRequest)
    /\ blobStreamOutClientRequestId # NoRequest
          => nextBlobStreamOutChannel = NextChannel(blobStreamLogicOut.transferId)

\* The client's transfer is as old as its restarts, and is the server's when
\* the server has taken up no request since.
TransferInv ==
    /\ transfer = NoTransfer => got = <<>>
    /\ transfer # NoTransfer =>
        /\ transfer.id # NoTransfer.id /\ transfer.request # NoRequest
        /\ Since(transfer.request, request) = restarts
        /\ Age(transfer.id, blobStreamLogicOut.transferId) <= restarts - Lag
        /\ (transfer.id = blobStreamLogicOut.transferId) <=> (restarts = Lag)
    /\ ~IsDownloading => /\ transfer # NoTransfer /\ restarts = 0
                         /\ playing.game # NotPlaying.game

\* A message to the server, seen from the client's request r after n restarts,
\* the server's request b and its transfer t: a request is not older than the
\* server's, and an acknowledgement is not too old.
Sent(m, r, n, b, t) ==
    /\ m.type = "request" => Since(m.id, r) <= n /\ Since(m.id, r) <= Since(b, r)
    /\ m.type = "ack" => Age(m.transferId, t) <= MaxRestarts

\* Only acknowledgements k are behind a message m.
SentAfter(m, k, r, n, b, t) ==
    /\ k.type = "ack"
    /\ m.type = "request" /\ m.id # b => Age(k.transferId, t) <= n - Since(b, r)

\* An acknowledgement never says more than the client has.
AckOK(m, t, tr, chunks) ==
    m.type = "ack" => /\ tr # NoTransfer
                      /\ m.transferId = tr.id => m.chunks \subseteq chunks
                      /\ m.transferId = t => tr.id = t

\* A client that asks for steps plays, or has started anew and the server does
\* not know of that yet.
WishOK(m, n, lag, tr, pl) ==
    m.type = "step" => /\ m.missing = {}
                       /\ tr # NoTransfer
                       /\ n = 0 => pl # NotPlaying /\ m.waiting <= pl.waiting
                       /\ n > 0 => lag > 0

\* A message to the client, seen from its request r after n restarts, the
\* server's lag and its transfer t: none is older than the client's transfer
\* or newer than the server's.
Answered(m, r, n, lag, t) ==
    /\ m.type # "steps" => Age(m.transferId, t) <= n - lag
    /\ m.type = "start" => /\ lag <= Since(m.request, r) /\ Since(m.request, r) <= n
                           /\ (Since(m.request, r) = lag) <=> (m.transferId = t)

\* What follows a start is no older than it, and is not steps if the client
\* waits for that start.
AnsweredAfter(m, k, r, n, lag, t) ==
    m.type = "start" =>
        /\ k.type # "steps" => Age(k.transferId, t) <= Since(m.request, r) - lag
        /\ k.type = "start" => Since(k.request, r) <= Since(m.request, r)
        /\ k.type = "steps" /\ m.request = r => n = 0

\* What is under way of the server's transfer t is of its state, and what is
\* under way of the client's is of the state that the client has.
ContentOK(m, t, state, tr, chunks) ==
    /\ m.type = "start" /\ m.transferId = t => m.stepId = state.stepId /\ m.chunks = state.chunks
    /\ m.type = "chunk" =>
        /\ m.chunk \in 1..m.state.chunks
        /\ m.transferId = t => m.state = state
        /\ m.transferId = tr.id => /\ m.state.stepId = tr.stepId /\ m.state.chunks = tr.chunks
                                   /\ \A c \in DOMAIN chunks : chunks[c] = m.state

SameState(m, k, tr) ==
    m.type = "chunk" /\ k.type = "chunk" /\ m.transferId = tr.id /\ k.transferId = tr.id
        => m.state = k.state

\* Steps begin at or before the one that a client waits for that plays.
StepsOK(m, n, tr, pl) ==
    m.type = "steps" =>
        /\ tr # NoTransfer
        /\ n = 0 => /\ pl # NotPlaying
                    /\ \A s \in m.steps : pl.waiting..s \subseteq m.steps

\* What the client has of a transfer is of one state.
GotInv ==
    /\ transfer # NoTransfer /\ transfer.id = blobStreamLogicOut.transferId
          => /\ transfer.stepId = gameState.stepId /\ transfer.chunks = gameState.chunks
             /\ \A c \in DOMAIN got : got[c] = gameState
    /\ \A c \in DOMAIN got :
          /\ got[c].stepId = transfer.stepId /\ got[c].chunks = transfer.chunks
          /\ \A d \in DOMAIN got : got[c] = got[d]

UpOK(up, r, n, b, t) ==
    /\ \A i \in 1..Len(up) : Sent(up[i], r, n, b, t)
    /\ \A i, j \in 1..Len(up) : i < j => SentAfter(up[i], up[j], r, n, b, t)

UpInv ==
    /\ UpOK(toServer, request, restarts, blobStreamOutClientRequestId, blobStreamLogicOut.transferId)
    /\ \A i \in 1..Len(toServer) :
        /\ AckOK(toServer[i], blobStreamLogicOut.transferId, transfer, DOMAIN got)
        /\ WishOK(toServer[i], restarts, Lag, transfer, playing)

DownOK(down, r, n, lag, t) ==
    /\ \A i \in 1..Len(down) : Answered(down[i], r, n, lag, t)
    /\ \A i, j \in 1..Len(down) : i < j => AnsweredAfter(down[i], down[j], r, n, lag, t)

DownInv ==
    /\ DownOK(toClient, request, restarts, Lag, blobStreamLogicOut.transferId)
    /\ \A i \in 1..Len(toClient) :
        /\ ContentOK(toClient[i], blobStreamLogicOut.transferId, gameState, transfer, got)
        /\ StepsOK(toClient[i], restarts, transfer, playing)
    /\ \A i, j \in 1..Len(toClient) : i < j => SameState(toClient[i], toClient[j], transfer)

\* The inductive invariant
CatchUpInv ==
    /\ Typed
    /\ ServerInv
    /\ TransferInv
    /\ GotInv
    /\ UpInv
    /\ DownInv
    /\ AckedChunksAreReceived
    /\ StepsWithoutGap

-----------------------------------------------------------------------------
(* Ids in a ring, and messages in a link.                                  *)

\* The constants that the proofs use
Assumed ==
    /\ Capacity \in Nat /\ MaxEntries \in Nat \ {0} /\ ChannelCount \in Nat \ {0}
    /\ FirstChannel \in Channels
    /\ MaxRestarts \in Nat \ {0} /\ RequestCount \in Nat
    /\ MaxRestarts < RequestCount /\ MaxRestarts < ChannelCount
    /\ Sizes \subseteq Nat \ {0} /\ MaxStep \in Nat /\ MaxGame \in Nat \ {0} /\ DownSize \in Nat

\* What the assumptions on the constants say, in one fact
LEMMA Constants == Assumed
BY CapacityAssumption, MaxEntriesAssumption, ChannelsAssumption, IdsAssumption, SizesAssumption,
   BoundsAssumption, Zenon DEF Assumed, Channels

\* The distance to an id is below the number of ids, and is zero only for the
\* id itself.
LEMMA RequestDistance ==
    ASSUME NEW id \in 0..RequestCount, NEW to \in 1..RequestCount
    PROVE  /\ Since(id, to) \in Nat
           /\ Since(id, to) = 0 <=> id = to
           /\ id # 0 => Since(id, to) < RequestCount
BY Constants DEF Assumed, Distance, Since, Age

\* So it is for the ids of transfers, which start at zero.
LEMMA ChannelDistance ==
    ASSUME NEW id \in Channels, NEW to \in Channels
    PROVE  /\ Age(id, to) \in Nat /\ Age(id, to) < ChannelCount
           /\ Age(id, to) = 0 <=> id = to
BY Constants DEF Assumed, Distance, Since, Age, Channels

\* With every new request, those before are one further away.
LEMMA NextRequest ==
    ASSUME NEW id \in 0..RequestCount, NEW from \in 1..RequestCount,
           Since(id, from) < RequestCount - (IF id = 0 THEN 0 ELSE 1)
    PROVE  LET to == IF from = RequestCount THEN 1 ELSE from + 1
           IN  Since(id, to) = Since(id, from) + 1
BY Constants DEF Assumed, Distance, Since, Age

\* With every new transfer, those before are one further away.
LEMMA NextTransfer ==
    ASSUME NEW id \in Channels, NEW from \in Channels,
           Age(id, from) < ChannelCount - 1
    PROVE  /\ NextChannel(from) \in Channels
           /\ Age(id, NextChannel(from)) = Age(id, from) + 1
           /\ id # NextChannel(from)
BY Constants DEF Assumed, Distance, Since, Age, Channels, NextChannel

\* What is left when the first message is taken was there before, in the same
\* order.
LEMMA Links ==
    ASSUME NEW D, NEW s \in Seq(D), s # <<>>
    PROVE  /\ Tail(s) \in Seq(D) /\ Len(Tail(s)) = Len(s) - 1 /\ Len(s) \in Nat \ {0}
           /\ Head(s) = s[1] /\ 1 \in 1..Len(s) /\ s[1] \in D
           /\ \A i \in 1..Len(Tail(s)) : \E k \in 1..Len(s) : 1 < k /\ Tail(s)[i] = s[k]
           /\ \A i, j \in 1..Len(Tail(s)) : i < j =>
                \E k, l \in 1..Len(s) : k < l /\ Tail(s)[i] = s[k] /\ Tail(s)[j] = s[l]
<1>1. /\ Tail(s) \in Seq(D) /\ Len(Tail(s)) = Len(s) - 1 /\ Len(s) \in Nat \ {0}
      /\ Head(s) = s[1] /\ 1 \in 1..Len(s) /\ s[1] \in D
      /\ \A i \in 1..Len(Tail(s)) : i + 1 \in 1..Len(s) /\ 1 < i + 1 /\ Tail(s)[i] = s[i + 1]
  OBVIOUS
<1>2. \A i, j \in 1..Len(Tail(s)) : i < j => i + 1 < j + 1
  OBVIOUS
<1>. QED
  BY <1>1, <1>2, Zenon

\* A message of a link, and two of its messages in their order
Among(x, link) == \E k \in 1..Len(link) : x = link[k]
InOrder(x, y, link) == \E k, l \in 1..Len(link) : k < l /\ x = link[k] /\ y = link[l]

\* What is sent stands behind what was there before.
LEMMA Joined ==
    ASSUME NEW s \in Seq(Downward), NEW t \in Seq(Downward), NEW u, u = s \o t
    PROVE  /\ u \in Seq(Downward) /\ Len(u) = Len(s) + Len(t) /\ Len(s) \in Nat /\ Len(t) \in Nat
           /\ \A i \in 1..Len(u) : Among(u[i], s) \/ Among(u[i], t)
           /\ \A i, j \in 1..Len(u) : i < j =>
                \/ InOrder(u[i], u[j], s)
                \/ Among(u[i], s) /\ Among(u[j], t)
                \/ InOrder(u[i], u[j], t)
<1>1. /\ u \in Seq(Downward) /\ Len(u) = Len(s) + Len(t) /\ Len(s) \in Nat /\ Len(t) \in Nat
      /\ \A i \in 1..Len(u) : i \in 1..Len(s) \/ i - Len(s) \in 1..Len(t)
      /\ \A i \in 1..Len(s) : u[i] = s[i]
      /\ \A i \in 1..Len(u) : i - Len(s) \in 1..Len(t) => u[i] = t[i - Len(s)]
  OBVIOUS
<1>2. \A i \in 1..Len(u) : Among(u[i], s) \/ Among(u[i], t)
  BY <1>1, Zenon DEF Among
<1>3. ASSUME NEW i \in 1..Len(u), NEW j \in 1..Len(u), i < j
      PROVE  \/ InOrder(u[i], u[j], s)
             \/ Among(u[i], s) /\ Among(u[j], t)
             \/ InOrder(u[i], u[j], t)
  <2>1. CASE j \in 1..Len(s)
    <3>1. i \in 1..Len(s)
      BY <1>1, <1>3, <2>1
    <3>. QED
      BY <1>1, <1>3, <2>1, <3>1, Zenon DEF InOrder
  <2>2. CASE i \in 1..Len(s) /\ j - Len(s) \in 1..Len(t)
    BY <1>1, <1>3, <2>2, Zenon DEF Among
  <2>3. CASE i - Len(s) \in 1..Len(t) /\ j - Len(s) \in 1..Len(t)
    <3>1. i - Len(s) < j - Len(s)
      BY <1>1, <1>3
    <3>. QED
      BY <1>1, <1>3, <2>3, <3>1, Zenon DEF InOrder
  <2>. QED
    BY <1>1, <1>3, <2>1, <2>2, <2>3, Zenon
<1>. QED
  BY <1>1, <1>2, <1>3, Zenon

\* The fields of a message to the server
LEMMA UpTyped ==
    ASSUME NEW m \in Upward
    PROVE  /\ m.type \in {"request", "ack", "step"}
           /\ m.type = "request" => m.id \in 1..RequestCount
           /\ m.type = "ack" => m.transferId \in Channels /\ m.chunks \subseteq 1..Capacity
           /\ m.type = "step" => m.waiting \in 0..MaxStep /\ m.missing \subseteq 0..MaxStep
BY Zenon DEF Upward

\* The fields of a message to the client
LEMMA DownTyped ==
    ASSUME NEW m \in Downward
    PROVE  /\ m.type \in {"start", "chunk", "steps"}
           /\ m.type # "steps" => m.transferId \in Channels
           /\ m.type = "start" => /\ m.request \in 1..RequestCount
                                  /\ m.stepId \in 0..MaxStep /\ m.chunks \in 0..Capacity
           /\ m.type = "chunk" => m.chunk \in 1..Capacity /\ m.state \in States
           /\ m.type = "steps" => m.steps \subseteq 0..(MaxStep - 1)
BY Zenon DEF Downward

\* The fields of a game state
LEMMA StateTyped ==
    ASSUME NEW state \in States
    PROVE  state.chunks \in Nat /\ state.stepId \in 0..MaxStep /\ state.game \in 0..MaxGame
<1>1. CASE state = NoState
  BY <1>1, Constants DEF NoState, Assumed
<1>2. CASE state \in [game : 1..MaxGame, stepId : 0..MaxStep, chunks : Sizes]
  <2>1. state.game \in 1..MaxGame /\ state.stepId \in 0..MaxStep /\ state.chunks \in Sizes
    BY <1>2, Zenon
  <2>2. state.chunks \in Nat
    BY <2>1, Constants, Zenon DEF Assumed
  <2>3. state.game \in 0..MaxGame
    BY <2>1, Constants DEF Assumed
  <2>. QED
    BY <2>1, <2>2, <2>3, Zenon
<1>. QED
  BY <1>1, <1>2, Zenon DEF States

-----------------------------------------------------------------------------
(* Messages are lost, or taken without effect.                             *)

\* The network loses a message to the client, or the client takes one that is
\* not for it.
LEMMA DroppedDown ==
    ASSUME CatchUpInv, toClient # <<>>, toClient' = Tail(toClient),
           UNCHANGED <<downloadVars, gameVars, toServer, clientVars>>
    PROVE  CatchUpInv'
<1>. USE DEF downloadVars, gameVars, clientVars, CatchUpInv
<1>1. toClient \in Seq(Downward)
  BY Zenon DEF Typed, LinksTyped
<1>2. Typed'
  <2>1. LinksTyped'
    BY <1>1, Links, Constants DEF Typed, LinksTyped, Assumed
  <2>. QED
    BY <2>1, Zenon DEF Typed, ServerTyped, GameTyped, ClientTyped
<1>3. ServerInv' /\ TransferInv' /\ GotInv' /\ UpInv' /\ AckedChunksAreReceived' /\ StepsWithoutGap'
  BY Zenon
     DEF ServerInv, TransferInv, GotInv, UpInv, AckedChunksAreReceived, StepsWithoutGap, Lag, IsDownloading
<1>4. DownInv'
  <2>. DEFINE t == blobStreamLogicOut.transferId
  <2>1. /\ DownOK(toClient, request, restarts, Lag, t)
        /\ \A i \in 1..Len(toClient) : /\ ContentOK(toClient[i], t, gameState, transfer, got)
                                        /\ StepsOK(toClient[i], restarts, transfer, playing)
        /\ \A i, j \in 1..Len(toClient) : i < j => SameState(toClient[i], toClient[j], transfer)
    BY Zenon DEF DownInv
  <2>2. t' = t /\ gameState' = gameState /\ Lag' = Lag
    BY Zenon DEF Lag
  <2>. HIDE DEF CatchUpInv, t
  <2>3. DownOK(toClient', request, restarts, Lag, t)
    BY <1>1, <2>1, Links DEF DownOK
  <2>4. \A i \in 1..Len(toClient') : /\ ContentOK(toClient'[i], t, gameState, transfer, got)
                                     /\ StepsOK(toClient'[i], restarts, transfer, playing)
    BY <1>1, <2>1, Links
  <2>5. \A i, j \in 1..Len(toClient') : i < j => SameState(toClient'[i], toClient'[j], transfer)
    BY <1>1, <2>1, Links
  <2>. QED
    BY <2>2, <2>3, <2>4, <2>5, Zenon DEF DownInv, t
<1>. QED
  BY <1>2, <1>3, <1>4, Zenon

\* The network loses a message to the server.
LEMMA DroppedUp ==
    ASSUME CatchUpInv, toServer # <<>>, toServer' = Tail(toServer),
           UNCHANGED <<downloadVars, gameVars, toClient, clientVars>>
    PROVE  CatchUpInv'
<1>. USE DEF downloadVars, gameVars, clientVars, CatchUpInv
<1>1. toServer \in Seq(Upward)
  BY Zenon DEF Typed, LinksTyped
<1>2. Typed'
  <2>1. LinksTyped'
    BY <1>1, Links, Constants, Zenon DEF Typed, LinksTyped, Assumed
  <2>. QED
    BY <2>1, Zenon DEF Typed, ServerTyped, GameTyped, ClientTyped
<1>3. ServerInv' /\ TransferInv' /\ GotInv' /\ DownInv' /\ AckedChunksAreReceived' /\ StepsWithoutGap'
  <2>1. DownInv'
    BY Zenon DEF DownInv, DownOK, Lag
  <2>. QED
    BY <2>1, Zenon
       DEF ServerInv, TransferInv, GotInv, AckedChunksAreReceived, StepsWithoutGap, Lag, IsDownloading
<1>4. UpInv'
  <2>. DEFINE b == blobStreamOutClientRequestId
              t == blobStreamLogicOut.transferId
  <2>1. /\ UpOK(toServer, request, restarts, b, t)
        /\ \A i \in 1..Len(toServer) : /\ AckOK(toServer[i], t, transfer, DOMAIN got)
                                        /\ WishOK(toServer[i], restarts, Lag, transfer, playing)
    BY Zenon DEF UpInv
  <2>2. b' = b /\ t' = t /\ Lag' = Lag
    BY Zenon DEF Lag
  <2>. HIDE DEF CatchUpInv, b, t
  <2>3. UpOK(toServer', request, restarts, b, t)
    BY <1>1, <2>1, Links DEF UpOK
  <2>4. \A i \in 1..Len(toServer') : /\ AckOK(toServer'[i], t, transfer, DOMAIN got)
                                     /\ WishOK(toServer'[i], restarts, Lag, transfer, playing)
    BY <1>1, <2>1, Links
  <2>. QED
    BY <2>2, <2>3, <2>4, Zenon DEF UpInv, b, t
<1>. QED
  BY <1>2, <1>3, <1>4, Zenon

-----------------------------------------------------------------------------
(* The game goes on.                                                       *)

\* Steps that are discarded and composed keep to the window.
LEMMA WindowKept ==
    ASSUME GameTyped, MakeSteps
    PROVE  GameTyped' /\ writeId \in Nat /\ writeId <= writeId' /\ readId <= readId'
<1>1. readId \in Nat /\ writeId \in Nat /\ readId <= writeId /\ MaxStep \in Nat /\ writeId <= MaxStep
  BY Constants DEF GameTyped, Assumed
<1>2. readId' \in Nat /\ readId <= readId' /\ readId' <= writeId /\ writeId - readId' <= Window \div 2
  BY <1>1, WindowAssumption DEF GameTyped, MakeSteps, DiscardedReadId
<1>3. /\ writeId' \in Nat /\ writeId <= writeId' /\ writeId' <= MaxStep
      /\ writeId' = writeId \/ writeId' - readId' <= Window \div 2
  BY <1>1, <1>2 DEF MakeSteps, ComposedWriteIds
<1>. QED
  BY <1>1, <1>2, <1>3, Constants DEF GameTyped, MakeSteps, Assumed

\* The other clients and the host do not touch the download.
LEMMA GameKeeps ==
    ASSUME CatchUpInv, GameTyped', UNCHANGED <<downloadVars, toServer, toClient, clientVars>>
    PROVE  CatchUpInv'
<1>. USE DEF downloadVars, clientVars, CatchUpInv
<1>1. Typed'
  BY Zenon DEF Typed, ServerTyped, ClientTyped, LinksTyped
<1>2. ServerInv' /\ TransferInv' /\ GotInv' /\ AckedChunksAreReceived' /\ StepsWithoutGap'
  BY DEF ServerInv, TransferInv, GotInv, AckedChunksAreReceived, StepsWithoutGap, Lag, IsDownloading
<1>3. UpInv' /\ DownInv'
  BY Zenon DEF UpInv, DownInv, UpOK, DownOK, Lag
<1>. QED
  BY <1>1, <1>2, <1>3, Zenon

\* Another client's steps keep the invariant: the download is not theirs.
LEMMA OthersPlayKeeps == ASSUME CatchUpInv, OthersPlay PROVE CatchUpInv'
<1>1. GameTyped'
  BY WindowKept, Zenon DEF OthersPlay, CatchUpInv, Typed
<1>. QED
  BY <1>1, GameKeeps, Zenon DEF OthersPlay

\* The client's party comes and goes without the download.
LEMMA PartyKeeps == ASSUME CatchUpInv, ReqGameJoin \/ DestroyParty PROVE CatchUpInv'
<1>1. UNCHANGED <<downloadVars, game, readId, writeId, toServer, toClient, clientVars>>
  BY Zenon DEF ReqGameJoin, DestroyParty
<1>2. GameTyped'
  BY <1>1, Zenon DEF CatchUpInv, Typed, GameTyped
<1>. QED
  BY <1>1, <1>2, GameKeeps, Zenon

\* So does another game: the copy that is sent stays what it was.
LEMMA ReInitKeeps ==
    ASSUME CatchUpInv, NEW stepId \in FirstSteps, ReInitWithGame(stepId) PROVE CatchUpInv'
<1>1. stepId \in 0..MaxStep /\ Window \in Nat
  BY BoundsAssumption, WindowAssumption, Zenon
<1>2. GameTyped'
  BY <1>1, Constants DEF ReInitWithGame, CatchUpInv, Typed, GameTyped, Assumed
<1>. QED
  BY <1>2, GameKeeps, Zenon DEF ReInitWithGame

-----------------------------------------------------------------------------
(* The client asks, and starts anew.                                       *)

\* One request more, and everything before is one further away.
LEMMA RestartDistances ==
    ASSUME Typed, ServerInv, restarts < MaxRestarts, StartAnew
    PROVE  /\ request' \in 1..RequestCount /\ request' # request
           /\ restarts \in Nat /\ restarts' = restarts + 1 /\ restarts' <= MaxRestarts
           /\ Lag \in Nat /\ Lag' = Lag + 1
           /\ \A id \in 1..RequestCount : Since(id, request) <= restarts
                 => Since(id, request') = Since(id, request) + 1
<1>1. /\ request \in 1..RequestCount /\ restarts \in 0..MaxRestarts
      /\ blobStreamOutClientRequestId \in 0..RequestCount
      /\ MaxRestarts \in Nat /\ RequestCount \in Nat /\ MaxRestarts < RequestCount
  BY Constants, Zenon DEF Typed, ClientTyped, ServerTyped, Assumed
<1>2. request' = IF request = RequestCount THEN 1 ELSE request + 1
  BY Zenon DEF StartAnew
<1>3. request' \in 1..RequestCount /\ request' # request
  BY <1>1, <1>2
<1>4. restarts \in Nat /\ restarts' = restarts + 1 /\ restarts' <= MaxRestarts
  BY <1>1 DEF StartAnew
<1>5. ASSUME NEW id \in 1..RequestCount, Since(id, request) <= restarts
      PROVE  Since(id, request') = Since(id, request) + 1
  <2>1. Since(id, request) < RequestCount - 1 /\ id # 0 /\ id \in 0..RequestCount
    BY <1>1, <1>5, RequestDistance
  <2>. QED
    BY <1>1, <1>2, <2>1, NextRequest, Zenon
<1>6. Lag \in Nat
  BY <1>1, RequestDistance, Zenon DEF Lag
<1>7. Lag' = Lag + 1
  <2>1. blobStreamOutClientRequestId' = blobStreamOutClientRequestId
    BY Zenon DEF StartAnew, downloadVars
  <2>2. CASE blobStreamOutClientRequestId = NoRequest
    BY <1>1, <1>2, <2>1, <2>2 DEF Lag, Since, Distance, NoRequest, ServerInv
  <2>3. CASE blobStreamOutClientRequestId # NoRequest
    <3>1. blobStreamOutClientRequestId \in 1..RequestCount /\ Lag <= restarts
      BY <1>1, <1>6, <2>3 DEF ServerInv, NoRequest
    <3>. QED
      BY <1>5, <2>1, <3>1, Zenon DEF Lag
  <2>. QED
    BY <2>2, <2>3, Zenon
<1>. QED
  BY <1>3, <1>4, <1>5, <1>6, <1>7, Zenon

\* What is under way keeps its place among the requests.
LEMMA RestartKeepsLinks ==
    ASSUME CatchUpInv, restarts < MaxRestarts, StartAnew
    PROVE  UpInv' /\ DownInv'
<1>. USE DEF CatchUpInv
<1>. DEFINE b == blobStreamOutClientRequestId
            t == blobStreamLogicOut.transferId
<1>1. /\ restarts \in Nat /\ restarts' = restarts + 1
      /\ Lag \in Nat /\ Lag' = Lag + 1 /\ Lag = Since(b, request) /\ Lag' = Since(b', request')
      /\ \A id \in 1..RequestCount : Since(id, request) <= restarts
             => Since(id, request') = Since(id, request) + 1
  BY RestartDistances, Zenon DEF Lag
<1>2. /\ request \in 1..RequestCount /\ request' \in 1..RequestCount /\ t \in Channels
      /\ toServer \in Seq(Upward) /\ toClient \in Seq(Downward)
  BY RestartDistances, Zenon DEF Typed, ClientTyped, ServerTyped, LinksTyped
<1>3. /\ b' = b /\ t' = t /\ toServer' = toServer /\ toClient' = toClient /\ gameState' = gameState
      /\ transfer' = transfer /\ got' = got /\ playing' = NotPlaying
  BY Zenon DEF StartAnew, downloadVars
<1>. HIDE DEF b, t
<1>4. ASSUME NEW i \in 1..Len(toServer)
      PROVE  /\ Sent(toServer[i], request', restarts', b', t')
             /\ WishOK(toServer[i], restarts', Lag', transfer', playing')
             /\ \A j \in 1..Len(toServer) : i < j
                   => SentAfter(toServer[i], toServer[j], request', restarts', b', t')
  <2>1. toServer[i].type = "request" => /\ toServer[i].id \in 1..RequestCount
                                        /\ toServer[i].id \in 0..RequestCount
    BY <1>2, UpTyped, Constants DEF Assumed
  <2>2. toServer[i].type = "request" => Since(toServer[i].id, request) \in Nat
    BY <1>2, <2>1, RequestDistance, Zenon
  <2>3. Sent(toServer[i], request', restarts', b', t')
    <3>1. Sent(toServer[i], request, restarts, b, t)
      BY Zenon DEF UpInv, UpOK, b, t
    <3>. QED
      BY <1>1, <1>3, <2>1, <2>2, <3>1 DEF Sent
  <2>4. WishOK(toServer[i], restarts', Lag', transfer', playing')
    BY <1>1, <1>3 DEF UpInv, WishOK
  <2>5. ASSUME NEW j \in 1..Len(toServer), i < j
        PROVE  SentAfter(toServer[i], toServer[j], request', restarts', b', t')
    <3>1. SentAfter(toServer[i], toServer[j], request, restarts, b, t)
      BY <2>5, Zenon DEF UpInv, UpOK, b, t
    <3>2. toServer[j].transferId \in Channels
      BY <1>2, <3>1, UpTyped DEF SentAfter
    <3>3. Age(toServer[j].transferId, t) \in Nat
      BY <1>2, <3>2, ChannelDistance, Zenon
    <3>. QED
      BY <1>1, <1>3, <3>1, <3>3 DEF SentAfter
  <2>. QED
    BY <2>3, <2>4, <2>5, Zenon
<1>5. UpInv'
  BY <1>3, <1>4, Zenon DEF UpInv, UpOK, b, t
<1>6. ASSUME NEW i \in 1..Len(toClient)
      PROVE  /\ toClient[i].type # "steps" => Age(toClient[i].transferId, t) \in Nat
             /\ toClient[i].type = "start" => /\ Since(toClient[i].request, request) \in Nat
                                              /\ Since(toClient[i].request, request')
                                                    = Since(toClient[i].request, request) + 1
                                              /\ toClient[i].request # request'
             /\ Answered(toClient[i], request, restarts, Lag, t)
  <2>1. Answered(toClient[i], request, restarts, Lag, t)
    BY Zenon DEF DownInv, DownOK, t
  <2>2. /\ toClient[i].type # "steps" => toClient[i].transferId \in Channels
        /\ toClient[i].type = "start" => /\ toClient[i].request \in 1..RequestCount
                                         /\ toClient[i].request \in 0..RequestCount
    BY <1>2, DownTyped, Constants DEF Assumed
  <2>3. toClient[i].type = "start" => /\ Since(toClient[i].request, request) \in Nat
                                      /\ Since(toClient[i].request, request) <= restarts
                                      /\ toClient[i].request = request'
                                            => Since(toClient[i].request, request') = 0
    BY <1>2, <2>1, <2>2, RequestDistance, Zenon DEF Answered
  <2>4. toClient[i].type # "steps" => Age(toClient[i].transferId, t) \in Nat
    BY <1>2, <2>2, ChannelDistance, Zenon
  <2>. QED
    BY <1>1, <2>1, <2>2, <2>3, <2>4
<1>7. ASSUME NEW i \in 1..Len(toClient)
      PROVE  /\ Answered(toClient[i], request', restarts', Lag', t')
             /\ StepsOK(toClient[i], restarts', transfer', playing')
  <2>1. StepsOK(toClient[i], restarts, transfer, playing)
    BY Zenon DEF DownInv
  <2>. HIDE DEF CatchUpInv
  <2>2. Answered(toClient[i], request', restarts', Lag', t')
    <3>1. /\ toClient[i].type # "steps" => Age(toClient[i].transferId, t) \in Nat
          /\ Answered(toClient[i], request, restarts, Lag, t)
      BY <1>6, Zenon
    <3>2. toClient[i].type = "start" => /\ Since(toClient[i].request, request) \in Nat
                                        /\ Since(toClient[i].request, request')
                                              = Since(toClient[i].request, request) + 1
      BY <1>6, Zenon
    <3>. QED
      BY <1>1, <1>3, <3>1, <3>2 DEF Answered
  <2>3. StepsOK(toClient[i], restarts', transfer', playing')
    BY <1>1, <1>3, <2>1 DEF StepsOK
  <2>. QED
    BY <2>2, <2>3, Zenon
<1>8. ASSUME NEW i \in 1..Len(toClient), NEW j \in 1..Len(toClient), i < j
      PROVE  AnsweredAfter(toClient[i], toClient[j], request', restarts', Lag', t')
  <2>1. AnsweredAfter(toClient[i], toClient[j], request, restarts, Lag, t)
    BY <1>8, Zenon DEF DownInv, DownOK, t
  <2>2. toClient[i].type = "start" => /\ Since(toClient[i].request, request) \in Nat
                                      /\ Since(toClient[i].request, request')
                                            = Since(toClient[i].request, request) + 1
                                      /\ toClient[i].request # request'
    BY <1>6, Zenon
  <2>3. toClient[j].type # "steps" => Age(toClient[j].transferId, t) \in Nat
    BY <1>6, Zenon
  <2>4. toClient[j].type = "start" => /\ Since(toClient[j].request, request) \in Nat
                                      /\ Since(toClient[j].request, request')
                                            = Since(toClient[j].request, request) + 1
    BY <1>6, Zenon
  <2>. HIDE DEF CatchUpInv
  <2>. QED
    <3>1. CASE toClient[i].type # "start"
      BY <3>1, Zenon DEF AnsweredAfter
    <3>2. CASE toClient[i].type = "start"
      BY <1>1, <1>3, <2>1, <2>2, <2>3, <2>4, <3>2 DEF AnsweredAfter
    <3>. QED
      BY <3>1, <3>2, Zenon
<1>9. DownInv'
  BY <1>3, <1>7, <1>8, Zenon DEF DownInv, DownOK, t
<1>. QED
  BY <1>5, <1>9, Zenon

\* The client starts anew.
LEMMA StartAnewKeeps == ASSUME CatchUpInv, restarts < MaxRestarts, StartAnew PROVE CatchUpInv'
<1>. USE DEF CatchUpInv
<1>1. /\ request' \in 1..RequestCount /\ restarts \in Nat /\ restarts' = restarts + 1
      /\ restarts' <= MaxRestarts /\ Lag \in Nat /\ Lag' = Lag + 1
      /\ \A id \in 1..RequestCount : Since(id, request) <= restarts
             => Since(id, request') = Since(id, request) + 1
  BY RestartDistances, Zenon
<1>2. /\ UNCHANGED <<downloadVars, gameVars, toServer, toClient, transfer, got>>
      /\ playing' = NotPlaying
  BY Zenon DEF StartAnew
<1>3. NotPlaying \in [game : -1..MaxGame, waiting : 0..MaxStep, missing : SUBSET (0..MaxStep)]
  BY Constants DEF NotPlaying, Assumed
<1>4. Typed'
  <2>1. ClientTyped'
    BY <1>1, <1>2, <1>3, Constants DEF Typed, ClientTyped, Assumed
  <2>. QED
    BY <1>2, <2>1, Zenon DEF Typed, ServerTyped, GameTyped, LinksTyped, downloadVars, gameVars
<1>5. ServerInv'
  BY <1>1, <1>2 DEF ServerInv, downloadVars
<1>6. TransferInv'
  <2>1. transfer # NoTransfer => /\ transfer.request \in 1..RequestCount
                                 /\ transfer.id \in Channels /\ blobStreamLogicOut.transferId \in Channels
    BY DEF Typed, ClientTyped, ServerTyped, TransferInv, NoRequest, NoTransfer
  <2>2. transfer # NoTransfer => Age(transfer.id, blobStreamLogicOut.transferId) \in Nat
    BY <2>1, ChannelDistance, Zenon
  <2>. QED
    BY <1>1, <1>2, <2>1, <2>2 DEF TransferInv, IsDownloading, downloadVars
<1>7. GotInv' /\ AckedChunksAreReceived' /\ StepsWithoutGap'
  BY <1>2, Zenon DEF GotInv, AckedChunksAreReceived, StepsWithoutGap, NotPlaying, downloadVars
<1>. QED
  BY <1>4, <1>5, <1>6, <1>7, RestartKeepsLinks, Zenon

\* A client asks only when the link is empty.
LEMMA AskKeeps == ASSUME CatchUpInv, Ask PROVE CatchUpInv'
<1>. USE DEF CatchUpInv
<1>. DEFINE m == IF IsDownloading THEN [type |-> "request", id |-> request]
                 ELSE [type |-> "step", waiting |-> playing.waiting, missing |-> playing.missing]
<1>1. toServer' = <<m>> /\ UNCHANGED <<downloadVars, gameVars, toClient, clientVars>>
  BY Zenon DEF Ask
<1>. USE DEF downloadVars, gameVars, clientVars
<1>2. m \in Upward
  BY Zenon DEF Typed, ClientTyped, Upward
<1>3. Typed'
  <2>1. LinksTyped'
    BY <1>1, <1>2 DEF Typed, LinksTyped
  <2>. QED
    BY <1>1, <2>1, Zenon DEF Typed, ServerTyped, GameTyped, ClientTyped
<1>4. ServerInv' /\ TransferInv' /\ GotInv' /\ AckedChunksAreReceived' /\ StepsWithoutGap'
  BY <1>1, Zenon
     DEF ServerInv, TransferInv, GotInv, AckedChunksAreReceived, StepsWithoutGap, Lag, IsDownloading
<1>5. DownInv'
  BY <1>1, Zenon DEF DownInv, DownOK, Lag
<1>6. UpInv'
  <2>1. /\ request \in 1..RequestCount /\ request \in 0..RequestCount /\ restarts \in Nat
        /\ playing.waiting \in Nat /\ blobStreamOutClientRequestId \in 0..RequestCount
    BY Constants DEF Typed, ClientTyped, ServerTyped, Assumed
  <2>2. Since(request, request) = 0 /\ Lag \in Nat
    BY <2>1, RequestDistance, Zenon DEF Lag
  <2>3. Sent(m, request, restarts, blobStreamOutClientRequestId, blobStreamLogicOut.transferId)
    BY <2>1, <2>2 DEF Sent, Lag
  <2>4. AckOK(m, blobStreamLogicOut.transferId, transfer, DOMAIN got)
    BY Zenon DEF AckOK
  <2>5. WishOK(m, restarts, Lag, transfer, playing)
    BY <2>1 DEF WishOK, TransferInv, StepsWithoutGap, IsDownloading
  <2>6. Len(<<m>>) = 1 /\ <<m>>[1] = m
    BY Zenon
  <2>. HIDE DEF m
  <2>. QED
    BY <1>1, <2>3, <2>4, <2>5, <2>6 DEF UpInv, UpOK, Lag
<1>. QED
  BY <1>3, <1>4, <1>5, <1>6, Zenon

-----------------------------------------------------------------------------
(* The client takes what the server sent.                                  *)

\* Steps that begin at or before the one it waits for leave no gap.
LEMMA TakeStepsKeeps == ASSUME CatchUpInv, TakeSteps PROVE CatchUpInv'
<1>. USE DEF CatchUpInv
<1>. DEFINE m == Head(toClient)
<1>1. /\ toClient # <<>> /\ m.type = "steps" /\ toClient' = Tail(toClient)
      /\ UNCHANGED <<downloadVars, gameVars, toServer, request, transfer, got, restarts>>
  BY Zenon DEF TakeSteps, Takes
<1>2. toClient \in Seq(Downward) /\ m \in Downward
  BY <1>1, Links DEF Typed, LinksTyped
<1>3. CASE IsDownloading
  BY <1>1, <1>3, DroppedDown, Zenon DEF TakeSteps, clientVars
<1>4. CASE ~IsDownloading
  <2>1. PICK last \in {s + 1 : s \in m.steps} \cup {playing.waiting} :
             /\ \A s \in {s + 1 : s \in m.steps} \cup {playing.waiting} : s <= last
             /\ playing' = [playing EXCEPT
                                !.waiting = last,
                                !.missing = (@ \cup playing.waiting..(last - 1)) \ m.steps]
    BY <1>4, Zenon DEF TakeSteps
  <2>2. /\ m.steps \subseteq 0..(MaxStep - 1) /\ MaxStep \in Nat
        /\ playing \in [game : -1..MaxGame, waiting : 0..MaxStep, missing : SUBSET (0..MaxStep)]
    BY <1>1, <1>2, DownTyped, Constants, Zenon DEF Typed, ClientTyped, Assumed
  <2>3. transfer # NoTransfer /\ restarts = 0 /\ playing.game # NotPlaying.game /\ playing.missing = {}
    BY <1>4, Zenon DEF TransferInv, StepsWithoutGap
  <2>4. \A s \in m.steps : playing.waiting..s \subseteq m.steps
    BY <1>1, <1>2, <2>3, Links DEF DownInv, StepsOK
  <2>5. last \in 0..MaxStep /\ playing.waiting <= last /\ last \in Nat /\ playing.waiting \in Nat
    BY <2>1, <2>2
  <2>6. playing.waiting..(last - 1) \subseteq m.steps
    <3>1. CASE last = playing.waiting
      BY <2>5, <3>1
    <3>2. CASE \E s \in m.steps : last = s + 1
      <4>1. PICK s \in m.steps : last = s + 1
        BY <3>2, Zenon
      <4>2. last - 1 = s
        BY <2>2, <4>1
      <4>. QED
        BY <2>4, <4>2, Zenon
    <3>. QED
      BY <2>1, <3>1, <3>2, Zenon
  <2>7. /\ playing'.waiting = last /\ playing'.missing = {} /\ playing'.game = playing.game
        /\ playing' \in [game : -1..MaxGame, waiting : 0..MaxStep, missing : SUBSET (0..MaxStep)]
    BY <2>1, <2>2, <2>3, <2>5, <2>6, Zenon
  <2>8. playing' # NotPlaying
    BY <2>3, <2>7, Zenon
  <2>9. Typed'
    <3>1. LinksTyped'
      BY <1>1, <1>2, Links, Constants DEF Typed, LinksTyped, Assumed
    <3>2. ClientTyped'
      BY <1>1, <2>7, Zenon DEF Typed, ClientTyped
    <3>. QED
      BY <1>1, <3>1, <3>2, Zenon DEF Typed, ServerTyped, GameTyped, downloadVars, gameVars
  <2>10. /\ ServerInv' /\ TransferInv' /\ GotInv' /\ AckedChunksAreReceived' /\ StepsWithoutGap'
    <3>1. ServerInv' /\ GotInv' /\ AckedChunksAreReceived' /\ StepsWithoutGap'
      BY <1>1, <2>7, Zenon
         DEF ServerInv, GotInv, AckedChunksAreReceived, StepsWithoutGap, Lag, downloadVars
    <3>2. TransferInv'
      BY <1>1, <2>3, <2>7 DEF TransferInv, Lag, IsDownloading, downloadVars
    <3>. QED
      BY <3>1, <3>2, Zenon
  <2>11. \A i \in 1..Len(toServer) : WishOK(toServer[i], restarts, Lag, transfer, playing')
    <3>1. ASSUME NEW i \in 1..Len(toServer), toServer[i].type = "step"
          PROVE  toServer[i].waiting \in Nat
      BY <3>1, UpTyped, Constants DEF Typed, LinksTyped, Assumed
    <3>. QED
      BY <2>3, <2>5, <2>7, <2>8, <3>1 DEF UpInv, WishOK
  <2>12. UpInv'
    BY <1>1, <2>11, Zenon DEF UpInv, UpOK, Lag, downloadVars
  <2>13. \A i \in 1..Len(toClient) : StepsOK(toClient[i], restarts, transfer, playing')
    <3>1. ASSUME NEW i \in 1..Len(toClient), toClient[i].type = "steps",
                 NEW s \in toClient[i].steps
          PROVE  playing'.waiting..s \subseteq toClient[i].steps
      <4>1. playing.waiting..s \subseteq toClient[i].steps
        BY <2>3, <3>1, Zenon DEF DownInv, StepsOK
      <4>2. s \in Int
        BY <1>2, <2>2, <3>1, DownTyped
      <4>. QED
        <5>. HIDE DEF CatchUpInv
        <5>1. playing'.waiting..s \subseteq playing.waiting..s
          BY <2>5, <2>7, <4>2
        <5>. QED
          BY <4>1, <5>1, Zenon
    <3>. QED
      BY <2>3, <2>8, <3>1, Zenon DEF StepsOK
  <2>14. DownInv'
    <3>. DEFINE t == blobStreamLogicOut.transferId
    <3>1. /\ DownOK(toClient, request, restarts, Lag, t)
          /\ \A i \in 1..Len(toClient) : ContentOK(toClient[i], t, gameState, transfer, got)
          /\ \A i, j \in 1..Len(toClient) : i < j => SameState(toClient[i], toClient[j], transfer)
      BY Zenon DEF DownInv
    <3>2. t' = t /\ gameState' = gameState /\ Lag' = Lag
      BY <1>1, Zenon DEF Lag, downloadVars
    <3>. HIDE DEF CatchUpInv, t, m
    <3>3. DownOK(toClient', request, restarts, Lag, t)
      BY <1>1, <1>2, <3>1, Links DEF DownOK
    <3>4. \A i \in 1..Len(toClient') : /\ ContentOK(toClient'[i], t, gameState, transfer, got)
                                       /\ StepsOK(toClient'[i], restarts, transfer, playing')
      BY <1>1, <1>2, <2>13, <3>1, Links
    <3>5. \A i, j \in 1..Len(toClient') : i < j => SameState(toClient'[i], toClient'[j], transfer)
      BY <1>1, <1>2, <3>1, Links
    <3>. QED
      BY <1>1, <3>2, <3>3, <3>4, <3>5, Zenon DEF DownInv, t
  <2>. QED
    BY <2>9, <2>10, <2>12, <2>14, Zenon
<1>. QED
  BY <1>3, <1>4, Zenon

\* The answer that a client waits for is of the server's transfer, and so is
\* everything behind it.
LEMMA AwaitedStart ==
    ASSUME CatchUpInv, toClient # <<>>, toClient[1].type = "start", toClient[1].request = request,
           IsDownloading, toClient[1].transferId # transfer.id
    PROVE  /\ Lag = 0 /\ blobStreamOutClientRequestId = request
           /\ toClient[1].transferId = blobStreamLogicOut.transferId
           /\ blobStreamLogicOut.acked = {}
           /\ \A i \in 1..Len(toServer) :
                /\ toServer[i].type = "request" => toServer[i].id = request
                /\ toServer[i].type = "ack" => toServer[i].transferId # blobStreamLogicOut.transferId
                /\ toServer[i].type # "step"
           /\ \A i \in 1..Len(toClient) : 1 < i =>
                /\ toClient[i].type # "steps"
                /\ toClient[i].transferId = blobStreamLogicOut.transferId
                /\ toClient[i].type = "start" => toClient[i].request = request
<1>. USE DEF CatchUpInv
<1>. DEFINE b == blobStreamOutClientRequestId
            t == blobStreamLogicOut.transferId
<1>1. /\ toClient \in Seq(Downward) /\ toServer \in Seq(Upward) /\ 1 \in 1..Len(toClient)
      /\ request \in 1..RequestCount /\ request \in 0..RequestCount /\ restarts \in Nat
      /\ b \in 0..RequestCount /\ t \in Channels
  <2>1. toClient \in Seq(Downward) /\ toServer \in Seq(Upward)
    BY Zenon DEF Typed, LinksTyped
  <2>2. request \in 1..RequestCount /\ b \in 0..RequestCount /\ t \in Channels
    BY Zenon DEF Typed, ClientTyped, ServerTyped
  <2>3. restarts \in Nat
    BY Constants DEF Typed, ClientTyped, Assumed
  <2>4. RequestCount \in Nat
    BY Constants, Zenon DEF Assumed
  <2>. HIDE DEF CatchUpInv
  <2>. QED
    BY <2>1, <2>2, <2>3, <2>4, Links
<1>2. Since(request, request) = 0 /\ Lag \in Nat /\ (Lag = 0 => b = request)
  BY <1>1, RequestDistance DEF Lag
<1>3. Lag = 0 /\ b = request /\ toClient[1].transferId = t
  BY <1>1, <1>2 DEF DownInv, DownOK, Answered
<1>4. blobStreamLogicOut.acked = {}
  BY <1>3, Zenon DEF AckedChunksAreReceived
<1>5. ASSUME NEW i \in 1..Len(toServer)
      PROVE  /\ toServer[i].type = "request" => toServer[i].id = request
             /\ toServer[i].type = "ack" => toServer[i].transferId # t
             /\ toServer[i].type # "step"
  <2>1. toServer[i].type = "request" => toServer[i].id \in 0..RequestCount
    BY <1>1, UpTyped, Constants DEF Assumed
  <2>2. toServer[i].type = "request" => Since(toServer[i].id, request) \in Nat
                                        /\ Since(toServer[i].id, request) <= Lag
    <3>1. toServer[i].type = "request" => Since(toServer[i].id, request) <= Lag
      BY Zenon DEF UpInv, UpOK, Sent, Lag
    <3>. QED
      BY <1>1, <2>1, <3>1, RequestDistance, Zenon
  <2>3. toServer[i].type = "request" => toServer[i].id = request
    BY <1>1, <1>3, <2>1, <2>2, RequestDistance
  <2>4. toServer[i].type = "ack" => toServer[i].transferId # t
    BY <1>3, Zenon DEF UpInv, AckOK
  <2>5. toServer[i].type # "step"
    BY <1>1, <1>3 DEF UpInv, WishOK, IsDownloading
  <2>. QED
    BY <2>3, <2>4, <2>5, Zenon
<1>6. ASSUME NEW i \in 1..Len(toClient), 1 < i
      PROVE  /\ toClient[i].type # "steps"
             /\ toClient[i].transferId = t
             /\ toClient[i].type = "start" => toClient[i].request = request
  <2>1. AnsweredAfter(toClient[1], toClient[i], request, restarts, Lag, t)
    BY <1>1, <1>6, Zenon DEF DownInv, DownOK
  <2>2. toClient[i].type # "steps"
    BY <1>1, <1>3, <2>1, Zenon DEF AnsweredAfter, DownInv, StepsOK, IsDownloading
  <2>3. toClient[i].transferId \in Channels /\ Age(toClient[i].transferId, t) <= 0
    BY <1>1, <1>2, <1>3, <2>1, <2>2, DownTyped DEF AnsweredAfter
  <2>4. toClient[i].transferId = t
    BY <1>1, <2>3, ChannelDistance
  <2>5. toClient[i].type = "start" => /\ toClient[i].request \in 0..RequestCount
                                      /\ Since(toClient[i].request, request) <= 0
    BY <1>1, <1>2, <1>3, <2>1, DownTyped, Constants DEF AnsweredAfter, Assumed
  <2>6. toClient[i].type = "start" => toClient[i].request = request
    BY <1>1, <2>5, RequestDistance
  <2>. QED
    BY <2>2, <2>4, <2>6, Zenon
<1>. QED
  BY <1>3, <1>4, <1>5, <1>6, Zenon

\* The client starts a transfer.
LEMMA TakeStartKeeps == ASSUME CatchUpInv, TakeStart PROVE CatchUpInv'
<1>. USE DEF CatchUpInv
<1>. DEFINE m == Head(toClient)
            isNew == IsDownloading /\ m.request = request /\ m.transferId # transfer.id
            t == blobStreamLogicOut.transferId
            b == blobStreamOutClientRequestId
<1>1. /\ toClient # <<>> /\ m.type = "start" /\ toClient' = Tail(toClient)
      /\ UNCHANGED <<downloadVars, gameVars, toServer, request>>
  BY Zenon DEF TakeStart, Takes
<1>2. toClient \in Seq(Downward) /\ toServer \in Seq(Upward) /\ m \in Downward /\ m = toClient[1]
  BY <1>1, Links DEF Typed, LinksTyped
<1>3. CASE ~isNew
  BY <1>1, <1>3, DroppedDown, Zenon DEF TakeStart, clientVars
<1>4. CASE isNew
  <2>1. /\ transfer' = [id |-> m.transferId, request |-> request, stepId |-> m.stepId,
                        chunks |-> m.chunks]
        /\ got' = <<>> /\ restarts' = 0 /\ PlaysIfComplete(transfer', got')
    BY <1>4, Zenon DEF TakeStart
  <2>2. /\ Lag = 0 /\ b = request /\ m.transferId = t /\ blobStreamLogicOut.acked = {}
        /\ \A i \in 1..Len(toServer) :
             /\ toServer[i].type = "request" => toServer[i].id = request
             /\ toServer[i].type = "ack" => toServer[i].transferId # t
             /\ toServer[i].type # "step"
        /\ \A i \in 1..Len(toClient) : 1 < i =>
             /\ toClient[i].type # "steps"
             /\ toClient[i].transferId = t
             /\ toClient[i].type = "start" => toClient[i].request = request
    BY <1>1, <1>2, <1>4, AwaitedStart, Zenon
  <2>3. /\ t \in Channels /\ request \in 1..RequestCount /\ request \in 0..RequestCount
        /\ gameState.chunks \in Nat
    BY StateTyped, Constants DEF Typed, ServerTyped, ClientTyped, Assumed
  <2>4. Since(request, request) = 0 /\ Age(t, t) = 0
    BY <2>3, RequestDistance, ChannelDistance, Zenon
  <2>5. m.stepId = gameState.stepId /\ m.chunks = gameState.chunks
    BY <1>1, <1>2, <2>2, Links DEF DownInv, ContentOK
  <2>6. /\ transfer'.id = t /\ transfer'.request = request /\ transfer'.stepId = gameState.stepId
        /\ transfer'.chunks = gameState.chunks /\ DOMAIN got' = {}
        /\ transfer' \in [id : Channels \cup {-1}, request : 0..RequestCount, stepId : 0..MaxStep,
                          chunks : 0..Capacity]
    BY <1>1, <1>2, <2>1, <2>2, <2>3, <2>5, DownTyped
  <2>7. transfer' # NoTransfer /\ t # -1
    BY <2>3, <2>6 DEF NoTransfer, Channels
  <2>8. /\ playing' \in [game : -1..MaxGame, waiting : 0..MaxStep, missing : SUBSET (0..MaxStep)]
        /\ playing'.missing = {} /\ (playing' # NotPlaying => playing'.game # NotPlaying.game)
    <3>1. CASE playing' = playing
      BY <1>4, <3>1, Zenon DEF Typed, ClientTyped, StepsWithoutGap, IsDownloading
    <3>2. CASE playing' # playing
      <4>1. DOMAIN got' = 1..transfer'.chunks
            /\ playing' = [game |-> IF transfer'.chunks = 0 THEN 0 ELSE got'[1].game,
                           waiting |-> transfer'.stepId, missing |-> {}]
        BY <2>1, <3>2, Zenon DEF PlaysIfComplete
      <4>2. transfer'.chunks = 0
        BY <2>3, <2>6, <4>1
      <4>3. playing' = [game |-> 0, waiting |-> transfer'.stepId, missing |-> {}]
        BY <4>1, <4>2, Zenon
      <4>4. transfer'.stepId \in 0..MaxStep
        BY <2>6, Zenon
      <4>. QED
        BY <4>3, <4>4, Constants DEF Assumed, NotPlaying
    <3>. QED
      BY <3>1, <3>2, Zenon
  <2>9. Typed'
    <3>1. LinksTyped'
      BY <1>1, <1>2, Links, Constants DEF Typed, LinksTyped, Assumed
    <3>2. ClientTyped'
      BY <1>1, <2>1, <2>6, <2>8, Constants DEF Typed, ClientTyped, Assumed
    <3>. QED
      BY <1>1, <3>1, <3>2, Zenon DEF Typed, ServerTyped, GameTyped, downloadVars, gameVars
  <2>10. ServerInv'
    BY <1>1, <2>1, <2>2, <2>3 DEF ServerInv, Lag, NoRequest, downloadVars
  <2>11. TransferInv'
    BY <1>1, <2>1, <2>2, <2>3, <2>4, <2>6, <2>7, <2>8
      DEF TransferInv, Lag, NoRequest, NoTransfer, IsDownloading, downloadVars
  <2>12. GotInv' /\ AckedChunksAreReceived' /\ StepsWithoutGap'
    BY <1>1, <2>2, <2>6, <2>8, Zenon DEF GotInv, AckedChunksAreReceived, StepsWithoutGap, downloadVars
  <2>13. UpInv'
    <3>1. \A i \in 1..Len(toServer) : /\ Sent(toServer[i], request, 0, b, t)
                                      /\ AckOK(toServer[i], t, transfer', DOMAIN got')
                                      /\ WishOK(toServer[i], 0, 0, transfer', playing')
      BY <2>2, <2>4, <2>6, <2>7, Zenon DEF UpInv, UpOK, Sent, AckOK, WishOK, Lag
    <3>2. \A i, j \in 1..Len(toServer) : i < j => SentAfter(toServer[i], toServer[j], request, 0, b, t)
      BY <2>2, Zenon DEF UpInv, UpOK, SentAfter
    <3>. QED
      BY <1>1, <2>1, <2>2, <3>1, <3>2, Zenon DEF UpInv, UpOK, Lag, downloadVars
  <2>14. ASSUME NEW i \in 1..Len(toClient), 1 < i
         PROVE  /\ Answered(toClient[i], request, 0, 0, t)
                /\ ContentOK(toClient[i], t, gameState, transfer', got')
                /\ StepsOK(toClient[i], 0, transfer', playing')
    <3>1. Answered(toClient[i], request, 0, 0, t)
      BY <2>2, <2>4, <2>14 DEF Answered
    <3>2. ContentOK(toClient[i], t, gameState, transfer', got')
      BY <2>2, <2>6, <2>14, Zenon DEF DownInv, ContentOK
    <3>. QED
      BY <2>2, <2>14, <3>1, <3>2, Zenon DEF StepsOK
  <2>15. ASSUME NEW i \in 1..Len(toClient), 1 < i, NEW j \in 1..Len(toClient), i < j, 1 < j
         PROVE  /\ AnsweredAfter(toClient[i], toClient[j], request, 0, 0, t)
                /\ SameState(toClient[i], toClient[j], transfer')
    <3>1. AnsweredAfter(toClient[i], toClient[j], request, 0, 0, t)
      BY <2>2, <2>4, <2>15 DEF AnsweredAfter
    <3>2. SameState(toClient[i], toClient[j], transfer')
      BY <2>2, <2>6, <2>15, Zenon DEF SameState, DownInv, ContentOK
    <3>. QED
      BY <3>1, <3>2, Zenon
  <2>16. DownInv'
    <3>1. \A i \in 1..Len(toClient') : \E k \in 1..Len(toClient) : 1 < k /\ toClient'[i] = toClient[k]
      BY <1>1, <1>2, Links
    <3>2. \A i, j \in 1..Len(toClient') : i < j =>
             \E k, l \in 1..Len(toClient) : 1 < k /\ k < l /\ 1 < l
                                            /\ toClient'[i] = toClient[k] /\ toClient'[j] = toClient[l]
      BY <1>1, <1>2
    <3>. QED
      <4>1. \A i \in 1..Len(toClient') : /\ Answered(toClient'[i], request, 0, 0, t)
                                         /\ ContentOK(toClient'[i], t, gameState, transfer', got')
                                         /\ StepsOK(toClient'[i], 0, transfer', playing')
        BY <2>14, <3>1, Zenon
      <4>2. \A i, j \in 1..Len(toClient') : i < j =>
               /\ AnsweredAfter(toClient'[i], toClient'[j], request, 0, 0, t)
               /\ SameState(toClient'[i], toClient'[j], transfer')
        BY <2>15, <3>2, Zenon
      <4>3. t' = t /\ gameState' = gameState /\ request' = request /\ restarts' = 0 /\ Lag' = 0
        BY <1>1, <2>1, <2>2, Zenon DEF Lag, downloadVars
      <4>. HIDE DEF CatchUpInv
      <4>. QED
        BY <4>1, <4>2, <4>3, Zenon DEF DownInv, DownOK
  <2>. QED
    BY <2>9, <2>10, <2>11, <2>12, <2>13, <2>16, Zenon
<1>. QED
  BY <1>3, <1>4, Zenon

\* The client keeps a chunk of its transfer and acknowledges it.
LEMMA TakeChunkKeeps == ASSUME CatchUpInv, TakeChunk PROVE CatchUpInv'
<1>. USE DEF CatchUpInv
<1>. DEFINE m == Head(toClient)
            t == blobStreamLogicOut.transferId
            b == blobStreamOutClientRequestId
            ack == [type |-> "ack", transferId |-> transfer.id, chunks |-> DOMAIN got']
<1>1. /\ toClient # <<>> /\ m.type = "chunk" /\ toClient' = Tail(toClient)
      /\ UNCHANGED <<downloadVars, gameVars, request, transfer, restarts>>
  BY Zenon DEF TakeChunk, Takes
<1>2. toClient \in Seq(Downward) /\ toServer \in Seq(Upward) /\ m \in Downward /\ m = toClient[1]
      /\ 1 \in 1..Len(toClient)
  BY <1>1, Links DEF Typed, LinksTyped
<1>3. CASE m.transferId # transfer.id
  BY <1>1, <1>3, DroppedDown, Zenon DEF TakeChunk, clientVars
<1>4. CASE m.transferId = transfer.id
  <2>1. /\ got' = [c \in DOMAIN got \cup {m.chunk} |-> IF c = m.chunk THEN m.state ELSE got[c]]
        /\ toServer' = Append(toServer, ack)
        /\ PlaysIfComplete(transfer, got')
    BY <1>4, Zenon DEF TakeChunk
  <2>2. m.transferId \in Channels /\ m.chunk \in 1..Capacity /\ m.state \in States
    BY <1>1, <1>2, DownTyped, Zenon
  <2>3. transfer # NoTransfer
    BY <1>4, <2>2 DEF NoTransfer, Channels
  <2>4. /\ m.chunk \in 1..m.state.chunks /\ (m.transferId = t => m.state = gameState)
        /\ m.state.stepId = transfer.stepId /\ m.state.chunks = transfer.chunks
        /\ \A c \in DOMAIN got : got[c] = m.state
    BY <1>1, <1>2, <1>4 DEF DownInv, ContentOK
  <2>5. /\ DOMAIN got' = DOMAIN got \cup {m.chunk}
        /\ \A c \in DOMAIN got' : got'[c] = m.state
    BY <2>1, <2>4, Zenon
  <2>6. DOMAIN got' \subseteq 1..transfer.chunks /\ DOMAIN got' \subseteq 1..Capacity
    <3>1. DOMAIN got \subseteq 1..transfer.chunks /\ transfer.chunks \in 0..Capacity /\ Capacity \in Nat
      BY Constants, Zenon DEF Typed, ClientTyped, Assumed
    <3>. QED
      BY <2>4, <2>5, <3>1
  <2>7. /\ t \in Channels /\ request \in 1..RequestCount /\ b \in 0..RequestCount
        /\ restarts \in Nat /\ restarts <= MaxRestarts /\ MaxRestarts \in Nat
        /\ transfer.request \in 0..RequestCount
    BY Constants DEF Typed, ServerTyped, ClientTyped, Assumed
  <2>8. Lag \in Nat /\ Age(transfer.id, t) \in Nat /\ Lag = Since(b, request)
    BY <1>4, <2>2, <2>7, RequestDistance, ChannelDistance, Zenon DEF Lag
  <2>9. /\ Since(transfer.request, request) = restarts /\ Age(transfer.id, t) <= restarts - Lag
        /\ (transfer.id = t) <=> (restarts = Lag)
    BY <2>3, Zenon DEF TransferInv
  <2>10. playing' # playing =>
            /\ IsDownloading /\ restarts = 0
            /\ playing' \in [game : -1..MaxGame, waiting : 0..MaxStep, missing : SUBSET (0..MaxStep)]
            /\ playing'.missing = {} /\ playing'.game # NotPlaying.game
    <3>. SUFFICES ASSUME playing' # playing PROVE
            /\ IsDownloading /\ restarts = 0
            /\ playing' \in [game : -1..MaxGame, waiting : 0..MaxStep, missing : SUBSET (0..MaxStep)]
            /\ playing'.missing = {} /\ playing'.game # NotPlaying.game
      BY Zenon
    <3>1. /\ IsDownloading /\ transfer.request = request /\ DOMAIN got' = 1..transfer.chunks
          /\ playing' = [game |-> IF transfer.chunks = 0 THEN 0 ELSE got'[1].game,
                         waiting |-> transfer.stepId, missing |-> {}]
      BY <2>1, Zenon DEF PlaysIfComplete
    <3>2. restarts = 0
      BY <2>7, <2>9, <3>1, RequestDistance, Zenon
    <3>3. m.state.chunks \in Nat /\ m.state.game \in 0..MaxGame /\ m.state.stepId \in 0..MaxStep
      BY <2>2, StateTyped, Zenon
    <3>4. transfer.chunks # 0 /\ got'[1].game = m.state.game
      BY <2>4, <2>5, <3>1, <3>3
    <3>5. playing' = [game |-> m.state.game, waiting |-> m.state.stepId, missing |-> {}]
      BY <2>4, <3>1, <3>3, <3>4, Zenon
    <3>. QED
      BY <3>1, <3>2, <3>3, <3>5, Constants DEF NotPlaying, Assumed
  <2>11. ack \in Upward
    BY <1>4, <2>2, <2>6, Zenon DEF Upward
  <2>12. Typed'
    <3>1. toServer' \in Seq(Upward)
      BY <1>2, <2>1, <2>11
    <3>2. LinksTyped'
      BY <1>1, <1>2, <3>1, Links, Constants DEF Typed, LinksTyped, Assumed
    <3>3. playing' \in [game : -1..MaxGame, waiting : 0..MaxStep, missing : SUBSET (0..MaxStep)]
      BY <2>10, Zenon DEF Typed, ClientTyped
    <3>4. ClientTyped'
      BY <1>1, <2>2, <2>5, <2>6, <3>3, Zenon DEF Typed, ClientTyped
    <3>. QED
      BY <1>1, <3>2, <3>4, Zenon DEF Typed, ServerTyped, GameTyped, downloadVars, gameVars
  <2>13. ServerInv'
    BY <1>1, Zenon DEF ServerInv, Lag, downloadVars
  <2>14. TransferInv'
    BY <1>1, <2>3, <2>10, Zenon DEF TransferInv, Lag, IsDownloading, downloadVars
  <2>15. GotInv'
    BY <1>1, <1>4, <2>4, <2>5, Zenon DEF GotInv, downloadVars
  <2>16. AckedChunksAreReceived' /\ StepsWithoutGap'
    BY <1>1, <2>5, <2>10, Zenon DEF AckedChunksAreReceived, StepsWithoutGap, downloadVars
  <2>17. UpInv'
    <3>1. /\ Sent(ack, request, restarts, b, t)
          /\ AckOK(ack, t, transfer, DOMAIN got') /\ WishOK(ack, restarts, Lag, transfer, playing')
          /\ \A i \in 1..Len(toServer) : SentAfter(toServer[i], ack, request, restarts, b, t)
      BY <2>3, <2>7, <2>8, <2>9 DEF Sent, AckOK, WishOK, SentAfter
    <3>2. \A i \in 1..Len(toServer) : /\ AckOK(toServer[i], t, transfer, DOMAIN got')
                                      /\ WishOK(toServer[i], restarts, Lag, transfer, playing')
      BY <2>5, <2>10, Zenon DEF UpInv, AckOK, WishOK, IsDownloading
    <3>3. /\ Len(toServer') = Len(toServer) + 1 /\ Len(toServer) \in Nat
          /\ toServer'[Len(toServer) + 1] = ack
          /\ \A i \in 1..Len(toServer) : toServer'[i] = toServer[i]
      BY <1>2, <2>1
    <3>. HIDE DEF ack
    <3>4. /\ \A i \in 1..Len(toServer') : i \in 1..Len(toServer) \/ i = Len(toServer) + 1
          /\ \A i, j \in 1..Len(toServer') : i < j => i \in 1..Len(toServer)
      BY <3>3
    <3>. QED
      BY <1>1, <3>1, <3>2, <3>3, <3>4, Zenon DEF UpInv, UpOK, Lag, downloadVars
  <2>18. DownInv'
    <3>1. \A i \in 1..Len(toClient) : StepsOK(toClient[i], restarts, transfer, playing')
      BY <2>10, Zenon DEF DownInv, StepsOK, IsDownloading
    <3>2. ASSUME NEW i \in 1..Len(toClient), 1 < i
          PROVE  ContentOK(toClient[i], t, gameState, transfer, got')
      <4>1. SameState(m, toClient[i], transfer) /\ ContentOK(toClient[i], t, gameState, transfer, got)
        BY <1>2, <3>2, Zenon DEF DownInv
      <4>. QED
        BY <1>1, <1>4, <2>5, <4>1, Zenon DEF ContentOK, SameState
    <3>. QED
      BY <1>1, <1>2, <3>1, <3>2, Links DEF DownInv, DownOK, Lag, downloadVars
  <2>. QED
    BY <2>12, <2>13, <2>14, <2>15, <2>16, <2>17, <2>18, Zenon
<1>. QED
  BY <1>3, <1>4, Zenon

-----------------------------------------------------------------------------
(* The client and the game: a second invariant.                           *)

\* A state of the game g is not beyond its next step w, and none is of a later
\* game.
Behind(state, g, w) == state.game <= g /\ (state.game = g => state.stepId <= w)

\* Steps of the game, and what is under way: steps that the client gets when
\* it plays the game, or is about to, are of the game.
Within(steps, w) == \A s \in steps : s < w
Timely(m, g, w, current) ==
    /\ m.type = "chunk" => Behind(m.state, g, w)
    /\ m.type = "steps" /\ current => Within(m.steps, w)
TimelyAfter(m, k, g, w) ==
    m.type = "chunk" /\ k.type = "steps" /\ m.state.game = g => Within(k.steps, w)
AllTimely(down, g, w, current) ==
    /\ \A i \in 1..Len(down) : Timely(down[i], g, w, current)
    /\ \A i, j \in 1..Len(down) : i < j => TimelyAfter(down[i], down[j], g, w)

\* Messages are sent after those under way.
Joins(all, down, new) == all = down \o new

\* A download's messages, with no steps among them
NoSteps(down, g, w, current) ==
    \A i \in 1..Len(down) : down[i].type # "steps" /\ Timely(down[i], g, w, current)

\* The client plays the host's game, or has a chunk of it.
Current(pl, chunks, g) ==
    (pl # NotPlaying /\ pl.game = g) \/ \E c \in DOMAIN chunks : chunks[c].game = g

AheadInv ==
    /\ Behind(gameState, game, writeId)
    /\ \A c \in DOMAIN got : Behind(got[c], game, writeId)
    /\ playing.game <= game
    /\ NeverAhead
    /\ AllTimely(toClient, game, writeId, Current(playing, got, game))

\* What is left when the first message is taken
LEMMA TimelyTail ==
    ASSUME NEW down \in Seq(Downward), down # <<>>, NEW g, NEW w, NEW current \in BOOLEAN,
           AllTimely(down, g, w, current)
    PROVE  AllTimely(Tail(down), g, w, current)
BY Links DEF AllTimely

\* What is sent of a transfer
LEMMA TimelySent ==
    ASSUME NEW down \in Seq(Downward), NEW new \in Seq(Downward), NEW all, Joins(all, down, new),
           NEW g, NEW w, NEW current \in BOOLEAN, AllTimely(down, g, w, current),
           NoSteps(new, g, w, current)
    PROVE  AllTimely(all, g, w, current)
<1>1. ASSUME NEW i \in 1..Len(all) PROVE Timely(all[i], g, w, current)
  <2>1. Among(all[i], down) \/ Among(all[i], new)
    BY Joined, Zenon DEF Joins
  <2>. QED
    BY <2>1, Zenon DEF AllTimely, Among, NoSteps
<1>2. ASSUME NEW i \in 1..Len(all), NEW j \in 1..Len(all), i < j
      PROVE  TimelyAfter(all[i], all[j], g, w)
  <2>1. InOrder(all[i], all[j], down) \/ (Among(all[i], down) /\ Among(all[j], new))
            \/ InOrder(all[i], all[j], new)
    BY <1>2, Joined, Zenon DEF Joins
  <2>2. CASE InOrder(all[i], all[j], down)
    BY <2>2, Zenon DEF AllTimely, InOrder
  <2>3. CASE all[j].type # "steps"
    BY <2>3, Zenon DEF TimelyAfter
  <2>. QED
    BY <2>1, <2>2, <2>3, Zenon DEF Among, InOrder, NoSteps
<1>. QED
  BY <1>1, <1>2, Zenon DEF AllTimely

\* The game goes on, or another is started.
LEMMA TimelyGrows ==
    ASSUME NEW down \in Seq(Downward), NEW g \in Nat, NEW w \in Nat, NEW g2 \in Nat, NEW w2 \in Nat,
           NEW current \in BOOLEAN, NEW current2 \in BOOLEAN, AllTimely(down, g, w, current),
           \/ g2 = g /\ w <= w2 /\ (current2 => current)
           \/ g < g2 /\ ~current2
    PROVE  AllTimely(down, g2, w2, current2)
<1>1. ASSUME NEW i \in 1..Len(down)
      PROVE  /\ down[i].type \in {"start", "chunk", "steps"}
             /\ down[i].type = "chunk" => down[i].state.game \in Nat /\ down[i].state.stepId \in Nat
             /\ down[i].type = "steps" => down[i].steps \subseteq Int
  <2>1. down[i] \in Downward /\ MaxStep \in Nat
    BY Constants DEF Assumed
  <2>2. /\ down[i].type \in {"start", "chunk", "steps"}
        /\ down[i].type = "chunk" => down[i].state \in States
        /\ down[i].type = "steps" => down[i].steps \subseteq 0..(MaxStep - 1)
    BY <2>1, DownTyped, Zenon
  <2>3. \A st \in States : st.game \in Nat /\ st.stepId \in Nat
    BY StateTyped, Constants DEF Assumed
  <2>. QED
    BY <2>1, <2>2, <2>3
<1>2. \A i \in 1..Len(down) : Timely(down[i], g2, w2, current2)
  BY <1>1 DEF AllTimely, Timely, Behind, Within
<1>3. ASSUME NEW i \in 1..Len(down), NEW j \in 1..Len(down), i < j
      PROVE  TimelyAfter(down[i], down[j], g2, w2)
  <2>1. TimelyAfter(down[i], down[j], g, w) /\ Timely(down[i], g, w, current)
    BY <1>3, Zenon DEF AllTimely
  <2>. QED
    BY <1>1, <2>1 DEF TimelyAfter, Timely, Behind, Within
<1>. QED
  BY <1>2, <1>3, Zenon DEF AllTimely

\* The variables that the invariant relates
LEMMA AheadTyped ==
    ASSUME CatchUpInv
    PROVE  /\ game \in Nat /\ game > 0 /\ writeId \in Nat /\ MaxStep \in Nat /\ MaxGame \in Nat
           /\ playing.game \in Int /\ playing.waiting \in Nat /\ toClient \in Seq(Downward)
           /\ gameState.game \in Nat /\ gameState.stepId \in Nat
           /\ \A c \in DOMAIN got : got[c].game \in Nat /\ got[c].stepId \in Nat
           /\ Current(playing, got, game) \in BOOLEAN
<1>1. MaxStep \in Nat /\ MaxGame \in Nat
  BY Constants, Zenon DEF Assumed
<1>2. \A st \in States : st.game \in Nat /\ st.stepId \in Nat
  BY <1>1, StateTyped
<1>3. gameState \in States /\ \A c \in DOMAIN got : got[c] \in States
  BY Zenon DEF CatchUpInv, Typed, ServerTyped, ClientTyped
<1>4. game \in Nat /\ game > 0 /\ writeId \in Nat /\ playing.game \in Int /\ playing.waiting \in Nat
  BY <1>1 DEF CatchUpInv, Typed, GameTyped, ClientTyped
<1>. QED
  BY <1>1, <1>2, <1>3, <1>4, Zenon DEF CatchUpInv, Typed, LinksTyped, Current

\* The other clients and the host
LEMMA GameKeepsAhead ==
    ASSUME CatchUpInv, AheadInv, UNCHANGED <<gameState, got, playing>>, game' \in Nat, writeId' \in Nat,
           \/ game' = game /\ writeId <= writeId'
           \/ game < game'
    PROVE  /\ Behind(gameState, game, writeId)' /\ playing'.game <= game' /\ NeverAhead'
           /\ \A c \in DOMAIN got' : Behind(got'[c], game', writeId')
           /\ AllTimely(toClient, game', writeId', Current(playing, got, game'))
<1>1. /\ game \in Nat /\ writeId \in Nat /\ playing.game \in Int /\ playing.waiting \in Nat
      /\ toClient \in Seq(Downward) /\ gameState.game \in Nat /\ gameState.stepId \in Nat
      /\ \A c \in DOMAIN got : got[c].game \in Nat /\ got[c].stepId \in Nat
  BY AheadTyped, Zenon
<1>2. Behind(gameState, game, writeId)'
  BY <1>1 DEF AheadInv, Behind
<1>3. \A c \in DOMAIN got' : Behind(got'[c], game', writeId')
  BY <1>1 DEF AheadInv, Behind
<1>4. playing'.game <= game' /\ NeverAhead'
  BY <1>1 DEF AheadInv, NeverAhead, IsDownloading
<1>5. game < game' => ~Current(playing, got, game')
  BY <1>1 DEF AheadInv, Behind, Current
<1>6. AllTimely(toClient, game', writeId', Current(playing, got, game'))
  <2>. DEFINE now == Current(playing, got, game)
              then == Current(playing, got, game')
  <2>1. now \in BOOLEAN /\ then \in BOOLEAN /\ (game' = game => now = then)
    BY Zenon DEF Current
  <2>2. AllTimely(toClient, game, writeId, now)
    BY Zenon DEF AheadInv
  <2>3. game < game' => ~then
    BY <1>5, Zenon
  <2>. HIDE DEF now, then
  <2>4. AllTimely(toClient, game', writeId', then)
    BY <1>1, <2>1, <2>2, <2>3, TimelyGrows
  <2>. QED
    BY <2>4, Zenon DEF then
<1>. QED
  BY <1>2, <1>3, <1>4, <1>6, Zenon

\* A datagram to the client is lost or is not for it, or the client starts
\* anew.
LEMMA LessKeepsAhead ==
    ASSUME CatchUpInv, AheadInv, UNCHANGED <<gameState, game, writeId, got>>,
           playing' \in {playing, NotPlaying},
           toClient' = toClient \/ (toClient # <<>> /\ toClient' = Tail(toClient))
    PROVE  AheadInv'
<1>1. game \in Nat /\ writeId \in Nat /\ toClient \in Seq(Downward)
  BY AheadTyped, Zenon
<1>2. playing'.game <= game' /\ NeverAhead'
  BY <1>1 DEF AheadInv, NeverAhead, IsDownloading, NotPlaying
<1>3. AllTimely(toClient', game', writeId', Current(playing, got, game)')
  <2>. DEFINE now == Current(playing, got, game)
              then == Current(playing, got, game)'
  <2>1. now \in BOOLEAN /\ then \in BOOLEAN /\ (then => now)
    BY Zenon DEF Current
  <2>2. AllTimely(toClient, game, writeId, now) /\ writeId <= writeId
    BY <1>1 DEF AheadInv
  <2>. HIDE DEF now, then
  <2>3. AllTimely(toClient, game, writeId, then)
    BY <1>1, <2>1, <2>2, TimelyGrows
  <2>4. AllTimely(toClient', game, writeId, then)
    BY <1>1, <2>1, <2>3, TimelyTail, Zenon
  <2>. QED
    BY <2>4, Zenon DEF then
<1>. QED
  BY <1>2, <1>3, Zenon DEF AheadInv

\* A start gives the client no part of a game yet.
LEMMA TakeStartKeepsAhead == ASSUME CatchUpInv, AheadInv, TakeStart PROVE AheadInv'
<1>. DEFINE m == Head(toClient)
            isNew == IsDownloading /\ m.request = request /\ m.transferId # transfer.id
<1>1. /\ toClient # <<>> /\ toClient' = Tail(toClient) /\ UNCHANGED <<gameState, game, writeId>>
      /\ got' = IF isNew THEN <<>> ELSE got
      /\ ~isNew => playing' = playing
      /\ isNew => PlaysIfComplete(transfer', got')
  BY Zenon DEF TakeStart, Takes, downloadVars, gameVars
<1>2. CASE ~isNew
  BY <1>1, <1>2, LessKeepsAhead, Zenon
<1>3. CASE isNew
  <2>1. game \in Nat /\ game > 0 /\ writeId \in Nat /\ toClient \in Seq(Downward)
    BY AheadTyped, Zenon
  <2>2. got' = <<>> /\ DOMAIN got' = {}
    BY <1>1, <1>3
  <2>3. transfer'.chunks \in Nat
    <3>1. m \in Downward /\ m.type = "start"
      BY <1>1, <2>1, Links DEF TakeStart, Takes
    <3>2. m.chunks \in 0..Capacity
      BY <3>1, DownTyped, Zenon
    <3>3. transfer'.chunks = m.chunks
      BY <1>3, Zenon DEF TakeStart
    <3>. QED
      BY <3>2, <3>3, Constants DEF Assumed
  <2>4. playing' = NotPlaying \/ playing'.game = 0
    <3>1. CASE transfer'.chunks = 0
      BY <1>1, <1>3, <3>1 DEF PlaysIfComplete, IsDownloading
    <3>2. CASE transfer'.chunks # 0
      <4>1. 1 \in 1..transfer'.chunks
        BY <2>3, <3>2
      <4>. QED
        BY <1>1, <1>3, <2>2, <4>1, Zenon DEF PlaysIfComplete, IsDownloading
    <3>. QED
      BY <3>1, <3>2, Zenon
  <2>5. playing'.game <= game' /\ NeverAhead'
    BY <1>1, <2>1, <2>4 DEF NeverAhead, IsDownloading, NotPlaying
  <2>6. ~Current(playing', got', game')
    BY <1>1, <2>1, <2>2, <2>4 DEF Current
  <2>7. AllTimely(toClient', game', writeId', Current(playing', got', game'))
    <3>. DEFINE now == Current(playing, got, game)
                then == Current(playing', got', game')
    <3>1. now \in BOOLEAN /\ then \in BOOLEAN /\ (then => now)
      BY <2>6, Zenon DEF Current
    <3>2. AllTimely(toClient, game, writeId, now) /\ writeId <= writeId
      BY <2>1 DEF AheadInv
    <3>. HIDE DEF now, then
    <3>3. AllTimely(toClient, game, writeId, then)
      BY <2>1, <3>1, <3>2, TimelyGrows
    <3>4. AllTimely(toClient', game, writeId, then)
      BY <1>1, <2>1, <3>1, <3>3, TimelyTail, Zenon
    <3>. QED
      BY <1>1, <3>4, Zenon DEF then
  <2>. QED
    BY <1>1, <2>2, <2>5, <2>7, Zenon DEF AheadInv
<1>. QED
  BY <1>2, <1>3, Zenon

\* With a chunk, what is behind it counts: steps of the game before are ahead
\* of every chunk of a game.
LEMMA TakeChunkKeepsAhead == ASSUME CatchUpInv, CatchUpInv', AheadInv, TakeChunk PROVE AheadInv'
<1>. DEFINE m == Head(toClient)
<1>1. /\ toClient # <<>> /\ m.type = "chunk" /\ toClient' = Tail(toClient)
      /\ UNCHANGED <<gameState, game, writeId, transfer>>
  BY Zenon DEF TakeChunk, Takes, downloadVars, gameVars
<1>2. game \in Nat /\ game > 0 /\ writeId \in Nat /\ toClient \in Seq(Downward)
  BY AheadTyped, Zenon
<1>3. CASE m.transferId # transfer.id
  BY <1>1, <1>3, LessKeepsAhead, Zenon DEF TakeChunk
<1>4. CASE m.transferId = transfer.id
  <2>1. /\ got' = [c \in DOMAIN got \cup {m.chunk} |-> IF c = m.chunk THEN m.state ELSE got[c]]
        /\ PlaysIfComplete(transfer, got')
    BY <1>4, Zenon DEF TakeChunk
  <2>2. m = toClient[1] /\ 1 \in 1..Len(toClient)
    BY <1>1, <1>2, Links, Zenon
  <2>3. Behind(m.state, game, writeId)
    BY <1>1, <2>2, Zenon DEF AheadInv, AllTimely, Timely
  <2>4. \A c \in DOMAIN got' : got'[c] = m.state \/ (c \in DOMAIN got /\ got'[c] = got[c])
    BY <2>1, Zenon
  <2>5. \A c \in DOMAIN got' : Behind(got'[c], game, writeId)
    BY <2>3, <2>4, Zenon DEF AheadInv
  <2>6. \/ playing' = playing
        \/ /\ playing'.game = 0
        \/ /\ 1 \in DOMAIN got' /\ playing'.game = got'[1].game
           /\ playing'.waiting = got'[1].stepId
    <3>1. CASE playing' = playing
      BY <3>1, Zenon
    <3>2. CASE playing' # playing
      <4>1. /\ DOMAIN got' = 1..transfer.chunks
            /\ playing' = [game |-> IF transfer.chunks = 0 THEN 0 ELSE got'[1].game,
                           waiting |-> transfer.stepId, missing |-> {}]
        BY <2>1, <3>2, Zenon DEF PlaysIfComplete
      <4>2. transfer.chunks \in Nat
        BY Constants DEF CatchUpInv, Typed, ClientTyped, Assumed
      <4>3. \A c \in DOMAIN got' : got'[c].stepId = transfer.stepId
        BY <1>1, Zenon DEF CatchUpInv, GotInv
      <4>. QED
        BY <4>1, <4>2, <4>3
    <3>. QED
      BY <3>1, <3>2, Zenon
  <2>7. playing'.game <= game /\ NeverAhead'
    BY <1>1, <1>2, <2>5, <2>6 DEF AheadInv, NeverAhead, IsDownloading, Behind
  <2>8. Current(playing', got', game) => Current(playing, got, game) \/ m.state.game = game
    BY <1>2, <2>4, <2>6 DEF Current
  <2>9. AllTimely(toClient', game, writeId, Current(playing', got', game))
    <3>1. ASSUME NEW i \in 1..Len(toClient), 1 < i
          PROVE  Timely(toClient[i], game, writeId, Current(playing', got', game))
      <4>1. Timely(toClient[i], game, writeId, Current(playing, got, game))
            /\ TimelyAfter(m, toClient[i], game, writeId)
        BY <2>2, <3>1, Zenon DEF AheadInv, AllTimely
      <4>. QED
        BY <1>1, <2>8, <4>1, Zenon DEF Timely, TimelyAfter
    <3>2. \A i \in 1..Len(toClient') : Timely(toClient'[i], game, writeId, Current(playing', got', game))
      BY <1>1, <1>2, <3>1, Links
    <3>3. \A i, j \in 1..Len(toClient') : i < j => TimelyAfter(toClient'[i], toClient'[j], game, writeId)
      BY <1>1, <1>2, Links DEF AheadInv, AllTimely
    <3>. QED
      BY <3>2, <3>3, Zenon DEF AllTimely
  <2>. QED
    BY <1>1, <2>5, <2>7, <2>9, Zenon DEF AheadInv
<1>. QED
  BY <1>3, <1>4, Zenon

\* Steps do not take the client beyond the next step of its game.
LEMMA TakeStepsKeepsAhead == ASSUME CatchUpInv, AheadInv, TakeSteps PROVE AheadInv'
<1>. DEFINE m == Head(toClient)
<1>1. /\ toClient # <<>> /\ m.type = "steps" /\ toClient' = Tail(toClient)
      /\ UNCHANGED <<gameState, game, writeId, got>>
  BY Zenon DEF TakeSteps, Takes, downloadVars, gameVars
<1>2. game \in Nat /\ writeId \in Nat /\ playing.waiting \in Nat /\ toClient \in Seq(Downward)
  BY AheadTyped, Zenon
<1>3. CASE IsDownloading
  BY <1>1, <1>3, LessKeepsAhead, Zenon DEF TakeSteps
<1>4. CASE ~IsDownloading
  <2>1. PICK last \in {s + 1 : s \in m.steps} \cup {playing.waiting} :
          playing' = [playing EXCEPT
                        !.waiting = last,
                        !.missing = (@ \cup playing.waiting..(last - 1)) \ m.steps]
    BY <1>4, Zenon DEF TakeSteps
  <2>2. playing'.waiting = last /\ playing'.game = playing.game
    BY <2>1, Zenon DEF CatchUpInv, Typed, ClientTyped
  <2>3. m = toClient[1] /\ 1 \in 1..Len(toClient) /\ m \in Downward
    BY <1>1, <1>2, Links
  <2>4. m.steps \subseteq Int
    BY <1>1, <2>3, DownTyped, Constants DEF Assumed
  <2>5. playing.game = game => playing.waiting <= writeId /\ \A s \in m.steps : s < writeId
    <3>1. ASSUME playing.game = game PROVE Current(playing, got, game) = TRUE
      BY <1>4, <3>1, Zenon DEF Current, IsDownloading
    <3>2. Timely(m, game, writeId, Current(playing, got, game))
      BY <2>3, Zenon DEF AheadInv, AllTimely
    <3>. QED
      BY <1>1, <1>4, <3>1, <3>2, Zenon DEF AheadInv, NeverAhead, Timely, Within
  <2>6. playing.game = game => last <= writeId
    BY <1>2, <2>4, <2>5
  <2>7. playing'.game <= game /\ NeverAhead'
    BY <1>1, <2>2, <2>6, Zenon DEF AheadInv, NeverAhead
  <2>8. Current(playing', got, game) => Current(playing, got, game)
    BY <1>4, <2>2, Zenon DEF Current, IsDownloading
  <2>9. AllTimely(toClient', game, writeId, Current(playing', got, game))
    <3>. DEFINE now == Current(playing, got, game)
                then == Current(playing', got, game)
    <3>1. now \in BOOLEAN /\ then \in BOOLEAN /\ (then => now)
      BY <2>8, Zenon DEF Current
    <3>2. AllTimely(toClient, game, writeId, now) /\ writeId <= writeId
      BY <1>2 DEF AheadInv
    <3>. HIDE DEF now, then
    <3>3. AllTimely(toClient, game, writeId, then)
      BY <1>2, <3>1, <3>2, TimelyGrows
    <3>4. AllTimely(toClient', game, writeId, then)
      BY <1>1, <1>2, <3>1, <3>3, TimelyTail, Zenon
    <3>. QED
      BY <3>4, Zenon DEF then
  <2>. QED
    BY <1>1, <2>7, <2>9, Zenon DEF AheadInv
<1>. QED
  BY <1>3, <1>4, Zenon
=============================================================================
