---------------------------- MODULE CatchUpProofs ----------------------------
(***************************************************************************)
(* Safety of catching up, for every value of the constants: the steps of   *)
(* the server keep the invariants of CatchUpClientProofs, and the theorems *)
(* that follow.                                                            *)
(***************************************************************************)
EXTENDS CatchUpClientProofs

-----------------------------------------------------------------------------
(* The server answers.                                                     *)

\* What is sent of a transfer is a chunk of it for each entry.
LEMMA Sends ==
    ASSUME NEW logic, logic.transferId \in Channels, logic.state \in States,
           logic.state.chunks <= Capacity,
           NEW due \in BOOLEAN, NEW entries \in PrepareSend(logic, due)
    PROVE  /\ SendBlobStream(logic, entries) \in Seq(Downward)
           /\ Len(SendBlobStream(logic, entries)) <= MaxEntries
           /\ \A i \in 1..Len(SendBlobStream(logic, entries)) :
                \E c \in 1..logic.state.chunks : SendBlobStream(logic, entries)[i] = Chunk(logic, c)
<1>. DEFINE count == logic.state.chunks
            sent == SendBlobStream(logic, entries)
<1>1. count \in Nat /\ Capacity \in Nat /\ MaxEntries \in Nat
  BY StateTyped, Constants, Zenon DEF Assumed
<1>2. PICK n \in 0..MaxEntries : entries \in [1..n -> 1..count]
  <2>1. CASE due
    BY <1>1, <2>1 DEF PrepareSend
  <2>2. CASE ~due
    <3>1. entries = <<>> /\ 0 \in 0..MaxEntries
      BY <1>1, <2>2 DEF PrepareSend
    <3>2. <<>> \in [1..0 -> 1..count]
      OBVIOUS
    <3>. QED
      BY <3>1, <3>2, Zenon
  <2>. QED
    BY <2>1, <2>2, Zenon
<1>3. n \in Nat /\ entries \in Seq(1..count) /\ Len(entries) = n
  BY <1>1, <1>2
<1>4. \A i \in 1..n : entries[i] \in 1..count
  BY <1>2, Zenon
<1>5. \A c \in 1..count : Chunk(logic, c) \in Downward
  BY <1>1 DEF Chunk, Downward
<1>6. sent = [i \in 1..n |-> Chunk(logic, entries[i])]
  BY <1>3, Zenon DEF SendBlobStream
<1>. HIDE DEF sent, count
<1>7. sent \in [1..n -> Downward]
  BY <1>4, <1>5, <1>6, Zenon
<1>8. sent \in Seq(Downward) /\ Len(sent) = n
  BY <1>3, <1>7
<1>9. \A i \in 1..Len(sent) : \E c \in 1..count : sent[i] = Chunk(logic, c)
  BY <1>4, <1>6, <1>8, Zenon
<1>. QED
  BY <1>1, <1>2, <1>8, <1>9 DEF sent, count

\* A message of the server's transfer t and state, as it is sent
Fresh(m, r, lag, t, state) ==
    \/ /\ m.type = "start" /\ Since(m.request, r) = lag
       /\ m.stepId = state.stepId /\ m.chunks = state.chunks /\ m.transferId = t
    \/ /\ m.type = "chunk" /\ m.chunk \in 1..state.chunks
       /\ m.state = state /\ m.transferId = t

\* Behind what is under way, they are in order.
LEMMA Extended ==
    ASSUME NEW down \in Seq(Downward), NEW new \in Seq(Downward),
           NEW r \in 1..RequestCount, NEW n \in Nat, NEW lag \in Nat, NEW t \in Channels,
           NEW state, NEW tr, NEW chunks, NEW pl, lag <= n,
           DownOK(down, r, n, lag, t),
           \A i \in 1..Len(down) : ContentOK(down[i], t, state, tr, chunks) /\ StepsOK(down[i], n, tr, pl),
           \A i, j \in 1..Len(down) : i < j => SameState(down[i], down[j], tr),
           \A i \in 1..Len(new) : Fresh(new[i], r, lag, t, state),
           tr.id = t => /\ tr.stepId = state.stepId /\ tr.chunks = state.chunks
                        /\ \A c \in DOMAIN chunks : chunks[c] = state
    PROVE  LET all == down \o new
           IN  /\ DownOK(all, r, n, lag, t)
               /\ \A i \in 1..Len(all) : ContentOK(all[i], t, state, tr, chunks) /\ StepsOK(all[i], n, tr, pl)
               /\ \A i, j \in 1..Len(all) : i < j => SameState(all[i], all[j], tr)
<1>. DEFINE all == down \o new
<1>1. Age(t, t) = 0
  BY ChannelDistance, Zenon
<1>2. ASSUME NEW i \in 1..Len(new)
      PROVE  /\ Answered(new[i], r, n, lag, t) /\ ContentOK(new[i], t, state, tr, chunks)
             /\ StepsOK(new[i], n, tr, pl)
             /\ \A k \in 1..Len(new) : /\ AnsweredAfter(new[i], new[k], r, n, lag, t)
                                       /\ SameState(new[i], new[k], tr)
  <2>1. Fresh(new[i], r, lag, t, state)
    BY Zenon
  <2>2. Answered(new[i], r, n, lag, t)
    BY <1>1, <2>1 DEF Fresh, Answered
  <2>3. ContentOK(new[i], t, state, tr, chunks) /\ StepsOK(new[i], n, tr, pl)
    BY <2>1, Zenon DEF Fresh, ContentOK, StepsOK
  <2>4. ASSUME NEW k \in 1..Len(new)
        PROVE  AnsweredAfter(new[i], new[k], r, n, lag, t) /\ SameState(new[i], new[k], tr)
    <3>1. Fresh(new[k], r, lag, t, state)
      BY Zenon
    <3>. QED
      BY <1>1, <2>1, <3>1 DEF Fresh, AnsweredAfter, SameState
  <2>. QED
    BY <2>2, <2>3, <2>4, Zenon
<1>3. ASSUME NEW i \in 1..Len(down), NEW k \in 1..Len(new)
      PROVE  AnsweredAfter(down[i], new[k], r, n, lag, t) /\ SameState(down[i], new[k], tr)
  <2>1. Fresh(new[k], r, lag, t, state) /\ Answered(down[i], r, n, lag, t)
        /\ ContentOK(down[i], t, state, tr, chunks)
    BY Zenon DEF DownOK
  <2>2. down[i].type = "start" => Since(down[i].request, r) \in Nat
    <3>1. down[i] \in Downward
      OBVIOUS
    <3>2. down[i].type = "start" => down[i].request \in 1..RequestCount
      BY <3>1, DownTyped, Zenon
    <3>3. ASSUME NEW id \in 1..RequestCount PROVE Since(id, r) \in Nat
      BY RequestDistance
    <3>. QED
      BY <3>2, <3>3, Zenon
  <2>3. AnsweredAfter(down[i], new[k], r, n, lag, t)
    BY <1>1, <2>1, <2>2 DEF Fresh, Answered, AnsweredAfter
  <2>4. SameState(down[i], new[k], tr)
    BY <2>1, Zenon DEF Fresh, ContentOK, SameState
  <2>. QED
    BY <2>3, <2>4, Zenon
<1>4. all = down \o new
  BY Zenon
<1>. HIDE DEF all
<1>5. ASSUME NEW i \in 1..Len(all)
      PROVE  /\ Answered(all[i], r, n, lag, t)
             /\ ContentOK(all[i], t, state, tr, chunks) /\ StepsOK(all[i], n, tr, pl)
  <2>1. Among(all[i], down) \/ Among(all[i], new)
    BY <1>4, Joined, Zenon
  <2>. QED
    BY <1>2, <2>1, Zenon DEF DownOK, Among
<1>6. ASSUME NEW i \in 1..Len(all), NEW j \in 1..Len(all), i < j
      PROVE  AnsweredAfter(all[i], all[j], r, n, lag, t) /\ SameState(all[i], all[j], tr)
  <2>1. InOrder(all[i], all[j], down) \/ (Among(all[i], down) /\ Among(all[j], new))
            \/ InOrder(all[i], all[j], new)
    BY <1>4, <1>6, Joined, Zenon
  <2>2. CASE InOrder(all[i], all[j], down)
    BY <2>2, Zenon DEF DownOK, InOrder
  <2>3. CASE Among(all[i], down) /\ Among(all[j], new)
    BY <1>3, <2>3, Zenon DEF Among
  <2>4. CASE InOrder(all[i], all[j], new)
    BY <1>2, <2>4, Zenon DEF InOrder
  <2>. QED
    BY <2>1, <2>2, <2>3, <2>4, Zenon
<1>7. DownOK(all, r, n, lag, t)
  BY <1>5, <1>6, Zenon DEF DownOK
<1>. QED
  BY <1>5, <1>6, <1>7, Zenon DEF all

\* What holds once the server has taken a datagram, before its answer is under
\* way
Prepared ==
    /\ ServerTyped' /\ GameTyped' /\ ClientTyped' /\ (toServer \in Seq(Upward))'
    /\ ServerInv' /\ TransferInv' /\ GotInv' /\ UpInv'
    /\ AckedChunksAreReceived' /\ StepsWithoutGap'
    /\ DownOK(toClient, request', restarts', Lag', blobStreamLogicOut'.transferId)
    /\ \A i \in 1..Len(toClient) :
        /\ ContentOK(toClient[i], blobStreamLogicOut'.transferId, gameState', transfer', got')
        /\ StepsOK(toClient[i], restarts', transfer', playing')
    /\ \A i, j \in 1..Len(toClient) : i < j => SameState(toClient[i], toClient[j], transfer')

\* An answer of messages of the server's transfer keeps the invariant.
LEMMA AnswerKeeps ==
    ASSUME Prepared, LinksTyped, Lag' <= restarts',
           NEW new \in Seq(Downward), toClient' = toClient \o new,
           Len(toClient) + Len(new) <= DownSize,
           \A i \in 1..Len(new) :
               Fresh(new[i], request', Lag', blobStreamLogicOut'.transferId, gameState')
    PROVE  CatchUpInv'
<1>. DEFINE t == blobStreamLogicOut'.transferId
<1>1. toClient \in Seq(Downward)
  BY Zenon DEF LinksTyped
<1>2. /\ request' \in 1..RequestCount /\ restarts' \in Nat /\ Lag' \in Nat /\ t \in Channels
  <2>1. request' \in 1..RequestCount /\ restarts' \in Nat
    BY Constants DEF Prepared, ClientTyped, Assumed
  <2>2. blobStreamOutClientRequestId' \in 0..RequestCount /\ t \in Channels
    BY Zenon DEF Prepared, ServerTyped
  <2>3. Since(blobStreamOutClientRequestId', request') \in Nat
    BY <2>1, <2>2, RequestDistance, Zenon
  <2>. QED
    BY <2>1, <2>2, <2>3, Zenon DEF Lag
<1>3. transfer'.id = t => /\ transfer'.stepId = gameState'.stepId /\ transfer'.chunks = gameState'.chunks
                          /\ \A c \in DOMAIN got' : got'[c] = gameState'
  <2>1. t # -1
    BY <1>2, Constants DEF Assumed, Channels
  <2>. QED
    BY <2>1 DEF Prepared, GotInv, NoTransfer
<1>4. Typed'
  BY <1>1, Joined, Zenon DEF Prepared, Typed, LinksTyped
<1>5. DownInv'
  BY <1>1, <1>2, <1>3, Extended, Zenon DEF Prepared, DownInv
<1>. QED
  BY <1>4, <1>5, Zenon DEF Prepared, CatchUpInv

\* Behind the datagram that the server takes are only acknowledgements.
LEMMA Rest ==
    ASSUME CatchUpInv, toServer # <<>>, NEW i \in 1..Len(Tail(toServer))
    PROVE  LET k == Tail(toServer)[i]
               t == blobStreamLogicOut.transferId
           IN  /\ k \in Upward /\ k.type = "ack" /\ k.transferId \in Channels
               /\ Age(k.transferId, t) <= MaxRestarts
               /\ AckOK(k, t, transfer, DOMAIN got)
               /\ Head(toServer).type = "request" /\ Head(toServer).id # blobStreamOutClientRequestId
                    => Age(k.transferId, t) <= restarts - Lag
<1>1. toServer \in Seq(Upward)
  BY Zenon DEF CatchUpInv, Typed, LinksTyped
<1>2. PICK l \in 1..Len(toServer) : 1 < l /\ Tail(toServer)[i] = toServer[l]
  BY <1>1, Links
<1>3. Head(toServer) = toServer[1] /\ 1 \in 1..Len(toServer) /\ toServer[l] \in Upward
  BY <1>1, Links
<1>4. /\ SentAfter(toServer[1], toServer[l], request, restarts, blobStreamOutClientRequestId,
                   blobStreamLogicOut.transferId)
      /\ Sent(toServer[l], request, restarts, blobStreamOutClientRequestId,
              blobStreamLogicOut.transferId)
      /\ AckOK(toServer[l], blobStreamLogicOut.transferId, transfer, DOMAIN got)
  BY <1>2, <1>3, Zenon DEF CatchUpInv, UpInv, UpOK
<1>5. toServer[l].type = "ack"
  BY <1>4, Zenon DEF SentAfter
<1>. QED
  BY <1>2, <1>3, <1>4, <1>5, UpTyped, Zenon DEF SentAfter, Sent, Lag

\* Acknowledgements alone are in order.
LEMMA OnlyAcks ==
    ASSUME NEW up, NEW r, NEW n, NEW b, NEW t, NEW lag, NEW tr, NEW chunks, NEW pl,
           \A i \in 1..Len(up) : /\ up[i].type = "ack" /\ Age(up[i].transferId, t) <= MaxRestarts
                                 /\ AckOK(up[i], t, tr, chunks)
    PROVE  /\ UpOK(up, r, n, b, t)
           /\ \A i \in 1..Len(up) : AckOK(up[i], t, tr, chunks) /\ WishOK(up[i], n, lag, tr, pl)
BY Zenon DEF UpOK, Sent, SentAfter, WishOK

\* A request that is not the server's is newer, and with the transfer it
\* starts all those under way are one further away.
LEMMA TransferDistances ==
    ASSUME CatchUpInv, toServer # <<>>, Head(toServer).type = "request",
           Head(toServer).id # blobStreamOutClientRequestId
    PROVE  LET since == Since(Head(toServer).id, request)
               t     == blobStreamLogicOut.transferId
           IN  /\ Head(toServer).id \in 1..RequestCount
               /\ since \in Nat /\ since <= restarts /\ since < Lag /\ Lag \in Nat /\ restarts \in Nat
               /\ nextBlobStreamOutChannel \in Channels /\ NextChannel(nextBlobStreamOutChannel) \in Channels
               /\ \A c \in Channels : Age(c, t) <= restarts - Lag =>
                    /\ Age(c, nextBlobStreamOutChannel) = Age(c, t) + 1
                    /\ c # nextBlobStreamOutChannel
<1>. DEFINE id == Head(toServer).id
            b == blobStreamOutClientRequestId
            t == blobStreamLogicOut.transferId
<1>1. toServer \in Seq(Upward)
  BY Zenon DEF CatchUpInv, Typed, LinksTyped
<1>2. Head(toServer) = toServer[1] /\ 1 \in 1..Len(toServer) /\ Head(toServer) \in Upward
  BY <1>1, Links
<1>3. id \in 1..RequestCount
  BY <1>2, UpTyped, Zenon
<1>4. Since(id, request) <= restarts /\ Since(id, request) <= Lag
  BY <1>2, Zenon DEF CatchUpInv, UpInv, UpOK, Sent, Lag
<1>5. /\ request \in 1..RequestCount /\ restarts \in 0..MaxRestarts /\ b \in 0..RequestCount
      /\ t \in Channels /\ nextBlobStreamOutChannel \in Channels
  BY Zenon DEF CatchUpInv, Typed, ServerTyped, ClientTyped
<1>6. Since(id, request) \in Nat /\ Lag \in Nat /\ restarts \in Nat
  <2>1. \A x \in 0..RequestCount : Since(x, request) \in Nat
    BY <1>5, RequestDistance, Zenon
  <2>2. id \in 0..RequestCount /\ restarts \in Nat
    BY <1>3, <1>5, Constants DEF Assumed
  <2>. QED
    BY <1>5, <2>1, <2>2, Zenon DEF Lag
<1>7. Since(id, request) # Lag
  <2>1. CASE b = NoRequest
    <3>1. Lag = restarts + 1
      BY <2>1, Zenon DEF CatchUpInv, ServerInv
    <3>. QED
      BY <1>4, <1>6, <3>1
  <2>2. CASE b # NoRequest
    BY <1>3, <1>5, <2>2, Constants DEF Assumed, Since, Distance, Lag, NoRequest
  <2>. QED
    BY <2>1, <2>2, Zenon
<1>8. NextChannel(nextBlobStreamOutChannel) \in Channels
  BY <1>5, Constants DEF NextChannel, Channels, Assumed
<1>9. ASSUME NEW c \in Channels, Age(c, t) <= restarts - Lag
      PROVE  /\ Age(c, nextBlobStreamOutChannel) = Age(c, t) + 1
             /\ c # nextBlobStreamOutChannel
  <2>1. Age(c, t) \in Nat
    BY <1>5, ChannelDistance, Zenon
  <2>2. Lag # restarts + 1
    BY <1>6, <1>9, <2>1
  <2>3. nextBlobStreamOutChannel = NextChannel(t)
    BY <2>2, Zenon DEF CatchUpInv, ServerInv
  <2>4. Age(c, t) < ChannelCount - 1
    BY <1>4, <1>5, <1>6, <1>7, <1>9, <2>1, Constants DEF Assumed
  <2>. QED
    BY <1>5, <2>3, <2>4, NextTransfer, Zenon
<1>. QED
  BY <1>3, <1>4, <1>5, <1>6, <1>7, <1>8, <1>9

\* nimbleServerGameStateSet leaves a state that fits.
LEMMA StateSet ==
    ASSUME ServerTyped, GameTyped, NEW fetched \in Serialized
    PROVE  GameStateSet(fetched) \in States /\ GameStateSet(fetched).chunks <= Capacity
<1>1. game \in 1..MaxGame /\ readId..writeId \subseteq 0..MaxStep
  BY Constants DEF GameTyped, Assumed
<1>2. fetched \in [game : 1..MaxGame, stepId : 0..MaxStep, chunks : Sizes]
  BY <1>1, Zenon DEF Serialized
<1>3. fetched \in States /\ fetched.chunks \in Nat /\ Capacity \in Nat
  BY <1>2, StateTyped, Constants, Zenon DEF States, Assumed
<1>4. ~(Capacity < fetched.chunks) => fetched.chunks <= Capacity
  BY <1>3
<1>. QED
  BY <1>3, <1>4, Zenon DEF ServerTyped, GameStateSet

\* A request that is not the server's starts a transfer.
LEMMA StartTransferPrepares ==
    ASSUME CatchUpInv, Receives("request"),
           Head(toServer).id # blobStreamOutClientRequestId,
           NEW fetched \in Serialized, StartTransfer(Head(toServer).id, fetched),
           UNCHANGED <<gameVars, clientVars>>
    PROVE  Prepared /\ Lag' <= restarts' /\ blobStreamOutClientRequestId' = Head(toServer).id
<1>. DEFINE id == Head(toServer).id
            t == blobStreamLogicOut.transferId
            next == nextBlobStreamOutChannel
            since == Since(id, request)
<1>1. /\ toServer # <<>> /\ Head(toServer).type = "request" /\ toServer' = Tail(toServer)
      /\ game' = game /\ readId' = readId /\ writeId' = writeId
      /\ request' = request /\ transfer' = transfer /\ got' = got /\ playing' = playing
      /\ restarts' = restarts
  BY Zenon DEF Receives, gameVars, clientVars
<1>2. /\ gameState' = GameStateSet(fetched)
      /\ blobStreamLogicOut' = [transferId |-> next, state |-> gameState', acked |-> {}]
      /\ nextBlobStreamOutChannel' = NextChannel(next)
      /\ blobStreamOutClientRequestId' = id
  BY Zenon DEF StartTransfer
<1>3. /\ id \in 1..RequestCount
      /\ since \in Nat /\ since <= restarts /\ since < Lag /\ Lag \in Nat /\ restarts \in Nat
      /\ next \in Channels /\ NextChannel(next) \in Channels
      /\ \A c \in Channels : Age(c, t) <= restarts - Lag =>
            Age(c, next) = Age(c, t) + 1 /\ c # next
  BY <1>1, TransferDistances, Zenon
<1>4. Lag' = since /\ blobStreamLogicOut'.transferId = next
  BY <1>1, <1>2, Zenon DEF Lag
<1>5. \A c \in Channels : Age(c, t) \in Nat
  <2>1. t \in Channels
    BY Zenon DEF CatchUpInv, Typed, ServerTyped
  <2>. QED
    BY <2>1, ChannelDistance, Zenon
<1>6. \A c \in Channels : Age(c, t) <= restarts - Lag => Age(c, next) <= restarts - since
  BY <1>3, <1>5
<1>7. ServerTyped' /\ GameTyped' /\ ClientTyped'
  <2>1. gameState' \in States /\ gameState'.chunks <= Capacity
    BY <1>2, StateSet, Zenon DEF CatchUpInv, Typed
  <2>2. ServerTyped'
    BY <1>2, <1>3, <2>1 DEF ServerTyped
  <2>. QED
    BY <1>1, <2>2, Zenon DEF CatchUpInv, Typed, GameTyped, ClientTyped
<1>8. transfer # NoTransfer =>
        /\ transfer.id \in Channels /\ transfer.id # next
        /\ Age(transfer.id, next) <= restarts - since /\ restarts # since
  <2>1. ASSUME transfer # NoTransfer PROVE transfer.id \in Channels /\ Age(transfer.id, t) <= restarts - Lag
    BY <2>1, Zenon DEF CatchUpInv, TransferInv, Typed, ClientTyped, NoTransfer
  <2>. QED
    BY <1>3, <1>5, <1>6, <2>1
<1>9. ServerInv'
  BY <1>1, <1>2, <1>3, <1>4 DEF ServerInv, NoRequest
<1>10. TransferInv'
  BY <1>1, <1>3, <1>4, <1>8, Zenon DEF CatchUpInv, TransferInv, IsDownloading
<1>11. GotInv'
  BY <1>1, <1>4, <1>8, Zenon DEF CatchUpInv, GotInv
<1>12. AckedChunksAreReceived' /\ StepsWithoutGap'
  BY <1>1, <1>2, Zenon DEF CatchUpInv, AckedChunksAreReceived, StepsWithoutGap
<1>13. (toServer \in Seq(Upward))' /\ UpInv'
  <2>1. toServer' \in Seq(Upward)
    BY <1>1, Links, Zenon DEF CatchUpInv, Typed, LinksTyped
  <2>2. ASSUME NEW i \in 1..Len(toServer')
        PROVE  /\ toServer'[i].type = "ack" /\ Age(toServer'[i].transferId, next) <= MaxRestarts
               /\ AckOK(toServer'[i], next, transfer, DOMAIN got)
    <3>. DEFINE k == toServer'[i]
    <3>1. /\ k.type = "ack" /\ k.transferId \in Channels
          /\ AckOK(k, t, transfer, DOMAIN got) /\ Age(k.transferId, t) <= restarts - Lag
      BY <1>1, Rest, Zenon
    <3>2. k.transferId # next /\ Age(k.transferId, next) <= restarts - since
      BY <1>3, <1>6, <3>1, Zenon
    <3>3. Age(k.transferId, next) \in Nat /\ restarts <= MaxRestarts /\ MaxRestarts \in Nat
      <4>1. Age(k.transferId, next) \in Nat
        BY <1>3, <3>1, ChannelDistance, Zenon
      <4>2. restarts <= MaxRestarts /\ MaxRestarts \in Nat
        BY Constants DEF CatchUpInv, Typed, ClientTyped, Assumed
      <4>. QED
        BY <4>1, <4>2, Zenon
    <3>4. Age(k.transferId, next) <= MaxRestarts
      BY <1>3, <3>2, <3>3
    <3>5. AckOK(k, next, transfer, DOMAIN got)
      BY <3>1, <3>2, Zenon DEF AckOK
    <3>. QED
      BY <3>1, <3>4, <3>5, Zenon
  <2>. QED
    BY <1>1, <1>4, <2>1, <2>2, OnlyAcks, Zenon DEF UpInv
<1>14. \A i \in 1..Len(toClient) : /\ toClient[i] \in Downward
                                   /\ Answered(toClient[i], request, restarts, Lag, t)
                                   /\ ContentOK(toClient[i], t, gameState, transfer, got)
  BY DEF CatchUpInv, Typed, LinksTyped, DownInv, DownOK
<1>15. ASSUME NEW i \in 1..Len(toClient)
       PROVE  /\ toClient[i].type # "steps" => /\ toClient[i].transferId \in Channels
                                               /\ toClient[i].transferId # next
                                               /\ Age(toClient[i].transferId, next) <= restarts - since
              /\ toClient[i].type # "steps" => Age(toClient[i].transferId, t) \in Nat
              /\ toClient[i].type # "steps" => Age(toClient[i].transferId, next) = Age(toClient[i].transferId, t) + 1
              /\ toClient[i].type = "start" => Since(toClient[i].request, request) \in Nat
  <2>1. /\ toClient[i].type # "steps" => toClient[i].transferId \in Channels
        /\ toClient[i].type = "start" => toClient[i].request \in 1..RequestCount
    BY <1>14, DownTyped, Zenon
  <2>2. toClient[i].type # "steps" => Age(toClient[i].transferId, t) <= restarts - Lag
    BY <1>14, Zenon DEF Answered
  <2>3. request \in 1..RequestCount /\ \A r \in 1..RequestCount : Since(r, request) \in Nat
    BY RequestDistance DEF CatchUpInv, Typed, ClientTyped
  <2>. QED
    BY <1>3, <1>5, <1>6, <2>1, <2>2, <2>3, Zenon
<1>16. \A i \in 1..Len(toClient) : /\ Answered(toClient[i], request, restarts, since, next)
                                   /\ ContentOK(toClient[i], next, gameState', transfer, got)
  <2>1. ASSUME NEW i \in 1..Len(toClient)
        PROVE  Answered(toClient[i], request, restarts, since, next)
    <3>. DEFINE m == toClient[i]
                age == Since(m.request, request)
    <3>1. m.type # "steps" => m.transferId # next /\ Age(m.transferId, next) <= restarts - since
      BY <1>15, Zenon
    <3>2. m.type = "start" => m.type # "steps"
      BY Zenon
    <3>3. m.type = "start" => age \in Nat /\ Lag <= age /\ age <= restarts
      BY <1>14, <1>15, Zenon DEF Answered
    <3>4. ASSUME age \in Nat, Lag <= age PROVE since <= age /\ age # since
      BY <1>3, <3>4
    <3>. QED
      BY <3>1, <3>2, <3>3, <3>4, Zenon DEF Answered
  <2>2. \A i \in 1..Len(toClient) : ContentOK(toClient[i], next, gameState', transfer, got)
    BY <1>3, <1>14, <1>15 DEF ContentOK
  <2>. QED
    BY <2>1, <2>2, Zenon
<1>17. ASSUME NEW i \in 1..Len(toClient), NEW j \in 1..Len(toClient), i < j
       PROVE  AnsweredAfter(toClient[i], toClient[j], request, restarts, since, next)
  <2>1. AnsweredAfter(toClient[i], toClient[j], request, restarts, Lag, t)
    BY <1>17, Zenon DEF CatchUpInv, DownInv, DownOK
  <2>. DEFINE m == toClient[i]
              k == toClient[j]
  <2>2. /\ k.type # "steps" => /\ Age(k.transferId, t) \in Nat
                               /\ Age(k.transferId, next) = Age(k.transferId, t) + 1
        /\ m.type = "start" => Since(m.request, request) \in Nat
    BY <1>15, Zenon
  <2>. HIDE DEF m, k
  <2>3. AnsweredAfter(m, k, request, restarts, since, next)
    BY <1>3, <2>1, <2>2 DEF AnsweredAfter, m, k
  <2>. QED
    BY <2>3, Zenon DEF m, k
<1>18. DownOK(toClient, request, restarts, since, next)
  BY <1>16, <1>17, Zenon DEF DownOK
<1>19. Prepared
  BY <1>1, <1>4, <1>7, <1>9, <1>10, <1>11, <1>12, <1>13, <1>16, <1>18, Zenon
    DEF Prepared, CatchUpInv, DownInv
<1>. QED
  BY <1>1, <1>2, <1>3, <1>4, <1>19, Zenon

\* A datagram that leaves the server's transfer as it is, but for the chunks
\* that are acknowledged
LEMMA TransferKeptPrepares ==
    ASSUME CatchUpInv, toServer # <<>>, toServer' = Tail(toServer),
           UNCHANGED <<gameState, blobStreamOutClientRequestId, nextBlobStreamOutChannel, clientVars>>,
           GameTyped',
           NEW acked \in SUBSET (1..gameState.chunks),
           blobStreamLogicOut' = [transferId |-> blobStreamLogicOut.transferId,
                                  state |-> gameState, acked |-> acked],
           AckedChunksAreReceived'
    PROVE  Prepared
<1>. DEFINE t == blobStreamLogicOut.transferId
<1>1. /\ request' = request /\ transfer' = transfer /\ got' = got /\ playing' = playing
      /\ restarts' = restarts /\ gameState' = gameState
      /\ blobStreamOutClientRequestId' = blobStreamOutClientRequestId
      /\ nextBlobStreamOutChannel' = nextBlobStreamOutChannel
  BY Zenon DEF clientVars
<1>2. Lag' = Lag /\ blobStreamLogicOut'.transferId = t
  BY <1>1, Zenon DEF Lag
<1>3. ServerTyped' /\ GameTyped' /\ ClientTyped'
  BY <1>1, Zenon DEF CatchUpInv, Typed, ServerTyped, ClientTyped
<1>4. ServerInv' /\ TransferInv' /\ GotInv' /\ StepsWithoutGap'
  BY <1>1, <1>2, Zenon DEF CatchUpInv, ServerInv, TransferInv, GotInv, StepsWithoutGap, IsDownloading
<1>5. (toServer \in Seq(Upward))' /\ UpInv'
  <2>1. toServer' \in Seq(Upward)
    BY Links, Zenon DEF CatchUpInv, Typed, LinksTyped
  <2>2. ASSUME NEW i \in 1..Len(toServer')
        PROVE  /\ toServer'[i].type = "ack" /\ Age(toServer'[i].transferId, t) <= MaxRestarts
               /\ AckOK(toServer'[i], t, transfer, DOMAIN got)
    BY Rest, Zenon
  <2>. QED
    BY <1>1, <1>2, <2>1, <2>2, OnlyAcks, Zenon DEF UpInv
<1>. QED
  BY <1>1, <1>2, <1>3, <1>4, <1>5, Zenon DEF Prepared, CatchUpInv, DownInv

\* The chunks that are sent once a datagram is taken, behind the response if
\* there is one
LEMMA SentKeeps ==
    ASSUME Prepared, LinksTyped, HasRoom, Lag' <= restarts',
           NEW due \in BOOLEAN, NEW entries \in PrepareSend(blobStreamLogicOut', due),
           NEW first \in {<<>>, <<DownloadResponse(blobStreamOutClientRequestId', gameState',
                                                   blobStreamLogicOut')>>},
           blobStreamOutClientRequestId' # NoRequest,
           toClient' = toClient \o (first \o SendBlobStream(blobStreamLogicOut', entries))
    PROVE  CatchUpInv'
<1>. DEFINE logic == blobStreamLogicOut'
            sent == SendBlobStream(logic, entries)
            response == DownloadResponse(blobStreamOutClientRequestId', gameState', logic)
            new == first \o sent
            FreshNow(m) == Fresh(m, request', Lag', logic.transferId, gameState')
<1>1. /\ logic.transferId \in Channels /\ logic.state = gameState' /\ gameState' \in States
      /\ gameState'.chunks <= Capacity /\ blobStreamOutClientRequestId' \in 1..RequestCount
  <2>1. blobStreamOutClientRequestId' \in 0..RequestCount
    BY Zenon DEF Prepared, ServerTyped
  <2>2. blobStreamOutClientRequestId' \in 1..RequestCount
    BY <2>1, Constants DEF Assumed, NoRequest
  <2>. QED
    BY <2>2, Zenon DEF Prepared, ServerTyped
<1>2. /\ gameState'.chunks \in 0..Capacity /\ gameState'.stepId \in 0..MaxStep
      /\ MaxEntries \in Nat /\ DownSize \in Nat
  BY <1>1, StateTyped, Constants DEF Assumed
<1>3. /\ sent \in Seq(Downward) /\ Len(sent) <= MaxEntries
      /\ \A i \in 1..Len(sent) : \E c \in 1..logic.state.chunks : sent[i] = Chunk(logic, c)
  BY <1>1, Sends, Zenon
<1>4. response \in Downward /\ FreshNow(response)
  BY <1>1, <1>2, Zenon DEF DownloadResponse, Downward, Fresh, Lag
<1>5. \A c \in 1..logic.state.chunks : FreshNow(Chunk(logic, c))
  BY <1>1, Zenon DEF Chunk, Fresh
<1>6. /\ first \in Seq(Downward) /\ Len(first) <= 1
      /\ \A i \in 1..Len(first) : first[i] = response
  <2>1. first = <<>> \/ first = <<response>>
    BY Zenon
  <2>. HIDE DEF response
  <2>2. CASE first = <<>>
    BY <2>2
  <2>3. CASE first = <<response>>
    BY <1>4, <2>3
  <2>. QED
    BY <2>1, <2>2, <2>3, Zenon
<1>. HIDE DEF logic, sent, response, FreshNow
<1>7. new = first \o sent
  BY Zenon
<1>. HIDE DEF new
<1>8. /\ new \in Seq(Downward) /\ Len(new) = Len(first) + Len(sent)
      /\ Len(first) \in Nat /\ Len(sent) \in Nat
      /\ \A i \in 1..Len(new) : Among(new[i], first) \/ Among(new[i], sent)
  BY <1>3, <1>6, <1>7, Joined, Zenon
<1>9. \A i \in 1..Len(new) : FreshNow(new[i])
  BY <1>3, <1>4, <1>5, <1>6, <1>8, Zenon DEF Among
<1>10. Len(toClient) + Len(new) <= DownSize
  <2>1. Len(toClient) \in Nat
    BY DEF LinksTyped
  <2>. QED
    BY <1>2, <1>3, <1>6, <1>8, <2>1 DEF HasRoom
<1>11. toClient' = toClient \o new
  BY <1>7, Zenon DEF sent, logic
<1>. QED
  BY <1>8, <1>9, <1>10, <1>11, AnswerKeeps, Zenon DEF FreshNow, logic

\* nimbleServerReqDownloadGameState answers a request that it already has, and
\* starts a transfer for another.
LEMMA ReqDownloadGameStateKeeps ==
    ASSUME CatchUpInv, NEW due \in BOOLEAN, ReqDownloadGameState(due)
    PROVE  CatchUpInv'
<1>. DEFINE id == Head(toServer).id
<1>1. /\ Receives("request") /\ UNCHANGED <<gameVars, clientVars>>
      /\ HasRoom /\ toServer # <<>> /\ Head(toServer).type = "request" /\ toServer' = Tail(toServer)
      /\ LinksTyped
  BY Zenon DEF ReqDownloadGameState, Receives, CatchUpInv, Typed
<1>2. PICK fetched \in Serialized : PrepareDownload(id, fetched)
  BY Zenon DEF ReqDownloadGameState
<1>3. PICK entries \in PrepareSend(blobStreamLogicOut', due) :
        toClient' = toClient \o (<<DownloadResponse(id, gameState', blobStreamLogicOut')>>
                                    \o SendBlobStream(blobStreamLogicOut', entries))
  BY Zenon DEF ReqDownloadGameState
<1>4. Prepared /\ Lag' <= restarts' /\ blobStreamOutClientRequestId' = id /\ id \in 1..RequestCount
  <2>1. toServer[1] = Head(toServer) /\ 1 \in 1..Len(toServer) /\ Head(toServer) \in Upward
    BY <1>1, Links DEF LinksTyped
  <2>2. id \in 1..RequestCount /\ Since(id, request) <= restarts
    BY <1>1, <2>1, UpTyped, Zenon DEF CatchUpInv, UpInv, UpOK, Sent
  <2>3. CASE id = blobStreamOutClientRequestId
    <3>1. UNCHANGED downloadVars
      BY <1>2, <2>3, Zenon DEF PrepareDownload
    <3>2. /\ blobStreamLogicOut.acked \in SUBSET (1..gameState.chunks)
          /\ blobStreamLogicOut = [transferId |-> blobStreamLogicOut.transferId,
                                   state |-> gameState, acked |-> blobStreamLogicOut.acked]
      BY Zenon DEF CatchUpInv, Typed, ServerTyped
    <3>3. AckedChunksAreReceived'
      BY <1>1, <3>1, Zenon DEF CatchUpInv, AckedChunksAreReceived, downloadVars, clientVars
    <3>4. GameTyped'
      BY <1>1, Zenon DEF CatchUpInv, Typed, GameTyped, gameVars
    <3>5. Prepared
      BY <1>1, <3>1, <3>2, <3>3, <3>4, TransferKeptPrepares, Zenon DEF downloadVars
    <3>. QED
      BY <1>1, <2>2, <2>3, <3>1, <3>5, Zenon DEF Lag, downloadVars, clientVars
  <2>4. CASE id # blobStreamOutClientRequestId
    <3>1. StartTransfer(id, fetched)
      BY <1>2, <2>4, Zenon DEF PrepareDownload
    <3>. QED
      BY <1>1, <2>2, <2>4, <3>1, StartTransferPrepares, Zenon
  <2>. QED
    BY <2>3, <2>4, Zenon
<1>5. id # NoRequest
  BY <1>4 DEF NoRequest
<1>. QED
  BY <1>1, <1>3, <1>4, <1>5, SentKeeps, Zenon

\* nimbleServerReqBlobStream takes an acknowledgement of its transfer, and goes
\* on with the chunks that are left.
LEMMA ReqAckKeeps == ASSUME CatchUpInv, NEW due \in BOOLEAN, ReqAck(due) PROVE CatchUpInv'
<1>. DEFINE m == Head(toServer)
            t == blobStreamLogicOut.transferId
            acked == blobStreamLogicOut.acked \cup m.chunks
<1>1. /\ HasRoom /\ toServer # <<>> /\ m.type = "ack" /\ toServer' = Tail(toServer) /\ LinksTyped
      /\ ReqBlobStream(m) /\ UNCHANGED <<gameVars, clientVars>>
      /\ UNCHANGED <<gameState, blobStreamOutClientRequestId, nextBlobStreamOutChannel>>
  BY Zenon DEF ReqAck, Receives, CatchUpInv, Typed, ReqBlobStream
<1>2. CASE ~AcceptsAck(blobStreamLogicOut, m)
  <2>1. UNCHANGED <<downloadVars, toClient>>
    BY <1>1, <1>2, Zenon DEF ReqAck, ReqBlobStream, downloadVars
  <2>. QED
    BY <1>1, <2>1, DroppedUp, Zenon
<1>3. CASE AcceptsAck(blobStreamLogicOut, m)
  <2>1. PICK entries \in PrepareSend(blobStreamLogicOut', due) :
            toClient' = toClient \o SendBlobStream(blobStreamLogicOut', entries)
    BY <1>3, Zenon DEF ReqAck
  <2>2. /\ t \in Channels /\ gameState \in States /\ gameState.chunks <= Capacity
        /\ blobStreamLogicOut.acked \subseteq 1..gameState.chunks
        /\ blobStreamLogicOut = [transferId |-> t, state |-> gameState,
                                 acked |-> blobStreamLogicOut.acked]
    BY Zenon DEF CatchUpInv, Typed, ServerTyped
  <2>3. toServer[1] = m /\ 1 \in 1..Len(toServer) /\ m.transferId = t
    BY <1>1, <1>3, Links, Zenon DEF LinksTyped, AcceptsAck
  <2>4. transfer # NoTransfer /\ transfer.id = t /\ m.chunks \subseteq DOMAIN got
    BY <1>1, <2>3, Zenon DEF CatchUpInv, UpInv, AckOK
  <2>5. DOMAIN got \subseteq 1..gameState.chunks
    BY <2>4, Zenon DEF CatchUpInv, Typed, ClientTyped, GotInv
  <2>6. blobStreamLogicOut' = [transferId |-> t, state |-> gameState, acked |-> acked]
    <3>1. blobStreamLogicOut' = [blobStreamLogicOut EXCEPT !.acked = acked]
      BY <1>1, <1>3, Zenon DEF ReqBlobStream
    <3>. HIDE DEF acked
    <3>. QED
      BY <2>2, <3>1
  <2>7. acked \in SUBSET (1..gameState.chunks)
    BY <2>2, <2>4, <2>5, Zenon
  <2>8. AckedChunksAreReceived'
    BY <1>1, <2>4, <2>6, Zenon DEF CatchUpInv, AckedChunksAreReceived, clientVars
  <2>9. GameTyped'
    BY <1>1, Zenon DEF CatchUpInv, Typed, GameTyped, gameVars
  <2>10. Prepared
    BY <1>1, <2>6, <2>7, <2>8, <2>9, TransferKeptPrepares, Zenon
  <2>11. Lag <= restarts /\ blobStreamOutClientRequestId # NoRequest
    <3>1. Age(t, t) = 0 /\ Age(transfer.id, t) <= restarts - Lag
      BY <2>2, <2>4, ChannelDistance, Zenon DEF CatchUpInv, TransferInv
    <3>2. restarts \in Nat /\ Lag \in Nat
      <4>1. /\ restarts \in Nat /\ request \in 1..RequestCount
            /\ blobStreamOutClientRequestId \in 0..RequestCount
        BY Constants DEF CatchUpInv, Typed, ServerTyped, ClientTyped, Assumed
      <4>. QED
        BY <4>1, RequestDistance, Zenon DEF Lag
    <3>3. Lag <= restarts
      BY <2>4, <3>1, <3>2
    <3>. QED
      BY <3>2, <3>3 DEF CatchUpInv, ServerInv
  <2>12. Lag' <= restarts' /\ blobStreamOutClientRequestId' # NoRequest
    BY <1>1, <2>11, Zenon DEF Lag, clientVars
  <2>13. SendBlobStream(blobStreamLogicOut', entries) \in Seq(Downward)
    BY <2>2, <2>6, Sends, Zenon
  <2>14. \A s \in Seq(Downward) : <<>> \o s = s
    OBVIOUS
  <2>15. toClient' = toClient \o (<<>> \o SendBlobStream(blobStreamLogicOut', entries))
    BY <2>1, <2>13, <2>14, Zenon
  <2>. QED
    BY <1>1, <2>10, <2>12, <2>15, SentKeeps, Zenon
<1>. QED
  BY <1>2, <1>3, Zenon

\* The steps of an answer have no gap between the one that was asked for and
\* any other.
LEMMA AnsweredSteps ==
    ASSUME NEW rd \in Nat, NEW wr \in 0..MaxStep, NEW waiting \in Nat, NEW from \in Nat,
           waiting <= from, NEW s \in SentSteps(rd, wr, waiting, {})
    PROVE  /\ s \in 0..(MaxStep - 1)
           /\ from..s \subseteq SentSteps(rd, wr, waiting, {})
<1>1. MaxStep \in Nat /\ MaxRedundancy \in Nat \ {0} /\ wr \in Nat /\ wr <= MaxStep
  BY Constants, MaxRedundancyAssumption DEF Assumed
<1>2. SentSteps(rd, wr, waiting, {}) = ContinuationRange(waiting, wr)
  BY Zenon DEF SentSteps, PendingSteps
<1>3. s \in ContinuationRange(waiting, wr)
  BY <1>2, Zenon
<1>4. s \in 0..(MaxStep - 1)
  BY <1>1, <1>3 DEF ContinuationRange
<1>5. from..s \subseteq ContinuationRange(waiting, wr)
  BY <1>1, <1>3 DEF ContinuationRange
<1>. QED
  BY <1>2, <1>4, <1>5, Zenon

\* nimbleServerReqGameStep answers from the step that is asked for on, if it
\* answers.
LEMMA ReqGameStepKeeps == ASSUME CatchUpInv, ReqGameStep \/ RefuseGameStep PROVE CatchUpInv'
<1>. DEFINE m == Head(toServer)
            t == blobStreamLogicOut.transferId
            steps == SentSteps(readId', writeId', m.waiting, m.missing)
            answer == [type |-> "steps", steps |-> steps]
<1>1. /\ HasRoom /\ toServer # <<>> /\ m.type = "step" /\ toServer' = Tail(toServer) /\ LinksTyped
      /\ MakeSteps /\ UNCHANGED <<downloadVars, clientVars>>
      /\ toClient' = toClient \/ toClient' = Append(toClient, answer)
  BY Zenon DEF ReqGameStep, RefuseGameStep, Receives, CatchUpInv, Typed
<1>2. GameTyped'
  BY <1>1, WindowKept, Zenon DEF CatchUpInv, Typed
<1>3. /\ blobStreamLogicOut.acked \in SUBSET (1..gameState.chunks)
      /\ blobStreamLogicOut = [transferId |-> t, state |-> gameState,
                               acked |-> blobStreamLogicOut.acked]
  BY Zenon DEF CatchUpInv, Typed, ServerTyped
<1>4. AckedChunksAreReceived'
  BY <1>1, Zenon DEF CatchUpInv, AckedChunksAreReceived, downloadVars, clientVars
<1>5. Prepared
  BY <1>1, <1>2, <1>3, <1>4, TransferKeptPrepares, Zenon DEF downloadVars
<1>6. CASE toClient' = toClient
  <2>1. LinksTyped'
    BY <1>1, <1>5, <1>6, Zenon DEF LinksTyped, Prepared
  <2>. QED
    BY <1>5, <1>6, <2>1, Zenon DEF CatchUpInv, Typed, Prepared, DownInv
<1>7. CASE toClient' = Append(toClient, answer)
  <2>1. toServer[1] = m /\ 1 \in 1..Len(toServer) /\ m \in Upward
    BY <1>1, Links DEF LinksTyped
  <2>2. /\ m.missing = {} /\ transfer # NoTransfer
        /\ restarts = 0 => playing # NotPlaying /\ m.waiting <= playing.waiting
        /\ restarts > 0 => Lag > 0
    BY <1>1, <2>1, Zenon DEF CatchUpInv, UpInv, WishOK
  <2>3. /\ readId' \in Nat /\ writeId' \in 0..MaxStep /\ m.waiting \in Nat
        /\ playing.waiting \in Nat /\ MaxStep \in Nat /\ MaxEntries \in Nat \ {0} /\ DownSize \in Nat
    <3>1. MaxStep \in Nat /\ MaxEntries \in Nat \ {0} /\ DownSize \in Nat
      BY Constants, Zenon DEF Assumed
    <3>2. m.waiting \in 0..MaxStep
      BY <1>1, <2>1, UpTyped, Zenon
    <3>3. playing.waiting \in 0..MaxStep
      BY Zenon DEF CatchUpInv, Typed, ClientTyped
    <3>4. readId' \in Nat /\ writeId' \in 0..MaxStep
      BY <1>2, <3>1 DEF GameTyped
    <3>. QED
      BY <3>1, <3>2, <3>3, <3>4
  <2>4. steps \subseteq 0..(MaxStep - 1)
    <3>1. m.waiting <= m.waiting
      BY <2>3
    <3>. QED
      BY <2>2, <2>3, <3>1, AnsweredSteps, Zenon
  <2>5. restarts = 0 => \A s \in steps : playing.waiting..s \subseteq steps
    BY <2>2, <2>3, AnsweredSteps, Zenon
  <2>6. answer \in Downward
    BY <2>4, Zenon DEF Downward
  <2>7. /\ answer.type = "steps" /\ answer.steps = steps
    BY Zenon
  <2>. HIDE DEF answer, steps
  <2>8. toClient' \in Seq(Downward) /\ Len(toClient') = Len(toClient) + 1 /\ Len(toClient) \in Nat
        /\ toClient'[Len(toClient) + 1] = answer
        /\ \A i \in 1..Len(toClient) : toClient'[i] = toClient[i]
    BY <1>1, <1>7, <2>6 DEF LinksTyped
  <2>9. Typed'
    BY <1>1, <1>5, <2>3, <2>8 DEF Typed, LinksTyped, Prepared, HasRoom
  <2>10. /\ Answered(answer, request, restarts, Lag, t)
         /\ ContentOK(answer, t, gameState, transfer, got)
         /\ StepsOK(answer, restarts, transfer, playing)
    BY <2>2, <2>5, <2>7, Zenon DEF Answered, ContentOK, StepsOK
  <2>11. ASSUME NEW i \in 1..Len(toClient)
         PROVE  /\ AnsweredAfter(toClient[i], answer, request, restarts, Lag, t)
                /\ SameState(toClient[i], answer, transfer)
    <3>1. ASSUME toClient[i].type = "start", toClient[i].request = request PROVE restarts = 0
      <4>1. Lag <= Since(request, request)
        BY <3>1, Zenon DEF CatchUpInv, DownInv, DownOK, Answered
      <4>2. /\ restarts \in Nat /\ request \in 1..RequestCount
            /\ blobStreamOutClientRequestId \in 0..RequestCount
        BY Constants DEF CatchUpInv, Typed, ServerTyped, ClientTyped, Assumed
      <4>3. Since(request, request) = 0 /\ Lag \in Nat
        BY <4>2, RequestDistance DEF Lag
      <4>. QED
        BY <2>2, <4>1, <4>2, <4>3
    <3>. QED
      BY <2>7, <3>1, Zenon DEF AnsweredAfter, SameState
  <2>12. /\ \A i \in 1..Len(toClient') : i \in 1..Len(toClient) \/ i = Len(toClient) + 1
         /\ \A i, j \in 1..Len(toClient') : i < j => i \in 1..Len(toClient)
    BY <2>8
  <2>13. DownInv'
    BY <1>1, <2>8, <2>10, <2>11, <2>12, Zenon
       DEF CatchUpInv, DownInv, DownOK, Lag, downloadVars, clientVars
  <2>. QED
    BY <1>5, <2>9, <2>13, Zenon DEF CatchUpInv, Prepared
<1>. QED
  BY <1>1, <1>6, <1>7, Zenon

\* Chunks that are sent are of the server's copy, which is of the game or of
\* one before.
LEMMA SentKeepsAhead ==
    ASSUME CatchUpInv, CatchUpInv', AheadInv, UNCHANGED <<game, writeId, got, playing>>,
           Behind(gameState, game, writeId)', NEW due \in BOOLEAN,
           NEW entries \in PrepareSend(blobStreamLogicOut', due),
           NEW first \in Seq(Downward), \A i \in 1..Len(first) : first[i].type = "start",
           toClient' = toClient \o (first \o SendBlobStream(blobStreamLogicOut', entries))
    PROVE  AheadInv'
<1>. DEFINE logic == blobStreamLogicOut'
            sent == SendBlobStream(logic, entries)
            new == first \o sent
            now == Current(playing, got, game)
<1>1. toClient \in Seq(Downward) /\ now \in BOOLEAN
  BY AheadTyped, Zenon
<1>2. logic.transferId \in Channels /\ logic.state \in States /\ logic.state.chunks <= Capacity
      /\ logic.state = gameState'
  BY Zenon DEF CatchUpInv, Typed, ServerTyped
<1>3. /\ sent \in Seq(Downward)
      /\ \A i \in 1..Len(sent) : \E c \in 1..logic.state.chunks : sent[i] = Chunk(logic, c)
  BY <1>2, Sends, Zenon
<1>4. \A i \in 1..Len(sent) : sent[i].type # "steps" /\ Timely(sent[i], game, writeId, now)
  <2>1. \A c : Chunk(logic, c).type = "chunk" /\ Chunk(logic, c).state = gameState'
    BY <1>2, Zenon DEF Chunk
  <2>. HIDE DEF sent, logic
  <2>. QED
    BY <1>3, <2>1, Zenon DEF Timely
<1>5. \A i \in 1..Len(first) : first[i].type # "steps" /\ Timely(first[i], game, writeId, now)
  BY Zenon DEF Timely
<1>6. new = first \o sent /\ toClient' = toClient \o new
  BY Zenon
<1>. HIDE DEF new, sent, now
<1>7. new \in Seq(Downward) /\ \A i \in 1..Len(new) : Among(new[i], first) \/ Among(new[i], sent)
  BY <1>3, <1>6, Joined, Zenon
<1>8. NoSteps(new, game, writeId, now)
  BY <1>4, <1>5, <1>7, Zenon DEF Among, NoSteps
<1>9. AllTimely(toClient, game, writeId, now)
  BY Zenon DEF AheadInv, now
<1>10. AllTimely(toClient', game, writeId, now)
  <2>1. Joins(toClient', toClient, new)
    BY <1>6, Zenon DEF Joins
  <2>. QED
    BY <1>1, <1>7, <1>8, <1>9, <2>1, TimelySent
<1>11. playing'.game <= game' /\ NeverAhead' /\ \A c \in DOMAIN got' : Behind(got'[c], game', writeId')
  BY Zenon DEF AheadInv, NeverAhead, IsDownloading
<1>. QED
  BY <1>10, <1>11, Zenon DEF AheadInv, now

\* A new transfer is of the host's state, or of the copy there was.
LEMMA ReqDownloadGameStateKeepsAhead ==
    ASSUME CatchUpInv, CatchUpInv', AheadInv, NEW due \in BOOLEAN, ReqDownloadGameState(due)
    PROVE  AheadInv'
<1>. DEFINE id == Head(toServer).id
            first == <<DownloadResponse(id, gameState', blobStreamLogicOut')>>
<1>1. /\ UNCHANGED <<game, readId, writeId, got, playing>> /\ toServer # <<>>
      /\ Head(toServer).type = "request"
  BY Zenon DEF ReqDownloadGameState, Receives, gameVars, clientVars
<1>2. PICK fetched \in Serialized : PrepareDownload(id, fetched)
  BY Zenon DEF ReqDownloadGameState
<1>3. PICK entries \in PrepareSend(blobStreamLogicOut', due) :
        toClient' = toClient \o (first \o SendBlobStream(blobStreamLogicOut', entries))
  BY Zenon DEF ReqDownloadGameState
<1>4. Behind(gameState, game, writeId)'
  <2>1. game \in Nat /\ writeId \in Nat /\ readId \in Int
    BY AheadTyped DEF CatchUpInv, Typed, GameTyped
  <2>2. fetched.game = game /\ fetched.stepId <= writeId
    BY <2>1 DEF Serialized
  <2>3. Behind(fetched, game, writeId)
    BY <2>1, <2>2 DEF Behind
  <2>4. gameState' = gameState \/ gameState' = fetched
    BY <1>2, Zenon DEF PrepareDownload, StartTransfer, GameStateSet, downloadVars
  <2>. QED
    BY <1>1, <2>3, <2>4, Zenon DEF AheadInv
<1>5. id \in 1..RequestCount
  BY <1>1, Links, UpTyped DEF CatchUpInv, Typed, LinksTyped
<1>6. gameState' \in States /\ gameState'.chunks <= Capacity /\ blobStreamLogicOut'.transferId \in Channels
  BY Zenon DEF CatchUpInv, Typed, ServerTyped
<1>7. gameState'.chunks \in 0..Capacity /\ gameState'.stepId \in 0..MaxStep
  BY <1>6, StateTyped, Constants DEF Assumed
<1>8. DownloadResponse(id, gameState', blobStreamLogicOut') \in Downward
      /\ DownloadResponse(id, gameState', blobStreamLogicOut').type = "start"
  BY <1>5, <1>6, <1>7, Zenon DEF DownloadResponse, Downward
<1>9. \A m \in Downward : <<m>> \in Seq(Downward) /\ Len(<<m>>) = 1 /\ <<m>>[1] = m
  OBVIOUS
<1>10. first \in Seq(Downward) /\ \A i \in 1..Len(first) : first[i].type = "start"
  BY <1>8, <1>9
<1>. QED
  BY <1>1, <1>3, <1>4, <1>10, SentKeepsAhead, Zenon

\* An acknowledgement is answered with chunks of the same transfer.
LEMMA ReqAckKeepsAhead ==
    ASSUME CatchUpInv, CatchUpInv', AheadInv, NEW due \in BOOLEAN, ReqAck(due)
    PROVE  AheadInv'
<1>1. UNCHANGED <<game, writeId, got, playing, gameState>>
  BY Zenon DEF ReqAck, ReqBlobStream, gameVars, clientVars
<1>2. CASE toClient' = toClient
  BY <1>1, <1>2, LessKeepsAhead, Zenon
<1>3. ASSUME NEW entries \in PrepareSend(blobStreamLogicOut', due),
             toClient' = toClient \o SendBlobStream(blobStreamLogicOut', entries)
      PROVE  AheadInv'
  <2>1. SendBlobStream(blobStreamLogicOut', entries) \in Seq(Downward)
    BY Sends, Zenon DEF CatchUpInv, Typed, ServerTyped
  <2>2. \A s \in Seq(Downward) : <<>> \o s = s
    OBVIOUS
  <2>3. toClient' = toClient \o (<<>> \o SendBlobStream(blobStreamLogicOut', entries))
    BY <1>3, <2>1, <2>2, Zenon
  <2>4. <<>> \in Seq(Downward) /\ Len(<<>>) = 0
    OBVIOUS
  <2>5. Behind(gameState, game, writeId)'
    BY <1>1, Zenon DEF AheadInv
  <2>6. \A i \in 1..Len(<<>>) : <<>>[i].type = "start"
    OBVIOUS
  <2>. QED
    BY <1>1, <2>3, <2>4, <2>5, <2>6, SentKeepsAhead, Zenon
<1>. QED
  BY <1>2, <1>3, Zenon DEF ReqAck

\* The steps of an answer are of the game.
LEMMA ReqGameStepKeepsAhead ==
    ASSUME CatchUpInv, CatchUpInv', AheadInv, ReqGameStep \/ RefuseGameStep PROVE AheadInv'
<1>. DEFINE m == Head(toServer)
            steps == SentSteps(readId', writeId', m.waiting, m.missing)
            answer == [type |-> "steps", steps |-> steps]
            now == Current(playing, got, game)
<1>1. /\ toServer # <<>> /\ m.type = "step" /\ MakeSteps /\ game' = game
      /\ UNCHANGED <<gameState, got, playing>>
      /\ toClient' = toClient \/ toClient' = Append(toClient, answer)
  BY Zenon DEF ReqGameStep, RefuseGameStep, Receives, MakeSteps, downloadVars, clientVars
<1>2. writeId <= writeId' /\ writeId' \in Nat /\ game \in Nat /\ toClient \in Seq(Downward)
  <2>1. GameTyped /\ GameTyped'
    BY Zenon DEF CatchUpInv, Typed
  <2>2. writeId' \in Nat
    BY <2>1, Constants DEF GameTyped, Assumed
  <2>. QED
    BY <1>1, <2>1, <2>2, WindowKept, AheadTyped, Zenon
<1>3. /\ Behind(gameState, game, writeId)' /\ playing'.game <= game' /\ NeverAhead'
      /\ \A c \in DOMAIN got' : Behind(got'[c], game', writeId')
      /\ AllTimely(toClient, game', writeId', now)
  BY <1>1, <1>2, GameKeepsAhead, Zenon
<1>4. CASE toClient' = toClient
  BY <1>1, <1>3, <1>4, Zenon DEF AheadInv
<1>5. CASE toClient' = Append(toClient, answer)
  <2>1. m = toServer[1] /\ 1 \in 1..Len(toServer) /\ m \in Upward
    BY <1>1, Links DEF CatchUpInv, Typed, LinksTyped
  <2>2. m.missing = {}
    BY <1>1, <2>1, Zenon DEF CatchUpInv, UpInv, WishOK
  <2>3. m.waiting \in Nat /\ MaxRedundancy \in Nat \ {0}
    BY <1>1, <2>1, UpTyped, Constants, MaxRedundancyAssumption DEF Assumed
  <2>4. Within(steps, writeId')
    BY <1>2, <2>2, <2>3 DEF SentSteps, PendingSteps, ContinuationRange, Within
  <2>5. answer.type = "steps" /\ answer.steps = steps
    BY Zenon
  <2>. HIDE DEF answer, steps, now
  <2>6. /\ Len(toClient') = Len(toClient) + 1 /\ Len(toClient) \in Nat
        /\ toClient'[Len(toClient) + 1] = answer
        /\ \A i \in 1..Len(toClient) : toClient'[i] = toClient[i]
    BY <1>2, <1>5
  <2>7. /\ \A i \in 1..Len(toClient') : i \in 1..Len(toClient) \/ i = Len(toClient) + 1
        /\ \A i, j \in 1..Len(toClient') : i < j => i \in 1..Len(toClient)
    BY <2>6
  <2>8. /\ Timely(answer, game', writeId', now)
        /\ \A i \in 1..Len(toClient) : TimelyAfter(toClient[i], answer, game', writeId')
    BY <2>4, <2>5, Zenon DEF Timely, TimelyAfter
  <2>9. AllTimely(toClient', game', writeId', now)
    BY <1>3, <2>6, <2>7, <2>8, Zenon DEF AllTimely
  <2>. QED
    BY <1>1, <1>3, <2>9, Zenon DEF AheadInv, now
<1>. QED
  BY <1>1, <1>4, <1>5, Zenon

-----------------------------------------------------------------------------
(* The theorems.                                                           *)

\* The invariant holds when the client connects.
LEMMA InitHolds == Init => CatchUpInv
<1>. SUFFICES ASSUME Init PROVE CatchUpInv
  BY Zenon
<1>. USE DEF Init, DownloadInit
<1>1. Typed
  <2>1. ServerTyped
    <3>1. NoState \in States /\ NoState.chunks = 0 /\ FirstChannel \in Channels
      BY Constants, Zenon DEF NoState, States, Assumed
    <3>. QED
      BY <3>1, Constants DEF ServerTyped, Assumed, NoRequest
  <2>2. GameTyped
    BY Constants, BoundsAssumption, WindowAssumption DEF GameTyped, Assumed
  <2>3. ClientTyped
    <3>1. transfer \in [id : Channels \cup {-1}, request : 0..RequestCount, stepId : 0..MaxStep,
                        chunks : 0..Capacity]
      BY Constants DEF Assumed, NoTransfer, NoRequest
    <3>2. playing \in [game : -1..MaxGame, waiting : 0..MaxStep, missing : SUBSET (0..MaxStep)]
      BY Constants DEF Assumed, NotPlaying
    <3>. QED
      BY <3>1, <3>2, Constants DEF ClientTyped, Assumed
  <2>4. LinksTyped
    BY Constants DEF LinksTyped, Assumed
  <2>. QED
    BY <2>1, <2>2, <2>3, <2>4, Zenon DEF Typed
<1>2. Lag = 1
  BY DEF Lag, Since, Distance, NoRequest
<1>3. ServerInv /\ TransferInv /\ GotInv
  BY <1>2 DEF ServerInv, TransferInv, GotInv, IsDownloading
<1>4. UpInv /\ DownInv
  BY DEF UpInv, UpOK, DownInv, DownOK
<1>5. AckedChunksAreReceived /\ StepsWithoutGap
  BY Zenon DEF AckedChunksAreReceived, StepsWithoutGap, NotPlaying
<1>. QED
  BY <1>1, <1>3, <1>4, <1>5, Zenon DEF CatchUpInv

\* Every step keeps it.
LEMMA NextKeeps == CatchUpInv /\ [Next]_vars => CatchUpInv'
<1>. SUFFICES ASSUME CatchUpInv, [Next]_vars PROVE CatchUpInv'
  BY Zenon
<1>1. CASE OthersPlay
  BY <1>1, OthersPlayKeeps, Zenon
<1>2. ASSUME NEW stepId \in FirstSteps, ReInitWithGame(stepId) PROVE CatchUpInv'
  BY <1>2, ReInitKeeps, Zenon
<1>3. CASE LoseToServer
  BY <1>3, DroppedUp, Zenon DEF LoseToServer
<1>4. CASE LoseToClient
  BY <1>4, DroppedDown, Zenon DEF LoseToClient
<1>5. CASE Server
  BY <1>5, ReqDownloadGameStateKeeps, ReqAckKeeps, ReqGameStepKeeps, PartyKeeps, Zenon DEF Server
<1>6. CASE Ask
  BY <1>6, AskKeeps
<1>7. CASE TakeStart
  BY <1>7, TakeStartKeeps
<1>8. CASE TakeChunk
  BY <1>8, TakeChunkKeeps
<1>9. CASE TakeSteps
  BY <1>9, TakeStepsKeeps
<1>10. CASE GiveUp
  BY <1>10, StartAnewKeeps, Zenon DEF GiveUp
<1>11. CASE LeftBehind
  <2>1. restarts < MaxRestarts
    BY <1>11, Constants DEF LeftBehind, CatchUpInv, TransferInv, Assumed
  <2>. QED
    BY <1>11, <2>1, StartAnewKeeps, Zenon DEF LeftBehind
<1>12. CASE UNCHANGED vars
  <2>1. GameTyped' /\ UNCHANGED <<downloadVars, toServer, toClient, clientVars>>
    BY <1>12, Zenon DEF vars, gameVars, CatchUpInv, Typed, GameTyped
  <2>. QED
    BY <2>1, GameKeeps, Zenon
<1>. QED
  BY <1>1, <1>2, <1>3, <1>4, <1>5, <1>6, <1>7, <1>8, <1>9, <1>10, <1>11, <1>12, Zenon DEF Next, Client

\* The inductive invariant holds throughout.
THEOREM CatchUpInvariant == Spec => []CatchUpInv
BY InitHolds, NextKeeps, PTL DEF Spec

\* Every variable keeps to its type; no transfer exceeds the connection's copy
\* (game_state.c:43), however many chunks the host's states have.
THEOREM CatchUpTyped == Spec => []TypeOK
<1>1. CatchUpInv /\ inParty \in BOOLEAN => TypeOK
  BY Zenon DEF CatchUpInv, Typed, ServerTyped, GameTyped, ClientTyped, LinksTyped, TypeOK
<1>2. Init => inParty \in BOOLEAN
  BY Zenon DEF Init
<1>3. inParty \in BOOLEAN /\ [Next]_vars => (inParty \in BOOLEAN)'
  <2>1. [Next]_vars => inParty' \in {inParty, TRUE, FALSE}
    BY Zenon DEF Next, Server, Client, OthersPlay, ReInitWithGame, MakeSteps, LoseToServer, LoseToClient,
       ReqDownloadGameState, ReqAck, ReqGameJoin, DestroyParty, RefuseGameStep, ReqGameStep, Ask,
       TakeStart, TakeChunk, TakeSteps, GiveUp, LeftBehind, StartAnew, gameVars, vars
  <2>. QED
    BY <2>1, Zenon
<1>. QED
  BY <1>1, <1>2, <1>3, CatchUpInvariant, PTL DEF Spec

\* What a client puts together from the chunks of a transfer is one state,
\* the one whose step it was told: although ids of requests and of transfers
\* come round again, no chunk of an earlier transfer is taken for one of this
\* (req_game_state.c:56-59).
THEOREM DownloadsAreOneState == Spec => []DownloadIsOneState
<1>1. CatchUpInv => DownloadIsOneState
  <2>. SUFFICES ASSUME CatchUpInv, NEW c \in DOMAIN got
                PROVE  /\ got[c] = got[CHOOSE d \in DOMAIN got : TRUE]
                       /\ got[c].stepId = transfer.stepId /\ got[c].chunks = transfer.chunks
    BY Zenon DEF DownloadIsOneState
  <2>1. (CHOOSE d \in DOMAIN got : TRUE) \in DOMAIN got
    BY Zenon
  <2>. QED
    BY <2>1, Zenon DEF CatchUpInv, GotInv
<1>. QED
  BY <1>1, CatchUpInvariant, PTL

\* The server stops sending a chunk only when the client has it, whichever
\* acknowledgements of earlier transfers come late (req_game_state_ack.c:40).
THEOREM AcknowledgedIsReceived == Spec => []AckedChunksAreReceived
<1>1. CatchUpInv => AckedChunksAreReceived
  BY Zenon DEF CatchUpInv
<1>. QED
  BY <1>1, CatchUpInvariant, PTL

\* The steps a client gets follow each other without a gap, whatever is lost
\* (send_authoritative_steps.c:51-65).
THEOREM NoGapInSteps == Spec => []StepsWithoutGap
<1>1. CatchUpInv => StepsWithoutGap
  BY Zenon DEF CatchUpInv
<1>. QED
  BY <1>1, CatchUpInvariant, PTL

\* As long as a client repeats the same request it loses no chunk it has: an
\* answer to that request is always of the transfer that it takes part in
\* (req_game_state.c:26).
THEOREM RepeatingKeepsProgress == Spec => ProgressIsKept
<1>1. ASSUME CatchUpInv, [Next]_vars
      PROVE  [request' = request /\ transfer.request = request => DOMAIN got \subseteq DOMAIN got']_vars
  <2>. SUFFICES ASSUME Next, transfer.request = request
                PROVE  DOMAIN got \subseteq DOMAIN got'
    BY <1>1, Zenon DEF vars, clientVars
  <2>1. CASE TakeStart
    <3>. DEFINE m == Head(toClient)
                t == blobStreamLogicOut.transferId
    <3>1. /\ toClient # <<>> /\ m.type = "start"
          /\ got' = IF IsDownloading /\ m.request = request /\ m.transferId # transfer.id
                    THEN <<>> ELSE got
      BY <2>1, Zenon DEF TakeStart, Takes
    <3>2. m = toClient[1] /\ 1 \in 1..Len(toClient)
      BY <1>1, <3>1, Links, Zenon DEF CatchUpInv, Typed, LinksTyped
    <3>3. Answered(m, request, restarts, Lag, t)
      BY <1>1, <3>2, Zenon DEF CatchUpInv, DownInv, DownOK
    <3>4. /\ request \in 1..RequestCount /\ restarts \in Nat
          /\ blobStreamOutClientRequestId \in 0..RequestCount
      BY <1>1, Constants DEF CatchUpInv, Typed, ClientTyped, ServerTyped, Assumed
    <3>5. Since(request, request) = 0 /\ Lag \in Nat
      BY <3>4, RequestDistance DEF Lag
    <3>6. transfer # NoTransfer
      BY <3>4 DEF NoTransfer, NoRequest
    <3>7. restarts = 0 /\ (transfer.id = t <=> restarts = Lag)
      BY <1>1, <3>5, <3>6, Zenon DEF CatchUpInv, TransferInv
    <3>8. m.request = request => Lag = 0 /\ m.transferId = t
      BY <3>1, <3>3, <3>5, <3>7 DEF Answered
    <3>. QED
      BY <3>1, <3>7, <3>8, Zenon
  <2>2. CASE TakeChunk
    BY <2>2, Zenon DEF TakeChunk
  <2>3. CASE ~TakeStart /\ ~TakeChunk
    <3>1. got' = got
      BY <2>3, Zenon DEF Next, Server, Client, OthersPlay, ReInitWithGame, LoseToServer, LoseToClient,
         ReqDownloadGameState, ReqAck, ReqGameJoin, DestroyParty, RefuseGameStep, ReqGameStep, Ask, TakeSteps, GiveUp, LeftBehind, StartAnew,
         clientVars
    <3>. QED
      BY <3>1, Zenon
  <2>. QED
    BY <2>1, <2>2, <2>3, Zenon
<1>. QED
  BY <1>1, CatchUpInvariant, PTL DEF Spec, ProgressIsKept

\* A client never waits for a step beyond the next of the game it plays, even
\* if the host has started that game at an earlier step while chunks and steps
\* of the one before were under way (send_authoritative_steps.c:51-61,
\* server.c:389).
THEOREM ClientsAreNeverAhead == Spec => []NeverAhead
<1>1. Init => AheadInv
  <2>. SUFFICES ASSUME Init PROVE AheadInv
    OBVIOUS
  <2>1. Behind(gameState, game, writeId)
    BY DEF Init, DownloadInit, NoState, Behind
  <2>2. NeverAhead /\ playing.game <= game
    BY DEF Init, NeverAhead, IsDownloading, NotPlaying
  <2>3. AllTimely(toClient, game, writeId, Current(playing, got, game))
    BY DEF Init, AllTimely
  <2>. QED
    BY <2>1, <2>2, <2>3 DEF Init, AheadInv
<1>2. ASSUME CatchUpInv, CatchUpInv', AheadInv, [Next]_vars PROVE AheadInv'
  <2>1. CASE OthersPlay
    <3>1. game' = game /\ writeId <= writeId' /\ writeId' \in Nat /\ game' \in Nat
          /\ UNCHANGED <<gameState, got, playing, toClient>>
      <4>1. GameTyped /\ GameTyped'
        BY <1>2, Zenon DEF CatchUpInv, Typed
      <4>2. writeId' \in Nat
        BY <4>1, Constants DEF GameTyped, Assumed
      <4>3. MakeSteps /\ game' = game /\ UNCHANGED <<gameState, got, playing, toClient>>
        BY <2>1, Zenon DEF OthersPlay, MakeSteps, downloadVars, clientVars
      <4>. QED
        BY <1>2, <4>1, <4>2, <4>3, WindowKept, AheadTyped, Zenon
    <3>. QED
      BY <1>2, <3>1, GameKeepsAhead, Zenon DEF AheadInv
  <2>2. ASSUME NEW stepId \in FirstSteps, ReInitWithGame(stepId) PROVE AheadInv'
    <3>1. game < game' /\ writeId' \in Nat /\ game' \in Nat
          /\ UNCHANGED <<gameState, got, playing, toClient>>
      BY <1>2, <2>2, AheadTyped, BoundsAssumption DEF ReInitWithGame, downloadVars, clientVars
    <3>. QED
      BY <1>2, <3>1, GameKeepsAhead, Zenon DEF AheadInv
  <2>3. CASE \/ LoseToServer \/ LoseToClient \/ Ask \/ GiveUp \/ LeftBehind
             \/ ReqGameJoin \/ DestroyParty \/ UNCHANGED vars
    <3>1. /\ UNCHANGED <<gameState, game, writeId, got>> /\ playing' \in {playing, NotPlaying}
          /\ toClient' = toClient \/ (toClient # <<>> /\ toClient' = Tail(toClient))
      BY <2>3, Zenon
         DEF LoseToServer, LoseToClient, Ask, GiveUp, LeftBehind, StartAnew, ReqGameJoin,
         DestroyParty, vars, downloadVars,
         gameVars, clientVars
    <3>. QED
      BY <1>2, <3>1, LessKeepsAhead, Zenon
  <2>4. CASE Server
    BY <1>2, <2>3, <2>4, ReqDownloadGameStateKeepsAhead, ReqAckKeepsAhead, ReqGameStepKeepsAhead, Zenon
       DEF Server
  <2>5. CASE TakeStart \/ TakeChunk \/ TakeSteps
    BY <1>2, <2>5, TakeStartKeepsAhead, TakeChunkKeepsAhead, TakeStepsKeepsAhead, Zenon
  <2>. QED
    BY <1>2, <2>1, <2>2, <2>3, <2>4, <2>5, Zenon DEF Next, Client
<1>3. AheadInv => NeverAhead
  BY Zenon DEF AheadInv
<1>. QED
  BY <1>1, <1>2, <1>3, CatchUpInvariant, PTL DEF Spec
=============================================================================
