-------------------------- MODULE GameStateDownload --------------------------
(***************************************************************************)
(* The download of the game state over one connection: req_game_state.c,   *)
(* req_game_state_ack.c, game_state.c and the fields of                    *)
(* transport_connection.c they use.  A game state is known by its game and *)
(* its step, and is as large as the number of its chunks.                  *)
(***************************************************************************)
EXTENDS Integers, Sequences

CONSTANTS
    Capacity,       \* setup.maxGameStateOctetCount, in chunks
    MaxEntries,     \* the 4 of req_game_state_ack.c:87
    ChannelCount,   \* the transfer ids of the blob-stream library
    FirstChannel    \* the 127 of transport_connection.c:23

ASSUME CapacityAssumption == Capacity \in Nat
ASSUME MaxEntriesAssumption == MaxEntries \in Nat \ {0}
ASSUME ChannelsAssumption == ChannelCount \in Nat \ {0} /\ FirstChannel \in 0..(ChannelCount - 1)

Channels == 0..(ChannelCount - 1)
NoState == [game |-> 0, stepId |-> 0, chunks |-> 0]
NoRequest == 0

VARIABLES
    gameState,                      \* the connection's copy of a state
    blobStreamOutClientRequestId,   \* the request the transfer is for
    nextBlobStreamOutChannel,
    blobStreamLogicOut              \* the transfer: its id, its state, what
                                    \* the client has acknowledged

downloadVars == <<gameState, blobStreamOutClientRequestId, nextBlobStreamOutChannel,
                  blobStreamLogicOut>>

\* transportConnectionInit
DownloadInit ==
    /\ gameState = NoState
    /\ blobStreamOutClientRequestId = NoRequest
    /\ nextBlobStreamOutChannel = FirstChannel
    /\ blobStreamLogicOut = [transferId |-> FirstChannel, state |-> NoState, acked |-> {}]

\* Mutant: only the first state is ever taken.
GameStateSetOnce(state) ==
    IF gameState.chunks # 0 \/ Capacity < state.chunks THEN gameState ELSE state

\* nimbleServerGameStateSet: a state that is not newer, or too large, is not
\* taken.
GameStateSet(state) ==
    IF gameState.chunks # 0 /\ state.stepId <= gameState.stepId THEN gameState
    ELSE IF Capacity < state.chunks THEN gameState
    ELSE state

\* Mutant: the ids are not wrapped.
NextChannelUnwrapped(channel) == channel + 1

NextChannel(channel) == IF channel + 1 = ChannelCount THEN 0 ELSE channel + 1

\* Mutant: the transfer keeps the id of the one before.
StartTransferSameId(id, fetched) ==
    /\ gameState' = GameStateSet(fetched)
    /\ blobStreamLogicOut' = [transferId |-> nextBlobStreamOutChannel,
                              state |-> gameState', acked |-> {}]
    /\ UNCHANGED nextBlobStreamOutChannel
    /\ blobStreamOutClientRequestId' = id

\* The transfer starts over, with the copy the connection now has.
StartTransfer(id, fetched) ==
    /\ gameState' = GameStateSet(fetched)
    /\ blobStreamLogicOut' = [transferId |-> nextBlobStreamOutChannel,
                              state |-> gameState', acked |-> {}]
    /\ nextBlobStreamOutChannel' = NextChannel(nextBlobStreamOutChannel)
    /\ blobStreamOutClientRequestId' = id

\* Mutant: a request that is repeated starts the transfer anew.
PrepareDownloadAgain(id, fetched) == StartTransfer(id, fetched)

\* nimbleServerReqDownloadGameState, up to its answer
PrepareDownload(id, fetched) ==
    IF id = blobStreamOutClientRequestId
    THEN UNCHANGED downloadVars
    ELSE StartTransfer(id, fetched)

\* blobStreamLogicOutPrepareSend of the blob-stream library: the first chunks
\* that are not acknowledged, or none as they were sent not long ago
PrepareSend(logic, due) ==
    LET open      == (1..logic.state.chunks) \ logic.acked
        Firsts(n) == {s \in [1..n -> open] :
                        /\ \A i, j \in 1..n : i < j => s[i] < s[j]
                        /\ \A c \in open : (\E i \in 1..n : s[i] = c) \/ (n = MaxEntries /\ s[n] < c)}
    IN  IF due THEN UNION {Firsts(n) : n \in 0..MaxEntries} ELSE {<<>>}

Chunk(logic, c) ==
    [type |-> "chunk", transferId |-> logic.transferId, chunk |-> c, state |-> logic.state]

\* nimbleServerSendBlobStream: a datagram for each entry
SendBlobStream(logic, entries) == [n \in 1..Len(entries) |-> Chunk(logic, entries[n])]

\* The response of nimbleServerReqDownloadGameState, with the start of the
\* transfer in the same datagram; the first chunks follow it.
DownloadResponse(id, state, logic) ==
    [type |-> "start", request |-> id, stepId |-> state.stepId, chunks |-> state.chunks,
     transferId |-> logic.transferId]

\* blobStreamLogicOutReceive takes only acknowledgements of its own transfer.
AcceptsAck(logic, ack) == ack.transferId = logic.transferId

\* Mutant: acknowledgements of different transfers are not told apart.
ReqBlobStreamOfAnyTransfer(ack) ==
    /\ blobStreamLogicOut' = [blobStreamLogicOut EXCEPT !.acked = @ \cup ack.chunks]
    /\ UNCHANGED <<gameState, blobStreamOutClientRequestId, nextBlobStreamOutChannel>>

\* nimbleServerReqBlobStream, up to its answer; an error changes nothing.
ReqBlobStream(ack) ==
    /\ blobStreamLogicOut' =
          IF AcceptsAck(blobStreamLogicOut, ack)
          THEN [blobStreamLogicOut EXCEPT !.acked = @ \cup ack.chunks]
          ELSE blobStreamLogicOut
    /\ UNCHANGED <<gameState, blobStreamOutClientRequestId, nextBlobStreamOutChannel>>
=============================================================================
