------------------------------- MODULE CatchUp -------------------------------
(***************************************************************************)
(* A client catches up with the game: it downloads a game state            *)
(* (GameStateDownload) and then asks for the authoritative steps that      *)
(* follow (StepRanges), while other clients play on, steps are discarded,  *)
(* the host's state advances and the host starts new games.                *)
(*                                                                         *)
(* The client and the network are external: the client repeats a request   *)
(* until it is answered, acknowledges what it receives and starts anew     *)
(* with another request id.  The links keep the order, since late and      *)
(* repeated datagrams are dropped by the ordered-datagram library on both  *)
(* sides, and lose what is sent.  The connection stays open.  Whether it   *)
(* can get a party, and when it loses that, is up to module Session; here  *)
(* either can happen at any time.                                          *)
(***************************************************************************)
EXTENDS GameStateDownload, StepRanges

CONSTANTS
    RequestCount,   \* the request ids the client uses in turn
    Sizes,          \* sizes of a state, in chunks
    MaxStep,        \* bound: steps of a game
    MaxGame,        \* bound: games the host starts
    FirstSteps,     \* the steps they start at
    MaxRestarts,    \* how often the client starts anew without an answer
    DownSize        \* bound: datagrams under way to the client

\* Ids come round again, but not while an answer to the first use can be
\* under way: the request ids are of eight bits (req_game_state.c:22).
ASSUME IdsAssumption ==
    /\ MaxRestarts \in Nat \ {0} /\ RequestCount \in Nat
    /\ MaxRestarts < RequestCount /\ MaxRestarts < ChannelCount
ASSUME BoundsAssumption ==
    MaxStep \in Nat /\ MaxGame \in Nat \ {0} /\ DownSize \in Nat /\ FirstSteps \subseteq 0..MaxStep
ASSUME SizesAssumption == Sizes \subseteq Nat \ {0} /\ \E n \in Sizes : n <= Capacity

VARIABLES
    game,               \* the game the host plays
    readId, writeId,    \* expectedReadId, expectedWriteId of the game's steps
    inParty,            \* the connection has a party that takes the client's
                        \* steps: assignedParty, not dissolved, with its
                        \* participants
    toServer, toClient, \* the links
    request,            \* the client: its request id
    transfer,           \* the transfer it takes part in
    got,                \* the chunks it has of that, and of which state each is
    playing,            \* [game, waiting, missing], or NotPlaying
    restarts            \* how often it started anew since its transfer started

clientVars == <<request, transfer, got, playing, restarts>>
gameVars == <<game, readId, writeId, inParty>>
vars == <<downloadVars, gameVars, toServer, toClient, clientVars>>

States == [game : 1..MaxGame, stepId : 0..MaxStep, chunks : Sizes] \cup {NoState}
Upward ==
    [type : {"request"}, id : 1..RequestCount]
    \cup [type : {"ack"}, transferId : Channels, chunks : SUBSET (1..Capacity)]
    \cup [type : {"step"}, waiting : 0..MaxStep, missing : SUBSET (0..MaxStep)]
Downward ==
    [type : {"start"}, request : 1..RequestCount, stepId : 0..MaxStep, chunks : 0..Capacity,
     transferId : Channels]
    \cup [type : {"chunk"}, transferId : Channels, chunk : 1..Capacity, state : States]
    \cup [type : {"steps"}, steps : SUBSET (0..(MaxStep - 1))]

NotPlaying == [game |-> -1, waiting |-> 0, missing |-> {}]
NoTransfer == [id |-> -1, request |-> NoRequest, stepId |-> 0, chunks |-> 0]
IsDownloading == playing = NotPlaying

\* The host has started its first game.
Init ==
    /\ DownloadInit
    /\ game = 1 /\ readId \in FirstSteps /\ writeId = readId /\ inParty = FALSE
    /\ toServer = <<>> /\ toClient = <<>>
    /\ request = 1
    /\ transfer = NoTransfer /\ got = <<>> /\ playing = NotPlaying
    /\ restarts = 0

-----------------------------------------------------------------------------
(* The host and the other clients *)

\* authoritativeStateSerializeFn is the host's.  It is assumed that the host
\* takes the steps as they are made: its state is not older than the oldest
\* step that the server keeps, and not newer than the last.
Serialized == [game : {game}, stepId : readId..writeId, chunks : Sizes]

\* nimbleServerReInitWithGame leaves the connection and its copy alone, but
\* takes the participants from every party (nimbleServerLocalPartiesReset).
ReInitWithGame(stepId) ==
    /\ game < MaxGame
    /\ game' = game + 1
    /\ readId' = stepId /\ writeId' = stepId
    /\ inParty' = FALSE
    /\ UNCHANGED <<downloadVars, toServer, toClient, clientVars>>

\* The part of nimbleServerReqGameStep that makes authoritative steps
MakeSteps ==
    /\ readId' = DiscardedReadId(readId, writeId)
    /\ writeId' \in ComposedWriteIds(readId', writeId, MaxStep)
    /\ UNCHANGED <<game, inParty>>

\* Another client sends its steps.
OthersPlay ==
    /\ MakeSteps
    /\ UNCHANGED <<downloadVars, toServer, toClient, clientVars>>

-----------------------------------------------------------------------------
(* The network *)

\* A datagram arrives when there is room for the longest answer, which only
\* bounds the link.
HasRoom == Len(toClient) + 1 + MaxEntries <= DownSize

LoseToServer ==
    /\ HasRoom
    /\ toServer # <<>>
    /\ toServer' = Tail(toServer)
    /\ UNCHANGED <<downloadVars, gameVars, toClient, clientVars>>

LoseToClient ==
    /\ toClient # <<>>
    /\ toClient' = Tail(toClient)
    /\ UNCHANGED <<downloadVars, gameVars, toServer, clientVars>>

-----------------------------------------------------------------------------
(* The server *)

Receives(type) ==
    /\ HasRoom
    /\ toServer # <<>> /\ Head(toServer).type = type
    /\ toServer' = Tail(toServer)

\* nimbleServerReqDownloadGameState
ReqDownloadGameState(due) ==
    /\ Receives("request")
    /\ LET id == Head(toServer).id
       IN  /\ \E state \in Serialized : PrepareDownload(id, state)
           /\ \E entries \in PrepareSend(blobStreamLogicOut', due) :
                 toClient' = toClient \o (<<DownloadResponse(id, gameState', blobStreamLogicOut')>>
                                             \o SendBlobStream(blobStreamLogicOut', entries))
    /\ UNCHANGED <<gameVars, clientVars>>

\* nimbleServerReqBlobStream
ReqAck(due) ==
    /\ Receives("ack")
    /\ ReqBlobStream(Head(toServer))
    /\ IF AcceptsAck(blobStreamLogicOut, Head(toServer))
       THEN \E entries \in PrepareSend(blobStreamLogicOut', due) :
               toClient' = toClient \o SendBlobStream(blobStreamLogicOut', entries)
       ELSE UNCHANGED toClient
    /\ UNCHANGED <<gameVars, clientVars>>

\* nimbleServerReqGameJoin gives the connection a party.  A join that is lost
\* or refused changes nothing here.
ReqGameJoin ==
    /\ ~inParty
    /\ inParty' = TRUE
    /\ UNCHANGED <<downloadVars, game, readId, writeId, toServer, toClient, clientVars>>

\* destroyParty, of the party that the connection was assigned.  The connection
\* stays open when that party was rejoined over another.
DestroyParty ==
    /\ inParty
    /\ inParty' = FALSE
    /\ UNCHANGED <<downloadVars, game, readId, writeId, toServer, toClient, clientVars>>

\* nimbleServerReqGameStep ends in an error: there is no party to take the
\* client's steps, or one that cannot be taken or woven.  Steps were discarded
\* by then, some may have been made, and there is no answer.
RefuseGameStep ==
    /\ Receives("step")
    /\ MakeSteps
    /\ ~inParty => writeId' = writeId
    /\ UNCHANGED <<downloadVars, toClient, clientVars>>

\* nimbleServerReqGameStep
ReqGameStep ==
    /\ Receives("step")
    /\ inParty
    /\ MakeSteps
    /\ LET asked == Head(toServer)
           steps == SentSteps(readId', writeId', asked.waiting, asked.missing)
       IN  toClient' = IF CanSerialize(steps, readId')
                       THEN Append(toClient, [type |-> "steps", steps |-> steps])
                       ELSE toClient
    /\ UNCHANGED <<downloadVars, clientVars>>

Server ==
    \/ \E due \in BOOLEAN : ReqDownloadGameState(due) \/ ReqAck(due)
    \/ ReqGameJoin \/ DestroyParty
    \/ RefuseGameStep \/ ReqGameStep

-----------------------------------------------------------------------------
(* The client *)

\* It asks now and then: for the download, or for steps.
Ask ==
    /\ toServer = <<>>
    /\ toServer' =
          IF IsDownloading THEN <<[type |-> "request", id |-> request]>>
          ELSE <<[type |-> "step", waiting |-> playing.waiting, missing |-> playing.missing]>>
    /\ UNCHANGED <<downloadVars, gameVars, toClient, clientVars>>

Takes(type) ==
    /\ toClient # <<>> /\ Head(toClient).type = type
    /\ toClient' = Tail(toClient)

\* With its last chunk, the client plays on from the state.
PlaysIfComplete(t, chunks) ==
    playing' = IF IsDownloading /\ t.request = request /\ DOMAIN chunks = 1..t.chunks
               THEN [game |-> IF t.chunks = 0 THEN 0 ELSE chunks[1].game,
                     waiting |-> t.stepId, missing |-> {}]
               ELSE playing

\* The answer to its request starts a transfer, unless it has that already.
TakeStart ==
    /\ Takes("start")
    /\ LET m == Head(toClient)
           isNew == IsDownloading /\ m.request = request /\ m.transferId # transfer.id
       IN  /\ transfer' = IF isNew
                          THEN [id |-> m.transferId, request |-> request, stepId |-> m.stepId,
                                chunks |-> m.chunks]
                          ELSE transfer
           /\ got' = IF isNew THEN <<>> ELSE got
           /\ IF isNew THEN PlaysIfComplete(transfer', got') ELSE UNCHANGED playing
           /\ restarts' = IF isNew THEN 0 ELSE restarts
    /\ UNCHANGED <<downloadVars, gameVars, toServer, request>>

\* A chunk of its transfer is kept, and acknowledged with all it has.
TakeChunk ==
    /\ Takes("chunk")
    /\ LET m == Head(toClient)
       IN  IF m.transferId = transfer.id
           THEN /\ got' = [c \in DOMAIN got \cup {m.chunk} |->
                            IF c = m.chunk THEN m.state ELSE got[c]]
                /\ PlaysIfComplete(transfer, got')
                /\ toServer' = Append(toServer, [type |-> "ack", transferId |-> transfer.id,
                                                 chunks |-> DOMAIN got'])
           ELSE UNCHANGED <<got, playing, toServer>>
    /\ UNCHANGED <<downloadVars, gameVars, request, transfer, restarts>>

\* Steps from the one it waits for on are taken, and leave those missing that
\* the answer skips.
TakeSteps ==
    /\ Takes("steps")
    /\ LET m    == Head(toClient)
           next == {s + 1 : s \in m.steps} \cup {playing.waiting}
       IN  IF IsDownloading THEN UNCHANGED playing
           ELSE \E last \in next :
                   /\ \A s \in next : s <= last
                   /\ playing' = [playing EXCEPT
                                    !.waiting = last,
                                    !.missing = (@ \cup playing.waiting..(last - 1)) \ m.steps]
    /\ UNCHANGED <<downloadVars, gameVars, toServer, request, transfer, got, restarts>>

StartAnew ==
    /\ request' = IF request = RequestCount THEN 1 ELSE request + 1
    /\ playing' = NotPlaying
    /\ restarts' = restarts + 1
    /\ UNCHANGED <<downloadVars, gameVars, toServer, toClient, transfer, got>>

\* The client gives up a download, or what it plays.
GiveUp ==
    /\ restarts < MaxRestarts
    /\ StartAnew

\* The steps it waits for are gone: the client downloads again.
LeftBehind ==
    /\ ~IsDownloading
    /\ playing.waiting < readId
    /\ StartAnew

Client ==
    \/ Ask \/ TakeStart \/ TakeChunk \/ TakeSteps
    \/ GiveUp \/ LeftBehind

Next ==
    \/ OthersPlay
    \/ \E stepId \in FirstSteps : ReInitWithGame(stepId)
    \/ LoseToServer \/ LoseToClient
    \/ Server \/ Client

Spec == Init /\ [][Next]_vars

\* The client goes on asking.  Not all it asks for is lost, or refused while
\* there is a party; nor are all answers, all chunks or all acknowledgements
\* lost.  Chunks that are not acknowledged come due again.
Fairness ==
    /\ WF_vars(Ask) /\ WF_vars(LeftBehind)
    /\ SF_vars(ReqDownloadGameState(TRUE) \/ ReqGameStep) /\ SF_vars(TakeStart \/ TakeSteps)
    /\ SF_vars(TakeChunk) /\ SF_vars(ReqAck(TRUE))

-----------------------------------------------------------------------------
(* Properties *)

\* Every variable keeps to its type; a transfer never exceeds the capacity of
\* the connection's copy.
TypeOK ==
    /\ gameState \in States /\ gameState.chunks <= Capacity
    /\ blobStreamOutClientRequestId \in 0..RequestCount
    /\ nextBlobStreamOutChannel \in Channels
    /\ blobStreamLogicOut \in [transferId : Channels, state : {gameState},
                               acked : SUBSET (1..gameState.chunks)]
    /\ game \in 1..MaxGame
    /\ inParty \in BOOLEAN
    /\ readId \in 0..MaxStep /\ writeId \in readId..MaxStep /\ writeId - readId <= Window \div 2
    /\ toServer \in Seq(Upward)
    /\ toClient \in Seq(Downward) /\ Len(toClient) <= DownSize
    /\ request \in 1..RequestCount
    /\ transfer \in [id : Channels \cup {-1}, request : 0..RequestCount, stepId : 0..MaxStep,
                     chunks : 0..Capacity]
    /\ DOMAIN got \subseteq 1..transfer.chunks /\ \A c \in DOMAIN got : got[c] \in States
    /\ playing \in [game : -1..MaxGame, waiting : 0..MaxStep, missing : SUBSET (0..MaxStep)]
    /\ restarts \in 0..MaxRestarts

\* What a client puts together from the chunks of a transfer is one state, the
\* one whose step it was told, although it may have given up a download
\* before and chunks of that are still under way, or were resent
\* (req_game_state.c:56-59 gives every transfer an id of its own).
DownloadIsOneState ==
    \A c \in DOMAIN got : /\ got[c] = got[CHOOSE d \in DOMAIN got : TRUE]
                          /\ got[c].stepId = transfer.stepId
                          /\ got[c].chunks = transfer.chunks

\* The server stops sending a chunk only when the client has it: an
\* acknowledgement of an earlier transfer that comes late counts for nothing
\* (req_game_state_ack.c:40).
AckedChunksAreReceived ==
    blobStreamLogicOut.acked # {} =>
        /\ transfer.id = blobStreamLogicOut.transferId
        /\ blobStreamLogicOut.acked \subseteq DOMAIN got

\* As long as a client repeats the same request it never loses chunks it has:
\* the server recognises the repetition and does not start the transfer over
\* (req_game_state.c:26).
ProgressIsKept ==
    [][request' = request /\ transfer.request = request => DOMAIN got \subseteq DOMAIN got']_vars

\* The steps a client gets follow each other without a gap, whatever is lost:
\* an answer always starts at or before the step that the client waits for
\* (send_authoritative_steps.c:51-65).
StepsWithoutGap == playing.missing = {}

\* A client that plays the host's game never waits for a step beyond the next
\* that the server makes, although the host may have started that game at an
\* earlier step while chunks and steps of the one before were under way
\* (send_authoritative_steps.c:51-61, server.c:389).
NeverAhead == ~IsDownloading /\ playing.game = game => playing.waiting <= writeId

\* The step that the client needs the server to keep: the one it waits for, or
\* the one at which the state that it is sent was taken.
Needed == IF IsDownloading THEN gameState.stepId ELSE playing.waiting

IsBehind == Needed < readId

\* The step that the client needs is discarded, before it has asked for it.
Overtaken == ~IsBehind /\ IsBehind' /\ request' = request

GetsSteps == ~IsDownloading /\ playing'.waiting > playing.waiting

\* A client that keeps its party and does not go on giving up draws level with
\* the steps of the game again and again, or gets them without end, unless it
\* is overtaken again and again.  A client that is left behind by the
\* discarding of steps (req_step.c:21) has to download again, and must then get
\* a state that is not behind when it is fetched (game_state.c:34), which may
\* be one of an earlier game (DownloadIsLatest).  States have to fit the
\* connection's copy.
ClientCatchesUp ==
    \/ []<>(~inParty \/ (~IsDownloading /\ playing.waiting >= writeId))
    \/ []<><<GetsSteps \/ Overtaken \/ (GiveUp /\ ~LeftBehind)>>_vars

\* A download that starts is of the game being played: the request is one "to
\* download the latest game state" (req_game_state.c:15).
DownloadIsLatest ==
    [][blobStreamOutClientRequestId' # blobStreamOutClientRequestId
        => blobStreamLogicOut'.state.game = game]_vars
=============================================================================
