---------------------------- MODULE ServerUpdate ----------------------------
(***************************************************************************)
(* One update of the server (server.c): nimbleServerUpdate asks            *)
(* UpdateQuality whether to go on, ticks the parties and reads the         *)
(* multi transport; nimbleServerFeed takes a datagram apart and answers    *)
(* its commands.  The thread is followed from command to command.          *)
(*                                                                         *)
(* What a command does to the session and to the game is the matter of the *)
(* other modules.  Here a command has one of the results that Feed tells   *)
(* apart, and what counts is which datagrams are handled, in which order,  *)
(* and which numbers the replies have.  Clients number their datagrams;    *)
(* those are lost, delayed and duplicated.  A number on the wire is taken  *)
(* modulo SeqCount, by the ordered-datagram library on both sides.         *)
(***************************************************************************)
EXTENDS UpdateQuality, Sequences

LOCAL INSTANCE Functions

CONSTANTS
    ConnectionCount,    \* NIMBLE_NIMBLE_SERVER_MAX_TRANSPORT_CONNECTIONS
    MaxPerUpdate,       \* the 64 of server.c:479
    MaxEntries,         \* the 4 of req_game_state_ack.c:87
    SeqCount,           \* the numbers of the ordered-datagram library
    MaxNumber,          \* bound: datagrams a client sends
    MaxCommands,        \* bound: commands in a datagram
    MaxQueue            \* bound: datagrams waiting in the multi transport

ASSUME ConnectionCountAssumption == ConnectionCount \in Nat \ {0}
ASSUME MaxPerUpdateAssumption == MaxPerUpdate \in Nat \ {0}
ASSUME MaxEntriesAssumption == MaxEntries \in Nat
ASSUME SeqCountAssumption == SeqCount \in Nat /\ SeqCount > 1
ASSUME BoundsAssumption ==
    MaxNumber \in Nat /\ MaxCommands \in Nat \ {0} /\ MaxQueue \in Nat \ {0}

Connections == 0..(ConnectionCount - 1)
Transports == 0..ConnectionCount        \* the last is one too many
Numbers == 0..MaxNumber
Seqs == 0..(SeqCount - 1)
None == -1

VARIABLES
    phase,              \* where the thread is
    received,           \* datagrams read in this update
    feeding,            \* the transport whose datagram is handled
    commandsLeft,       \* commands not yet taken from it
    header,             \* number prepared for the reply
    ownLeft,            \* datagrams the handler has yet to send itself
    queue,              \* the multi transport: datagrams not read yet
    connUsed, transportIndex,
    lastReceived,       \* of orderedDatagramInLogic; None before the first
    nextToSend,         \* of orderedDatagramOutLogic
    clientNumber,       \* environment: the next number of each client
    lastHandled,        \* history: number of the last datagram handled
    lastSent,           \* history: number of the last datagram, None if that
                        \* was not sent or belongs to an earlier life
    startedOver         \* history: the connections whose numbers have started
                        \* over between the header of the last datagram and
                        \* its sending

threadVars == <<phase, received, feeding, commandsLeft, header, ownLeft>>
linkVars == <<connUsed, transportIndex, lastReceived, nextToSend, lastHandled, lastSent,
              startedOver>>
vars == <<threadVars, queue, linkVars, clientNumber, qualityVars>>

\* Every variable keeps to its type; an update never reads more datagrams
\* than it may.
TypeOK ==
    /\ QualityTypeOK
    /\ phase \in {"host", "reading", "feeding", "replying", "streaming", "answering"}
    /\ received \in 0..MaxPerUpdate
    /\ feeding \in Connections \cup {None}
    /\ commandsLeft \in 0..MaxCommands
    /\ header \in Seqs \cup {None}
    /\ ownLeft \in 0..MaxEntries
    /\ queue \in Seq([from : Transports, number : Numbers])
    /\ connUsed \subseteq Connections
    /\ transportIndex \in [Connections -> Connections \cup {None}]
    /\ lastReceived \in [Connections -> Seqs \cup {None}]
    /\ nextToSend \in [Connections -> Seqs]
    /\ clientNumber \in [Connections -> 0..(MaxNumber + 1)]
    /\ lastHandled \in [Connections -> Numbers \cup {None}]
    /\ lastSent \in [Connections -> Seqs \cup {None}]
    /\ startedOver \subseteq Connections

\* nimbleServerInit
Init ==
    /\ UpdateQualityInit
    /\ phase = "host" /\ received = 0
    /\ feeding = None /\ commandsLeft = 0 /\ header = None /\ ownLeft = 0
    /\ queue = <<>>
    /\ connUsed = {}
    /\ transportIndex = [c \in Connections |-> None]
    /\ lastReceived = [c \in Connections |-> None]
    /\ nextToSend = [c \in Connections |-> 0]
    /\ clientNumber = [t \in Connections |-> 0]
    /\ lastHandled = [c \in Connections |-> None]
    /\ lastSent = [c \in Connections |-> None]
    /\ startedOver = {}

-----------------------------------------------------------------------------
(* The clients and the network *)

\* The oldest datagram that can still arrive.  A network that delays a
\* datagram longer makes its number look new again.
Oldest(t) == clientNumber[t] - (SeqCount - SeqCount \div 2)

IsWaiting(t, n) == [from |-> t, number |-> n] \in Range(queue)

\* A datagram arrives: the client's next, a later one (those in between are
\* lost or late), an earlier one (late or a duplicate).
Arrive(t, n) ==
    /\ Len(queue) < MaxQueue
    /\ n >= Oldest(t)
    /\ ~IsWaiting(t, n)
    /\ queue' = Append(queue, [from |-> t, number |-> n])
    /\ clientNumber' = [clientNumber EXCEPT ![t] = IF n >= @ THEN n + 1 ELSE @]
    /\ UNCHANGED <<threadVars, linkVars, qualityVars>>

\* A datagram arrives from a client for whom the server has no connection.
ArriveBeyond ==
    /\ Len(queue) < MaxQueue
    /\ ~IsWaiting(ConnectionCount, 0)
    /\ queue' = Append(queue, [from |-> ConnectionCount, number |-> 0])
    /\ UNCHANGED <<threadVars, linkVars, clientNumber, qualityVars>>

-----------------------------------------------------------------------------
(* The host *)

\* tickParties: the connections of dissolved parties are disconnected.
TickParties(dissolved) == connUsed' = connUsed \ dissolved

\* nimbleServerUpdate.  On a stopped server it does nothing.
Update(delta, dissolved) ==
    /\ phase = "host"
    /\ UpdateQualityTick(delta)
    /\ IF qualityState' = "Working"
       THEN phase' = "reading" /\ TickParties(dissolved)
       ELSE UNCHANGED <<phase, connUsed>>
    /\ received' = 0
    /\ UNCHANGED <<feeding, commandsLeft, header, ownLeft, queue, transportIndex, lastReceived,
                   nextToSend, lastHandled, lastSent, startedOver, clientNumber>>

\* nimbleServerReInitWithGame leaves the connections alone.
ReInitWithGame ==
    /\ phase = "host"
    /\ UpdateQualityReInit
    /\ UNCHANGED <<threadVars, queue, linkVars, clientNumber>>

\* A field of connection c at the start of a new life, as after
\* transportConnectionInit
Restarted(c, field, value) == [field EXCEPT ![c] = value]

\* nimbleServerConnectionConnected resets nothing.  In a connection never
\* opened before, the fields then hold whatever was in the host's memory.
ConnectionConnected(c) ==
    /\ phase = "host"
    /\ c \notin connUsed
    /\ connUsed' = connUsed \cup {c}
    /\ IF transportIndex[c] # None
       THEN UNCHANGED <<transportIndex, lastReceived, nextToSend, lastHandled, lastSent, startedOver>>
       ELSE /\ \E t \in Connections \cup {None} : transportIndex' = Restarted(c, transportIndex, t)
            /\ \E seq \in Seqs \cup {None} : lastReceived' = Restarted(c, lastReceived, seq)
            /\ \E seq \in Seqs : nextToSend' = Restarted(c, nextToSend, seq)
            /\ lastHandled' = Restarted(c, lastHandled, None)
            /\ lastSent' = Restarted(c, lastSent, None)
            /\ startedOver' = startedOver \ {c}
    /\ UNCHANGED <<threadVars, queue, clientNumber, qualityVars>>

\* nimbleServerConnectionDisconnected, when it finds a party to give up
ConnectionDisconnected(c) ==
    /\ phase = "host"
    /\ lastReceived' = [lastReceived EXCEPT ![c] = None]
    /\ lastHandled' = [lastHandled EXCEPT ![c] = None]
    /\ UNCHANGED <<threadVars, queue, connUsed, transportIndex, nextToSend, lastSent,
                   startedOver, clientNumber, qualityVars>>

-----------------------------------------------------------------------------
(* Reading the multi transport *)

\* Mutant: one datagram too many.
MayReceiveOneMore == phase = "reading" /\ queue # <<>> /\ received <= MaxPerUpdate

MayReceive == phase = "reading" /\ queue # <<>> /\ received < MaxPerUpdate

\* Nothing to receive, enough received, or the transport reports an error
ReadEnds ==
    /\ phase = "reading"
    /\ phase' = "host"
    /\ UNCHANGED <<received, feeding, commandsLeft, header, ownLeft, queue, linkVars,
                   clientNumber, qualityVars>>

\* orderedDatagramInLogicReceive of the ordered-datagram library
IsNewer(seq, last) == (seq - last) % SeqCount \in 1..(SeqCount \div 2)

\* Mutant: the order of the datagrams is not looked at.
IsAcceptedInAnyOrder(t, seq) ==
    /\ t \in Connections
    /\ t \in connUsed => transportIndex[t] = t

\* The checks at the start of nimbleServerFeed.  An unused connection is
\* opened, and has received nothing.
IsAccepted(t, seq) ==
    /\ t \in Connections
    /\ t \in connUsed => /\ transportIndex[t] = t
                         /\ lastReceived[t] = None \/ IsNewer(seq, lastReceived[t])

\* nimbleServerFeed has found an error, and so ends the reading: line 511.
GiveUp ==
    /\ phase' = "host"
    /\ feeding' = None /\ commandsLeft' = 0 /\ header' = None /\ ownLeft' = 0

\* Mutant: a refused datagram stays with the transport.
RefuseAndKeep ==
    /\ MayReceive
    /\ ~IsAccepted(Head(queue).from, Head(queue).number % SeqCount)
    /\ queue' = queue
    /\ GiveUp
    /\ received' = received + 1
    /\ UNCHANGED <<linkVars, clientNumber, qualityVars>>

\* A datagram is read and refused: illegal or wrong transport, out of order
Refuse ==
    /\ MayReceive
    /\ ~IsAccepted(Head(queue).from, Head(queue).number % SeqCount)
    /\ queue' = Tail(queue)
    /\ GiveUp
    /\ received' = received + 1
    /\ UNCHANGED <<linkVars, clientNumber, qualityVars>>

\* A datagram is read and accepted, with some number of commands.
Accept ==
    /\ MayReceive
    /\ LET t    == Head(queue).from
           n    == Head(queue).number
           open == t \notin connUsed
       IN  /\ IsAccepted(t, n % SeqCount)
           /\ connUsed' = connUsed \cup {t}
           /\ transportIndex' = Restarted(t, transportIndex, t)
           /\ lastReceived' = [lastReceived EXCEPT ![t] = n % SeqCount]
           /\ nextToSend' = IF open THEN Restarted(t, nextToSend, 0) ELSE nextToSend
           /\ lastHandled' = [lastHandled EXCEPT ![t] = n]
           /\ lastSent' = IF open THEN Restarted(t, lastSent, None) ELSE lastSent
           /\ startedOver' = IF open THEN startedOver \ {t} ELSE startedOver
           /\ feeding' = t
    /\ queue' = Tail(queue)
    /\ commandsLeft' \in 0..MaxCommands
    /\ received' = received + 1
    /\ phase' = "feeding"
    /\ UNCHANGED <<header, ownLeft, clientNumber, qualityVars>>

-----------------------------------------------------------------------------
(* The loop of nimbleServerFeed over the commands *)

Next1(seq) == IF seq + 1 = SeqCount THEN 0 ELSE seq + 1

UseNumber(c, sent) ==
    /\ nextToSend' = [nextToSend EXCEPT ![c] = Next1(@)]
    /\ lastSent' = [lastSent EXCEPT ![c] = sent]
    /\ startedOver' = startedOver \ {c}

TakeCommand == phase = "feeding" /\ commandsLeft > 0 /\ commandsLeft' = commandsLeft - 1

\* No command is left; the next datagram may be read.
FeedEnds ==
    /\ phase = "feeding" /\ commandsLeft = 0
    /\ phase' = "reading"
    /\ feeding' = None
    /\ UNCHANGED <<received, commandsLeft, header, ownLeft, queue, linkVars, clientNumber,
                   qualityVars>>

\* nimbleServerReqBlobStream takes an acknowledgement, and answers it with
\* datagrams of its own.
BlobStream ==
    /\ TakeCommand
    /\ ownLeft' \in 0..MaxEntries
    /\ phase' = "streaming"
    /\ UNCHANGED <<received, feeding, header, queue, linkVars, clientNumber, qualityVars>>

\* The acknowledgement is in error.
BlobStreamFails ==
    /\ phase = "feeding" /\ commandsLeft > 0
    /\ GiveUp
    /\ UNCHANGED <<received, queue, linkVars, clientNumber, qualityVars>>

BlobStreamEnds ==
    /\ phase = "streaming" /\ ownLeft = 0
    /\ phase' = "feeding"
    /\ UNCHANGED <<received, feeding, commandsLeft, header, ownLeft, queue, linkVars,
                   clientNumber, qualityVars>>

\* nimbleServerSendBlobStream sends a datagram of its own: it writes the
\* header, commits it and sends.
SendOwn ==
    /\ phase \in {"streaming", "answering"} /\ ownLeft > 0
    /\ UseNumber(feeding, nextToSend[feeding])
    /\ ownLeft' = ownLeft - 1
    /\ UNCHANGED <<phase, received, feeding, commandsLeft, header, queue, connUsed,
                   transportIndex, lastReceived, lastHandled, clientNumber, qualityVars>>

\* A datagram has too many octets: its number is used up, and it is an error.
OwnTooLarge ==
    /\ phase \in {"streaming", "answering"} /\ ownLeft > 0
    /\ UseNumber(feeding, None)
    /\ GiveUp
    /\ UNCHANGED <<received, queue, connUsed, transportIndex, lastReceived, lastHandled,
                   clientNumber, qualityVars>>

\* Any other command starts with the header of its reply.
WriteHeader ==
    /\ TakeCommand
    /\ header' = nextToSend[feeding]
    /\ phase' = "replying"
    /\ UNCHANGED <<received, feeding, ownLeft, queue, linkVars, clientNumber, qualityVars>>

\* The command is unknown: the rest of the datagram is dropped, without an
\* error.
UnknownCommand ==
    /\ phase = "replying"
    /\ phase' = "reading"
    /\ feeding' = None /\ commandsLeft' = 0 /\ header' = None /\ ownLeft' = 0
    /\ UNCHANGED <<received, queue, linkVars, clientNumber, qualityVars>>

\* The command fails, and the rest of the datagram is dropped with it.
CommandFails ==
    /\ phase = "replying"
    /\ GiveUp
    /\ UNCHANGED <<received, queue, linkVars, clientNumber, qualityVars>>

\* nimbleServerReqDownloadGameState answers in datagrams of its own, of which
\* the first is sent here.
Download ==
    /\ phase = "replying"
    /\ UseNumber(feeding, nextToSend[feeding])
    /\ ownLeft' \in 0..MaxEntries
    /\ phase' = "answering"
    /\ UNCHANGED <<received, feeding, commandsLeft, header, queue, connUsed, transportIndex,
                   lastReceived, lastHandled, clientNumber, qualityVars>>

\* Mutant: the prepared reply is sent, empty as it is.
SendEmptyReply ==
    /\ phase = "answering" /\ ownLeft = 0
    /\ UseNumber(feeding, header)
    /\ GiveUp
    /\ UNCHANGED <<received, queue, connUsed, transportIndex, lastReceived, lastHandled,
                   clientNumber, qualityVars>>

\* The reply that was prepared for a download request stays empty, for which
\* Feed has an error: "no reply to send".
NoReplyToSend ==
    /\ phase = "answering" /\ ownLeft = 0
    /\ GiveUp
    /\ UNCHANGED <<received, queue, linkVars, clientNumber, qualityVars>>

\* nimbleServerReqConnect gives connection d to this transport.
TakesConnection(d) ==
    /\ connUsed' = connUsed \cup {d}
    /\ transportIndex' = Restarted(d, transportIndex, feeding)
    /\ lastReceived' = Restarted(d, lastReceived, None)
    /\ lastHandled' = Restarted(d, lastHandled, None)

\* The reply is sent, for a command that leaves the connections alone.
Reply ==
    /\ phase = "replying"
    /\ UseNumber(feeding, header)
    /\ phase' = "feeding" /\ header' = None
    /\ UNCHANGED <<received, feeding, commandsLeft, ownLeft, queue, connUsed,
                   transportIndex, lastReceived, lastHandled, clientNumber, qualityVars>>

\* The reply to a connect request.  When the connection taken is the one the
\* request came from, its numbers start over, and the reply is still sent with
\* the number that was prepared before.
ReplyToConnect(d) ==
    /\ phase = "replying"
    /\ TakesConnection(d)
    /\ nextToSend' = LET restarted == Restarted(d, nextToSend, 0)
                     IN  [restarted EXCEPT ![feeding] = Next1(@)]
    /\ lastSent' = LET restarted == Restarted(d, lastSent, None)
                   IN  [restarted EXCEPT ![feeding] = header]
    /\ startedOver' = IF d = feeding THEN startedOver \cup {d} ELSE startedOver \ {d, feeding}
    /\ phase' = "feeding" /\ header' = None
    /\ UNCHANGED <<received, feeding, commandsLeft, ownLeft, queue, clientNumber, qualityVars>>

\* The reply has too many octets: its number is used up, and it is an error.
ReplyTooLarge ==
    /\ phase = "replying"
    /\ UseNumber(feeding, None)
    /\ GiveUp
    /\ UNCHANGED <<received, queue, connUsed, transportIndex, lastReceived, lastHandled,
                   clientNumber, qualityVars>>

-----------------------------------------------------------------------------
Host ==
    \/ \E delta \in Deltas, dissolved \in SUBSET connUsed : Update(delta, dissolved)
    \/ ReInitWithGame
    \/ \E c \in Connections : ConnectionConnected(c) \/ ConnectionDisconnected(c)

Read == Refuse \/ Accept

Command ==
    \/ FeedEnds
    \/ BlobStream \/ BlobStreamFails \/ BlobStreamEnds \/ SendOwn \/ OwnTooLarge
    \/ WriteHeader \/ UnknownCommand \/ CommandFails \/ Download \/ NoReplyToSend
    \/ Reply \/ ReplyTooLarge
    \/ \E d \in Connections : ReplyToConnect(d)

Next ==
    \/ \E t \in Connections, n \in Numbers : Arrive(t, n)
    \/ ArriveBeyond
    \/ Host \/ ReadEnds \/ Read \/ Command

Spec == Init /\ [][Next]_vars

\* The host goes on calling nimbleServerUpdate, whose loops run to their
\* ends, and the transport does not report errors for ever.
FairSpec ==
    /\ Spec
    /\ WF_vars(\E delta \in Deltas, dissolved \in SUBSET connUsed : Update(delta, dissolved))
    /\ WF_vars(ReadEnds \/ Read) /\ WF_vars(Command)
    /\ SF_vars(Read)

-----------------------------------------------------------------------------
(* Properties *)

\* The commands of a client are carried out in the order it sent them and
\* none of them twice, whatever is delayed, duplicated or lost, from when
\* its connection has started until that is opened anew or reported as
\* disconnected (server.c:177-181).
HandledInOrder ==
    [][feeding = None /\ feeding' # None /\ feeding' \in connUsed /\ lastHandled[feeding'] # None
        => lastHandled'[feeding'] > lastHandled[feeding']]_vars

\* Every datagram sent over a connection has the number that follows the one
\* sent before it, from when the connection is opened or given to a connect
\* request; the client drops one with a number it has had.  The number of a
\* reply is prepared before the handler runs, which may send datagrams itself
\* (server.c:208-261, req_game_state.c:85-105).  There is one exception: a
\* connect request that is given the very connection it came by starts the
\* numbers over after that of its reply was prepared (req_connect.c:75).  The
\* datagram after that reply has number 1, whatever the reply's was, and the
\* client may have had it.
NumbersFollowEachOther ==
    \A c \in Connections :
        lastSent[c] # None =>
            nextToSend[c] = Next1(IF c \in startedOver THEN 0 ELSE lastSent[c])

\* Unless the server is stopped, datagrams do not wait for ever: as long as
\* there are any, the first is taken from the transport again and again.  An
\* error ends the reading of an update (server.c:511), but a datagram is gone
\* by then.
DatagramsAreRead ==
    \/ []<>(queue = <<>> \/ ~IsWorking)
    \/ []<><<queue # <<>> /\ queue' = Tail(queue)>>_vars
=============================================================================
