------------------------- MODULE ServerUpdateProofs -------------------------
(***************************************************************************)
(* Proofs about ServerUpdate, for every number of connections, every limit *)
(* and every size of batch: the watch over the host implements HostWatch,  *)
(* datagrams over a connection are numbered in order, and the datagrams    *)
(* of a client are handled in the order in which they were sent, although  *)
(* their numbers wrap around.                                              *)
(***************************************************************************)
EXTENDS ServerUpdate, TLAPS

-----------------------------------------------------------------------------
(* The watch over the host (update_quality.c).                             *)

\* The counter of updates under a slow average, which the code raises with
\* every update, is what HostWatch computes from the averages taken.
WatchInv ==
    /\ QualityTypeOK
    /\ averageTickTimeFailedInARow = Watch!UpdatesUnderSlow(slowAverages, sampleCount)
    /\ average > TargetTime <=> slowAverages > 0

\* An average of times is a time.
LEMMA AverageIsATime ==
    ASSUME NEW total \in Nat, NEW b \in Nat \ {0}
    PROVE  total \div b \in Nat
<1>. DEFINE q == total \div b
<1>1. q \in Int /\ b * q <= total /\ total < b * q + b
  BY SMT
<1>. HIDE DEF q
<1>2. ASSUME q < 0 PROVE FALSE
  <2>1. b * (q + 1) = b * q + b
    BY <1>1
  <2>2. ASSUME NEW i \in Int, i <= 0 PROVE b * i <= 0
    BY <2>2
  <2>3. b * (q + 1) <= 0
    BY <1>1, <1>2, <2>2
  <2>. QED
    BY <1>1, <2>1, <2>3
<1>. QED
  BY <1>1, <1>2 DEF q

\* An update on a working server is an update under HostWatch.
LEMMA TickIsWatched ==
    ASSUME WatchInv, NEW delta \in Nat, UpdateQualityTick(delta)
    PROVE  WatchInv' /\ Watch!Update
<1>. USE TargetTimeAssumption, TickThresholdsAssumption, BatchSizeAssumption
<1>. DEFINE isLate == delta > TargetTime
<1>1. /\ deltaTickTimeFailedInARow' = IF isLate THEN deltaTickTimeFailedInARow + 1 ELSE 0
      /\ averageTickTimeFailedInARow' = CountAverage
      /\ qualityState = "Working"
      /\ qualityState' = IF deltaTickTimeFailedInARow' > FailedTickThreshold
                         THEN "FailedTickTime"
                         ELSE IF averageTickTimeFailedInARow' > AverageThreshold
                         THEN "FailedAverageTickTime" ELSE "Working"
  BY Zenon DEF UpdateQualityTick, IsWorking
<1>2. deltaTickTimeFailedInARow' \in Nat
      /\ deltaTickTimeFailedInARow' \in {0, deltaTickTimeFailedInARow + 1}
  BY <1>1 DEF WatchInv, QualityTypeOK
<1>3. qualityState' \in {"Working", "FailedTickTime", "FailedAverageTickTime"}
  BY <1>1, Zenon
<1>4. /\ sampleCount \in Nat /\ sampleCount < BatchSize /\ sampleTotal + delta \in Nat
      /\ slowAverages \in Nat /\ averageTickTimeFailedInARow \in Nat
      /\ average \in Nat \cup {NotSet}
      /\ average > TargetTime <=> slowAverages > 0
      /\ averageTickTimeFailedInARow =
            IF slowAverages = 0 THEN 0 ELSE (slowAverages - 1) * BatchSize + sampleCount + 1
  BY DEF WatchInv, QualityTypeOK, Watch!UpdatesUnderSlow
<1>5. /\ sampleCount' \in 0..(BatchSize - 1) /\ sampleTotal' \in Nat
      /\ average' \in Nat \cup {NotSet} /\ slowAverages' \in Nat
      /\ averageTickTimeFailedInARow' = Watch!UpdatesUnderSlow(slowAverages', sampleCount')
      /\ averageTickTimeFailedInARow' \in Nat
      /\ average' > TargetTime <=> slowAverages' > 0
      /\ \/ sampleCount + 1 < BatchSize /\ sampleCount' = sampleCount + 1
            /\ slowAverages' = slowAverages
         \/ sampleCount + 1 = BatchSize /\ sampleCount' = 0
            /\ slowAverages' \in {0, slowAverages + 1}
  <2>1. CASE sampleCount + 1 < BatchSize
    <3>1. /\ sampleCount' = sampleCount + 1 /\ sampleTotal' = sampleTotal + delta
          /\ average' = average /\ slowAverages' = slowAverages
      BY <1>4, <2>1 DEF UpdateQualityTick, StatsIntAdd
    <3>2. averageTickTimeFailedInARow' = IF average = NotSet THEN averageTickTimeFailedInARow
              ELSE IF average > TargetTime THEN averageTickTimeFailedInARow + 1 ELSE 0
      BY <1>1, <3>1, Zenon DEF CountAverage
    <3>3. averageTickTimeFailedInARow' =
             IF slowAverages = 0 THEN 0 ELSE (slowAverages - 1) * BatchSize + sampleCount + 1 + 1
      <4>1. CASE slowAverages = 0
        BY <1>4, <3>2, <4>1 DEF NotSet
      <4>2. CASE slowAverages # 0
        <5>1. average > TargetTime /\ average # NotSet
          BY <1>4, <4>2 DEF NotSet
        <5>. QED
          BY <1>4, <3>2, <4>2, <5>1, Zenon
      <4>. QED
        BY <4>1, <4>2, Zenon
    <3>4. averageTickTimeFailedInARow' \in Nat
      BY <1>4, <3>2
    <3>5. averageTickTimeFailedInARow' = Watch!UpdatesUnderSlow(slowAverages', sampleCount')
      BY <1>4, <3>1, <3>3 DEF Watch!UpdatesUnderSlow
    <3>. QED
      BY <1>4, <2>1, <3>1, <3>4, <3>5
  <2>2. CASE sampleCount + 1 = BatchSize
    <3>1. /\ sampleCount' = 0 /\ sampleTotal' = 0
          /\ average' = (sampleTotal + delta) \div BatchSize
          /\ slowAverages' = IF average' > TargetTime THEN slowAverages + 1 ELSE 0
      BY <1>4, <2>2 DEF UpdateQualityTick, StatsIntAdd
    <3>2. average' \in Nat
      BY <1>4, <3>1, AverageIsATime, Zenon
    <3>3. averageTickTimeFailedInARow' =
             IF average' > TargetTime THEN averageTickTimeFailedInARow + 1 ELSE 0
      BY <1>1, <3>2 DEF CountAverage, NotSet
    <3>4. (slowAverages - 1) * BatchSize = slowAverages * BatchSize - BatchSize
          /\ slowAverages * BatchSize \in Nat
      BY <1>4
    <3>5. averageTickTimeFailedInARow + 1 = slowAverages * BatchSize + 1
      BY <1>4, <2>2, <3>4
    <3>6. averageTickTimeFailedInARow' = Watch!UpdatesUnderSlow(slowAverages', sampleCount')
      BY <1>4, <3>1, <3>2, <3>3, <3>5 DEF Watch!UpdatesUnderSlow
    <3>7. averageTickTimeFailedInARow' \in Nat /\ slowAverages' \in Nat
          /\ (average' > TargetTime <=> slowAverages' > 0)
      BY <1>4, <3>1, <3>2, <3>3
    <3>. QED
      BY <1>4, <2>2, <3>1, <3>2, <3>6, <3>7
  <2>. QED
    BY <1>4, <2>1, <2>2
<1>6. WatchInv'
  BY <1>2, <1>3, <1>5, Zenon DEF WatchInv, QualityTypeOK
<1>7. (IF IsWorking THEN "working" ELSE "stopped")' =
         IF \/ deltaTickTimeFailedInARow' > FailedTickThreshold
            \/ Watch!UpdatesUnderSlow(slowAverages', sampleCount') > AverageThreshold
         THEN "stopped" ELSE "working"
  BY <1>1, <1>5, Zenon DEF IsWorking
<1>8. Watch!Update
  BY <1>1, <1>2, <1>5, <1>7, Zenon DEF Watch!Update, IsWorking
<1>. QED
  BY <1>6, <1>8, Zenon

\* A new game starts the watch over (update_quality.c:15-22).
LEMMA ReInitIsWatched ==
    ASSUME UpdateQualityReInit PROVE WatchInv' /\ Watch!Restart
<1>. USE TargetTimeAssumption, BatchSizeAssumption
<1>1. WatchInv'
  BY DEF UpdateQualityReInit, WatchInv, QualityTypeOK, Watch!UpdatesUnderSlow, NotSet
<1>2. Watch!Restart
  BY Zenon DEF UpdateQualityReInit, Watch!Restart, Watch!Fresh, IsWorking
<1>. QED
  BY <1>1, <1>2, Zenon

\* Everything but an update and a new game leaves the watch alone.
LEMMA NextIsWatched ==
    ASSUME WatchInv, [Next]_vars
    PROVE  WatchInv' /\ [Watch!Next]_(Watch!vars)
<1>1. ASSUME UNCHANGED qualityVars PROVE WatchInv' /\ UNCHANGED Watch!vars
  BY <1>1, Zenon DEF qualityVars, statVars, WatchInv, QualityTypeOK, Watch!UpdatesUnderSlow,
              Watch!vars, IsWorking
<1>2. ASSUME NEW delta \in Deltas, NEW dissolved \in SUBSET connUsed, Update(delta, dissolved)
      PROVE  WatchInv' /\ [Watch!Next]_(Watch!vars)
  BY <1>2, TickIsWatched, DeltasAssumption, Zenon DEF Update, Watch!Next
<1>3. CASE ReInitWithGame
  BY <1>3, ReInitIsWatched, Zenon DEF ReInitWithGame, Watch!Next
<1>4. ASSUME NEW c \in Connections, ConnectionConnected(c) \/ ConnectionDisconnected(c)
      PROVE  UNCHANGED qualityVars
  BY <1>4, Zenon DEF ConnectionConnected, ConnectionDisconnected
<1>5. ASSUME NEW t \in Connections, NEW n \in Numbers, Arrive(t, n) PROVE UNCHANGED qualityVars
  BY <1>5, Zenon DEF Arrive
<1>6. ASSUME ArriveBeyond \/ ReadEnds \/ Read PROVE UNCHANGED qualityVars
  BY <1>6, Zenon DEF ArriveBeyond, ReadEnds, Read, Refuse, Accept
<1>7. ASSUME Command PROVE UNCHANGED qualityVars
  BY <1>7, Zenon DEF Command, FeedEnds, BlobStream, BlobStreamFails, BlobStreamEnds, SendOwn,
              OwnTooLarge, WriteHeader, UnknownCommand, CommandFails, Download,
              NoReplyToSend, Reply, ReplyTooLarge, ReplyToConnect
<1>8. ASSUME UNCHANGED vars PROVE UNCHANGED qualityVars
  BY <1>8, Zenon DEF vars
<1>. QED
  BY <1>1, <1>2, <1>3, <1>4, <1>5, <1>6, <1>7, <1>8, Zenon DEF Next, Host

\* The watch starts as HostWatch does.
LEMMA InitIsWatched == Init => WatchInv /\ Watch!Init
<1>. USE TargetTimeAssumption, BatchSizeAssumption
<1>1. Init => WatchInv
  BY DEF Init, UpdateQualityInit, WatchInv, QualityTypeOK, Watch!UpdatesUnderSlow, NotSet
<1>2. Init => Watch!Init
  BY Zenon DEF Init, UpdateQualityInit, Watch!Init, Watch!Fresh, IsWorking
<1>. QED
  BY <1>1, <1>2, Zenon

\* The server's watch over its host implements HostWatch, for every target
\* time, threshold and batch size: the host is stopped for too many late
\* updates in a row or too many updates under a slow average, and for nothing
\* else (update_quality.c:24-70).
THEOREM WatchImplemented == Spec => ImplementsWatch
<1>1. Init => WatchInv /\ Watch!Init
  BY InitIsWatched, Zenon
<1>2. WatchInv /\ [Next]_vars => WatchInv' /\ [Watch!Next]_(Watch!vars)
  BY NextIsWatched, Zenon
<1>. QED
  BY <1>1, <1>2, PTL DEF Spec, Watch!Spec, ImplementsWatch

-----------------------------------------------------------------------------
(* The numbers of replies.                                                 *)

InFeed == {"feeding", "replying", "streaming", "answering"}

ThreadTyped ==
    /\ phase \in {"host", "reading"} \cup InFeed
    /\ received \in 0..MaxPerUpdate
    /\ feeding \in Connections \cup {None}
    /\ phase \in InFeed => feeding \in Connections
    /\ commandsLeft \in 0..MaxCommands
    /\ header \in Seqs \cup {None}
    /\ ownLeft \in 0..MaxEntries

LinksTyped ==
    /\ connUsed \subseteq Connections
    /\ transportIndex \in [Connections -> Connections \cup {None}]
    /\ lastReceived \in [Connections -> Seqs \cup {None}]
    /\ lastHandled \in [Connections -> Numbers \cup {None}]

NumbersTyped ==
    /\ nextToSend \in [Connections -> Seqs]
    /\ lastSent \in [Connections -> Seqs \cup {None}]
    /\ startedOver \subseteq Connections

NetworkTyped ==
    /\ queue \in Seq([from : Transports, number : Numbers])
    /\ clientNumber \in [Connections -> 0..(MaxNumber + 1)]

\* While the reply to a command is prepared no number of its connection is
\* used, so the header still has the next.
HeaderIsNext == phase = "replying" => header = nextToSend[feeding]

UpdateInv ==
    /\ ThreadTyped /\ LinksTyped /\ NumbersTyped /\ NetworkTyped
    /\ HeaderIsNext /\ NumbersFollowEachOther

\* The number after a number is a number.
LEMMA NextNumber == \A s \in Seqs : Next1(s) \in Seqs /\ s # None
BY SeqCountAssumption DEF Seqs, Next1, None

\* A number on the wire is a number of the library.
LEMMA WireNumber == \A n \in Numbers : n % SeqCount \in Seqs
BY SeqCountAssumption, BoundsAssumption DEF Numbers, Seqs

\* The datagram read first is one that was sent, and the rest still wait.
LEMMA QueueRead ==
    ASSUME NetworkTyped, queue # <<>>
    PROVE  /\ Head(queue).from \in Transports /\ Head(queue).number \in Numbers
           /\ Tail(queue) \in Seq([from : Transports, number : Numbers])
<1>. DEFINE D == [from : Transports, number : Numbers]
<1>1. queue \in Seq(D)
  BY Zenon DEF NetworkTyped
<1>. HIDE DEF D
<1>2. Head(queue) \in D /\ Tail(queue) \in Seq(D)
  BY <1>1
<1>. QED
  BY <1>2, Zenon DEF D

\* Using the next number for a datagram, sent or not, leaves it the last one
\* (transport_connection.c:57-60).
LEMMA UseKeepsNumbers ==
    ASSUME NumbersTyped, NumbersFollowEachOther, NEW c \in Connections,
           NEW sent \in {nextToSend[c], None}, UseNumber(c, sent)
    PROVE  NumbersTyped' /\ NumbersFollowEachOther'
<1>1. /\ nextToSend' = [nextToSend EXCEPT ![c] = Next1(nextToSend[c])]
      /\ lastSent' = [lastSent EXCEPT ![c] = sent]
      /\ startedOver' = startedOver \ {c}
  BY Zenon DEF UseNumber, NumbersTyped
<1>2. NumbersTyped'
  BY <1>1, NextNumber, Zenon DEF NumbersTyped
<1>. QED
  BY <1>1, <1>2, Zenon DEF NumbersTyped, NumbersFollowEachOther

\* Steps outside the replies keep the numbers.
LEMMA NumbersUntouched ==
    ASSUME NumbersTyped, NumbersFollowEachOther, UNCHANGED <<nextToSend, lastSent, startedOver>>
    PROVE  NumbersTyped' /\ NumbersFollowEachOther'
BY Zenon DEF NumbersTyped, NumbersFollowEachOther

\* A handler that ends in an error leaves the thread with the host.
LEMMA GiveUpTyped ==
    ASSUME ThreadTyped, GiveUp, UNCHANGED received
    PROVE  ThreadTyped' /\ HeaderIsNext'
<1>. USE MaxPerUpdateAssumption, MaxEntriesAssumption, BoundsAssumption
<1>1. phase' = "host" /\ feeding' = None /\ commandsLeft' = 0 /\ header' = None /\ ownLeft' = 0
  BY Zenon DEF GiveUp
<1>. QED
  BY <1>1 DEF ThreadTyped, HeaderIsNext, InFeed

\* What the host and the network do keeps the invariant.
LEMMA HostKeeps ==
    ASSUME UpdateInv, Host \/ ArriveBeyond \/ \E t \in Connections, n \in Numbers : Arrive(t, n)
    PROVE  UpdateInv'
<1>. USE MaxPerUpdateAssumption, BoundsAssumption DEF UpdateInv
<1>1. ASSUME NEW delta \in Deltas, NEW dissolved \in SUBSET connUsed, Update(delta, dissolved)
      PROVE  UpdateInv'
  <2>1. /\ phase = "host" /\ phase' \in {"host", "reading"} /\ connUsed' \subseteq connUsed
        /\ received' = 0
        /\ UNCHANGED <<feeding, commandsLeft, header, ownLeft, queue, transportIndex,
                       lastReceived, nextToSend, lastHandled, lastSent, startedOver, clientNumber>>
    BY <1>1, Zenon DEF Update, TickParties
  <2>2. ThreadTyped' /\ HeaderIsNext'
    BY <2>1 DEF ThreadTyped, HeaderIsNext, InFeed
  <2>3. LinksTyped' /\ NetworkTyped'
    BY <2>1, Zenon DEF LinksTyped, NetworkTyped
  <2>. QED
    BY <2>1, <2>2, <2>3, NumbersUntouched, Zenon
<1>2. CASE ReInitWithGame
  BY <1>2, NumbersUntouched, Zenon
    DEF ReInitWithGame, threadVars, linkVars, ThreadTyped, HeaderIsNext, LinksTyped, NetworkTyped
<1>3. ASSUME NEW c \in Connections, ConnectionConnected(c) PROVE UpdateInv'
  <2>1. phase = "host" /\ connUsed' = connUsed \cup {c} /\ UNCHANGED <<threadVars, queue, clientNumber>>
    BY <1>3, Zenon DEF ConnectionConnected
  <2>2. ThreadTyped' /\ HeaderIsNext' /\ NetworkTyped'
    BY <2>1, Zenon DEF threadVars, ThreadTyped, HeaderIsNext, NetworkTyped
  <2>3. CASE transportIndex[c] # None
    BY <1>3, <2>1, <2>2, <2>3, NumbersUntouched, Zenon DEF ConnectionConnected, LinksTyped
  <2>4. CASE transportIndex[c] = None
    <3>1. PICK t \in Connections \cup {None}, last \in Seqs \cup {None}, next \in Seqs :
              /\ transportIndex' = [transportIndex EXCEPT ![c] = t]
              /\ lastReceived' = [lastReceived EXCEPT ![c] = last]
              /\ nextToSend' = [nextToSend EXCEPT ![c] = next]
              /\ lastHandled' = [lastHandled EXCEPT ![c] = None]
              /\ lastSent' = [lastSent EXCEPT ![c] = None]
              /\ startedOver' = startedOver \ {c}
      BY <1>3, <2>4, Zenon DEF ConnectionConnected, Restarted
    <3>2. LinksTyped'
      BY <2>1, <3>1, Zenon DEF LinksTyped
    <3>3. NumbersTyped'
      BY <3>1, Zenon DEF NumbersTyped
    <3>4. NumbersFollowEachOther'
      BY <3>1, Zenon DEF NumbersTyped, NumbersFollowEachOther
    <3>. QED
      BY <2>2, <3>2, <3>3, <3>4, Zenon
  <2>. QED
    BY <2>3, <2>4, Zenon
<1>4. ASSUME NEW c \in Connections, ConnectionDisconnected(c) PROVE UpdateInv'
  BY <1>4, NumbersUntouched, Zenon
    DEF ConnectionDisconnected, threadVars, ThreadTyped, HeaderIsNext, LinksTyped, NetworkTyped
<1>5. ASSUME NEW t \in Transports, NEW n \in Numbers,
             queue' = Append(queue, [from |-> t, number |-> n])
      PROVE  queue' \in Seq([from : Transports, number : Numbers])
  <2>. DEFINE D == [from : Transports, number : Numbers]
  <2>. DEFINE d == [from |-> t, number |-> n]
  <2>1. d \in D /\ queue \in Seq(D)
    BY Zenon DEF NetworkTyped
  <2>. HIDE DEF d, D
  <2>2. Append(queue, d) \in Seq(D)
    BY <2>1
  <2>. QED
    BY <1>5, <2>2, Zenon DEF d, D
<1>6. ASSUME UNCHANGED <<threadVars, linkVars>>
      PROVE  ThreadTyped' /\ HeaderIsNext' /\ LinksTyped' /\ NumbersTyped' /\ NumbersFollowEachOther'
  BY <1>6, NumbersUntouched, Zenon DEF threadVars, linkVars, ThreadTyped, HeaderIsNext, LinksTyped
<1>7. CASE ArriveBeyond
  <2>1. ConnectionCount \in Transports /\ 0 \in Numbers
    BY ConnectionCountAssumption DEF Transports, Numbers
  <2>2. NetworkTyped'
    BY <1>5, <1>7, <2>1, Zenon DEF ArriveBeyond, NetworkTyped
  <2>. QED
    BY <1>6, <1>7, <2>2, Zenon DEF ArriveBeyond
<1>8. ASSUME NEW t \in Connections, NEW n \in Numbers, Arrive(t, n) PROVE UpdateInv'
  <2>1. t \in Transports
    BY ConnectionCountAssumption DEF Transports, Connections
  <2>2. clientNumber' = [clientNumber EXCEPT ![t] = IF n >= clientNumber[t] THEN n + 1
                                                    ELSE clientNumber[t]]
    BY <1>8, Zenon DEF Arrive
  <2>3. n + 1 \in 0..(MaxNumber + 1)
    BY DEF Numbers
  <2>4. clientNumber' \in [Connections -> 0..(MaxNumber + 1)]
    BY <2>2, <2>3, Zenon DEF NetworkTyped
  <2>5. NetworkTyped'
    BY <1>5, <1>8, <2>1, <2>4, Zenon DEF Arrive, NetworkTyped
  <2>. QED
    BY <1>6, <1>8, <2>5, Zenon DEF Arrive
<1>. QED
  BY <1>1, <1>2, <1>3, <1>4, <1>7, <1>8, Zenon DEF Host

\* Reading keeps the invariant: a connection that is opened starts over.
LEMMA ReadKeeps == ASSUME UpdateInv, ReadEnds \/ Read PROVE UpdateInv'
<1>. USE MaxPerUpdateAssumption, BoundsAssumption, MaxEntriesAssumption DEF UpdateInv
<1>1. CASE ReadEnds
  BY <1>1, NumbersUntouched, Zenon
    DEF ReadEnds, linkVars, ThreadTyped, HeaderIsNext, LinksTyped, NetworkTyped, InFeed
<1>2. ASSUME MayReceive, queue' = Tail(queue), received' = received + 1, UNCHANGED clientNumber
      PROVE  NetworkTyped' /\ received' \in 0..MaxPerUpdate
  BY <1>2, QueueRead DEF MayReceive, NetworkTyped, ThreadTyped
<1>3. CASE Refuse
  <2>1. NetworkTyped' /\ received' \in 0..MaxPerUpdate
    BY <1>2, <1>3, Zenon DEF Refuse
  <2>2. ThreadTyped' /\ HeaderIsNext'
    BY <1>3, <2>1 DEF Refuse, GiveUp, ThreadTyped, HeaderIsNext, InFeed
  <2>3. LinksTyped'
    BY <1>3, Zenon DEF Refuse, linkVars, LinksTyped
  <2>4. UNCHANGED <<nextToSend, lastSent, startedOver>>
    BY <1>3, Zenon DEF Refuse, linkVars
  <2>. QED
    BY <2>1, <2>2, <2>3, <2>4, NumbersUntouched, Zenon
<1>4. CASE Accept
  <2>. DEFINE t == Head(queue).from
              n == Head(queue).number
  <2>1. NetworkTyped' /\ received' \in 0..MaxPerUpdate
    BY <1>2, <1>4, Zenon DEF Accept
  <2>2. t \in Connections /\ n \in Numbers
    BY <1>4, QueueRead, Zenon DEF Accept, MayReceive, IsAccepted
  <2>3. /\ connUsed' = connUsed \cup {t}
        /\ transportIndex' = [transportIndex EXCEPT ![t] = t]
        /\ lastReceived' = [lastReceived EXCEPT ![t] = n % SeqCount]
        /\ nextToSend' = IF t \notin connUsed THEN [nextToSend EXCEPT ![t] = 0] ELSE nextToSend
        /\ lastHandled' = [lastHandled EXCEPT ![t] = n]
        /\ lastSent' = IF t \notin connUsed THEN [lastSent EXCEPT ![t] = None] ELSE lastSent
        /\ startedOver' = IF t \notin connUsed THEN startedOver \ {t} ELSE startedOver
        /\ feeding' = t /\ phase' = "feeding" /\ commandsLeft' \in 0..MaxCommands
        /\ UNCHANGED <<header, ownLeft>>
    BY <1>4, Zenon DEF Accept, Restarted
  <2>. HIDE DEF t, n
  <2>4. n % SeqCount \in Seqs
    BY <2>2, WireNumber, Zenon
  <2>5. ThreadTyped' /\ HeaderIsNext'
    BY <2>1, <2>2, <2>3, Zenon DEF ThreadTyped, HeaderIsNext, InFeed
  <2>6. LinksTyped'
    BY <2>2, <2>3, <2>4, Zenon DEF LinksTyped
  <2>7. 0 \in Seqs
    BY SeqCountAssumption DEF Seqs
  <2>8. NumbersTyped'
    BY <2>2, <2>3, <2>7, Zenon DEF NumbersTyped
  <2>9. NumbersFollowEachOther'
    BY <2>2, <2>3, Zenon DEF NumbersTyped, NumbersFollowEachOther
  <2>. QED
    BY <2>1, <2>5, <2>6, <2>8, <2>9, Zenon
<1>. QED
  BY <1>1, <1>3, <1>4, Zenon DEF Read

\* The commands of a datagram keep the invariant, whatever their results.
LEMMA CommandKeeps == ASSUME UpdateInv, Command PROVE UpdateInv'
<1>. USE MaxPerUpdateAssumption, BoundsAssumption, MaxEntriesAssumption DEF UpdateInv
<1>1. ASSUME UNCHANGED <<queue, clientNumber>> PROVE NetworkTyped'
  BY <1>1, Zenon DEF NetworkTyped
<1>2. ASSUME UNCHANGED <<connUsed, transportIndex, lastReceived, lastHandled>> PROVE LinksTyped'
  BY <1>2, Zenon DEF LinksTyped
<1>3. ASSUME UNCHANGED linkVars PROVE LinksTyped' /\ NumbersTyped' /\ NumbersFollowEachOther'
  BY <1>2, <1>3, NumbersUntouched, Zenon DEF linkVars
<1>4. ASSUME phase \in InFeed PROVE feeding \in Connections /\ nextToSend[feeding] \in Seqs
  BY <1>4, Zenon DEF ThreadTyped, NumbersTyped
<1>5. CASE FeedEnds
  <2>1. ThreadTyped' /\ HeaderIsNext'
    BY <1>5, Zenon DEF FeedEnds, ThreadTyped, HeaderIsNext, InFeed
  <2>. QED
    BY <1>1, <1>3, <1>5, <2>1, Zenon DEF FeedEnds
<1>6. CASE BlobStream
  <2>1. ThreadTyped' /\ HeaderIsNext'
    BY <1>4, <1>6 DEF BlobStream, TakeCommand, ThreadTyped, HeaderIsNext, InFeed
  <2>. QED
    BY <1>1, <1>3, <1>6, <2>1, Zenon DEF BlobStream
<1>7. CASE BlobStreamFails \/ CommandFails \/ NoReplyToSend
  <2>1. ThreadTyped' /\ HeaderIsNext'
    BY <1>7, GiveUpTyped, Zenon DEF BlobStreamFails, CommandFails, NoReplyToSend
  <2>. QED
    BY <1>1, <1>3, <1>7, <2>1, Zenon DEF BlobStreamFails, CommandFails, NoReplyToSend
<1>8. CASE BlobStreamEnds
  <2>1. ThreadTyped' /\ HeaderIsNext'
    BY <1>8, Zenon DEF BlobStreamEnds, ThreadTyped, HeaderIsNext, InFeed
  <2>. QED
    BY <1>1, <1>3, <1>8, <2>1, Zenon DEF BlobStreamEnds
<1>9. CASE SendOwn
  <2>1. feeding \in Connections
    BY <1>4, <1>9, Zenon DEF SendOwn, InFeed
  <2>2. NumbersTyped' /\ NumbersFollowEachOther'
    BY <1>9, <2>1, UseKeepsNumbers, Zenon DEF SendOwn
  <2>3. ThreadTyped' /\ HeaderIsNext'
    BY <1>9 DEF SendOwn, ThreadTyped, HeaderIsNext
  <2>. QED
    BY <1>1, <1>2, <1>9, <2>2, <2>3, Zenon DEF SendOwn
<1>10. CASE OwnTooLarge \/ ReplyTooLarge
  <2>1. feeding \in Connections
    BY <1>4, <1>10, Zenon DEF OwnTooLarge, ReplyTooLarge, InFeed
  <2>2. NumbersTyped' /\ NumbersFollowEachOther'
    BY <1>10, <2>1, UseKeepsNumbers, Zenon DEF OwnTooLarge, ReplyTooLarge
  <2>3. ThreadTyped' /\ HeaderIsNext'
    BY <1>10, GiveUpTyped, Zenon DEF OwnTooLarge, ReplyTooLarge
  <2>. QED
    BY <1>1, <1>2, <1>10, <2>2, <2>3, Zenon DEF OwnTooLarge, ReplyTooLarge
<1>11. CASE WriteHeader
  <2>1. /\ feeding \in Connections /\ nextToSend[feeding] \in Seqs
        /\ header' = nextToSend[feeding] /\ phase' = "replying"
        /\ commandsLeft > 0 /\ commandsLeft' = commandsLeft - 1
        /\ UNCHANGED <<received, feeding, ownLeft, nextToSend>>
    BY <1>4, <1>11, Zenon DEF WriteHeader, TakeCommand, InFeed, linkVars
  <2>2. ThreadTyped' /\ HeaderIsNext'
    BY <2>1 DEF ThreadTyped, HeaderIsNext, InFeed
  <2>. QED
    BY <1>1, <1>3, <1>11, <2>2, Zenon DEF WriteHeader
<1>12. CASE UnknownCommand
  <2>1. ThreadTyped' /\ HeaderIsNext'
    BY <1>12 DEF UnknownCommand, ThreadTyped, HeaderIsNext, InFeed
  <2>. QED
    BY <1>1, <1>3, <1>12, <2>1, Zenon DEF UnknownCommand
<1>13. CASE Download
  <2>1. feeding \in Connections
    BY <1>4, <1>13, Zenon DEF Download, InFeed
  <2>2. NumbersTyped' /\ NumbersFollowEachOther'
    BY <1>13, <2>1, UseKeepsNumbers, Zenon DEF Download
  <2>3. ThreadTyped' /\ HeaderIsNext'
    BY <1>13, <2>1, Zenon DEF Download, ThreadTyped, HeaderIsNext, InFeed
  <2>. QED
    BY <1>1, <1>2, <1>13, <2>2, <2>3, Zenon DEF Download
<1>14. CASE Reply
  <2>1. feeding \in Connections /\ header = nextToSend[feeding]
    BY <1>4, <1>14, Zenon DEF Reply, InFeed, HeaderIsNext
  <2>2. NumbersTyped' /\ NumbersFollowEachOther'
    BY <1>14, <2>1, UseKeepsNumbers, Zenon DEF Reply
  <2>3. ThreadTyped' /\ HeaderIsNext'
    BY <1>14, <2>1, Zenon DEF Reply, ThreadTyped, HeaderIsNext, InFeed
  <2>. QED
    BY <1>1, <1>2, <1>14, <2>2, <2>3, Zenon DEF Reply
<1>15. ASSUME NEW d \in Connections, ReplyToConnect(d) PROVE UpdateInv'
  <2>1. feeding \in Connections /\ header = nextToSend[feeding] /\ 0 \in Seqs
    BY <1>4, <1>15, SeqCountAssumption DEF ReplyToConnect, InFeed, HeaderIsNext, Seqs
  <2>2. /\ connUsed' = connUsed \cup {d}
        /\ transportIndex' = [transportIndex EXCEPT ![d] = feeding]
        /\ lastReceived' = [lastReceived EXCEPT ![d] = None]
        /\ lastHandled' = [lastHandled EXCEPT ![d] = None]
    BY <1>15, Zenon DEF ReplyToConnect, TakesConnection, Restarted
  <2>3. LinksTyped'
    BY <2>1, <2>2, Zenon DEF LinksTyped
  <2>4. /\ nextToSend' = [[nextToSend EXCEPT ![d] = 0] EXCEPT
                             ![feeding] = Next1([nextToSend EXCEPT ![d] = 0][feeding])]
        /\ lastSent' = [[lastSent EXCEPT ![d] = None] EXCEPT ![feeding] = header]
        /\ startedOver' = IF d = feeding THEN startedOver \cup {d} ELSE startedOver \ {d, feeding}
    BY <1>15, Zenon DEF ReplyToConnect, Restarted
  <2>5. /\ nextToSend'[feeding] = IF d = feeding THEN Next1(0) ELSE Next1(nextToSend[feeding])
        /\ nextToSend' \in [Connections -> Seqs]
        /\ \A c \in Connections \ {d, feeding} : nextToSend'[c] = nextToSend[c]
    BY <2>1, <2>4, NextNumber, Zenon DEF NumbersTyped
  <2>6. /\ lastSent' \in [Connections -> Seqs \cup {None}]
        /\ lastSent'[feeding] = header
        /\ d # feeding => lastSent'[d] = None
        /\ \A c \in Connections \ {d, feeding} : lastSent'[c] = lastSent[c]
    BY <2>1, <2>4, Zenon DEF NumbersTyped
  <2>7. NumbersTyped' /\ NumbersFollowEachOther'
    <3>1. NumbersTyped'
      BY <2>4, <2>5, <2>6, Zenon DEF NumbersTyped
    <3>2. ASSUME NEW c \in Connections, lastSent'[c] # None
          PROVE  nextToSend'[c] = Next1(IF c \in startedOver' THEN 0 ELSE lastSent'[c])
      <4>1. CASE c = feeding /\ d = feeding
        BY <2>4, <2>5, <4>1, Zenon
      <4>2. CASE c = feeding /\ d # feeding
        BY <2>1, <2>4, <2>5, <2>6, <4>2, Zenon
      <4>3. CASE c = d /\ d # feeding
        BY <2>6, <3>2, <4>3, Zenon
      <4>4. CASE c \notin {d, feeding}
        <5>1. /\ nextToSend'[c] = nextToSend[c] /\ lastSent'[c] = lastSent[c]
              /\ c \in startedOver' <=> c \in startedOver
          BY <2>4, <2>5, <2>6, <4>4, Zenon
        <5>. QED
          BY <3>2, <5>1, Zenon DEF NumbersFollowEachOther
      <4>. QED
        BY <4>1, <4>2, <4>3, <4>4, Zenon
    <3>. QED
      BY <3>1, <3>2, Zenon DEF NumbersFollowEachOther
  <2>8. ThreadTyped' /\ HeaderIsNext'
    BY <1>15, <2>1, Zenon DEF ReplyToConnect, ThreadTyped, HeaderIsNext, InFeed
  <2>. QED
    BY <1>1, <1>15, <2>3, <2>7, <2>8, Zenon DEF ReplyToConnect
<1>. QED
  BY <1>5, <1>6, <1>7, <1>8, <1>9, <1>10, <1>11, <1>12, <1>13, <1>14, <1>15, Zenon DEF Command

\* The invariant holds initially and is kept by every step.
LEMMA AlwaysUpdateInv == Spec => []UpdateInv
<1>1. Init => UpdateInv
  <2>. SUFFICES ASSUME Init PROVE UpdateInv
    BY Zenon
  <2>1. ThreadTyped /\ HeaderIsNext
    BY MaxPerUpdateAssumption, BoundsAssumption, MaxEntriesAssumption
       DEF Init, ThreadTyped, HeaderIsNext, InFeed
  <2>2. NumbersTyped /\ NumbersFollowEachOther
    BY SeqCountAssumption DEF Init, NumbersTyped, NumbersFollowEachOther, Seqs
  <2>3. LinksTyped /\ NetworkTyped
    BY BoundsAssumption DEF Init, LinksTyped, NetworkTyped
  <2>. QED
    BY <2>1, <2>2, <2>3, Zenon DEF UpdateInv
<1>2. UpdateInv /\ [Next]_vars => UpdateInv'
  <2>. SUFFICES ASSUME UpdateInv, [Next]_vars PROVE UpdateInv'
    BY Zenon
  <2>1. CASE UNCHANGED vars
    BY <2>1, NumbersUntouched, Zenon DEF vars, threadVars, linkVars, UpdateInv, ThreadTyped, LinksTyped,
                                  NetworkTyped, HeaderIsNext
  <2>. QED
    BY <2>1, HostKeeps, ReadKeeps, CommandKeeps, Zenon DEF Next
<1>. QED
  BY <1>1, <1>2, PTL DEF Spec

\* Every datagram over a connection has the number after that of the one sent
\* before it, for every number of connections and every range of numbers: what
\* a handler sends itself never takes the number of a reply that is prepared.
\* Only the one after the reply to a connect request that was given its own
\* connection does not: its number is 1 (server.c:208-261, req_connect.c:75).
THEOREM RepliesAreNumberedInOrder == Spec => []NumbersFollowEachOther
<1>1. UpdateInv => NumbersFollowEachOther
  BY Zenon DEF UpdateInv
<1>. QED
  BY <1>1, AlwaysUpdateInv, PTL

\* Every variable keeps to its type; an update never reads more datagrams
\* than it may (server.c:479-515).
THEOREM UpdateIsTyped == Spec => []TypeOK
<1>1. Init => WatchInv
  BY InitIsWatched, Zenon
<1>2. WatchInv /\ [Next]_vars => WatchInv'
  BY NextIsWatched, Zenon
<1>3. UpdateInv /\ WatchInv => TypeOK
  BY Zenon DEF UpdateInv, WatchInv, ThreadTyped, LinksTyped, NumbersTyped, NetworkTyped, InFeed, TypeOK
<1>. QED
  BY <1>1, <1>2, <1>3, AlwaysUpdateInv, PTL DEF Spec

-----------------------------------------------------------------------------
(* The order of commands.                                                  *)

\* What remains after a division
LEMMA Divided ==
    ASSUME NEW a \in Int, NEW s \in Nat \ {0}
    PROVE  \E q \in Int : a = s * q + (a % s) /\ (a % s) \in 0..(s - 1)
<1>. WITNESS a \div s \in Int
<1>. QED
  BY SMT

\* The distance, on the wire, back to a number that is not too old
LEMMA WireDistance ==
    ASSUME NEW a \in Nat, NEW b \in Nat, NEW s \in Nat, s > 1, b <= a, a - b < s
    PROVE  ((b % s) - (a % s)) % s = IF a = b THEN 0 ELSE s - (a - b)
<1>0. s \in Nat \ {0} /\ a \in Int /\ b \in Int
  OBVIOUS
<1>. DEFINE x == a % s
            y == b % s
<1>1. PICK q \in Int : a = s * q + x /\ x \in 0..(s - 1)
  BY <1>0, Divided, Zenon
<1>2. PICK r \in Int : b = s * r + y /\ y \in 0..(s - 1)
  BY <1>0, Divided, Zenon
<1>. HIDE DEF x, y
<1>. DEFINE k == q - r
<1>3. k \in Int /\ s * k = s * q - s * r /\ x \in Int /\ y \in Int
  BY <1>1, <1>2
<1>. HIDE DEF k
<1>4. s * k \in Int /\ y - x = s * k - (a - b)
  BY <1>1, <1>2, <1>3
<1>5. k \in {0, 1}
  <2>1. ASSUME k >= 2 PROVE FALSE
    <3>1. s * k = s * (k - 2) + 2 * s /\ s * (k - 2) >= 0
      BY <1>3, <2>1
    <3>2. s * k >= 2 * s
      BY <1>3, <3>1
    <3>3. y - x >= 2 * s - (a - b)
      BY <1>4, <3>2
    <3>. QED
      BY <1>1, <1>2, <3>3
  <2>2. ASSUME k < 0 PROVE FALSE
    <3>1. s * k = s * (k + 1) - s /\ s * (k + 1) <= 0
      BY <1>3, <2>2
    <3>2. s * k <= -s
      BY <1>3, <3>1
    <3>3. y - x <= -s - (a - b)
      BY <1>4, <3>2
    <3>. QED
      BY <1>1, <1>2, <3>3
  <2>. QED
    BY <1>3, <2>1, <2>2
<1>6. y - x \in {-(a - b), s - (a - b)}
  BY <1>4, <1>5
<1>7. ASSUME NEW z \in Int, 0 <= z, z < s PROVE z % s = z
  BY <1>7, SMT
<1>8. ASSUME NEW z \in Int, -s < z, z < 0 PROVE z % s = z + s
  BY <1>8, SMT
<1>9. (y - x) % s = IF a = b THEN 0 ELSE s - (a - b)
  <2>1. CASE y - x = -(a - b)
    BY <1>7, <1>8, <2>1
  <2>2. CASE y - x = s - (a - b)
    <3>1. a # b
      BY <1>1, <1>2, <2>2
    <3>. QED
      BY <1>7, <2>2, <3>1
  <2>. QED
    BY <1>6, <2>1, <2>2, Zenon
<1>. QED
  BY <1>9, Zenon DEF x, y

\* A datagram may be this much older than the newest.
Lag == SeqCount - SeqCount \div 2

\* A datagram that waits is not too old for what was handled, nor for those
\* that wait before it; the connection remembers the number handled last.
Ordered ==
    /\ \A c \in Connections :
          /\ lastHandled[c] < clientNumber[c]
          /\ lastHandled[c] # None => lastReceived[c] = lastHandled[c] % SeqCount
    /\ \A i \in 1..Len(queue) : queue[i].from \in Connections =>
          /\ queue[i].number < clientNumber[queue[i].from]
          /\ queue[i].number > lastHandled[queue[i].from] - Lag
          /\ \A j \in 1..(i - 1) :
                queue[j].from = queue[i].from => queue[i].number > queue[j].number - Lag

\* A number that the connection takes for newer is newer
\* (server.c:177-181).
LEMMA NewerIsNewer ==
    ASSUME NEW h \in Numbers, NEW n \in Numbers, n > h - Lag,
           IsNewer(n % SeqCount, h % SeqCount)
    PROVE  n > h
<1>. USE SeqCountAssumption, BoundsAssumption
<1>. SUFFICES ASSUME n <= h PROVE FALSE
  BY DEF Numbers
<1>. DEFINE half == SeqCount \div 2
<1>1. half \in Nat /\ half <= SeqCount
  OBVIOUS
<1>2. n \in Nat /\ h \in Nat /\ h - n < SeqCount - half
  BY <1>1 DEF Numbers, Lag
<1>3. ((n % SeqCount) - (h % SeqCount)) % SeqCount \in 1..half
  BY Zenon DEF IsNewer
<1>. HIDE DEF half
<1>4. ((n % SeqCount) - (h % SeqCount)) % SeqCount = IF h = n THEN 0 ELSE SeqCount - (h - n)
  BY <1>1, <1>2, WireDistance
<1>. QED
  BY <1>1, <1>2, <1>3, <1>4

\* Ordered only depends on the queue and on what the connections remember,
\* and forgetting keeps it.
LEMMA ForgettingKeepsOrdered ==
    ASSUME UpdateInv, Ordered, UNCHANGED <<queue, clientNumber>>, NEW S \in SUBSET Connections,
           lastHandled' = [c \in Connections |-> IF c \in S THEN None ELSE lastHandled[c]],
           \A c \in Connections \ S : lastReceived'[c] = lastReceived[c]
    PROVE  Ordered'
<1>. USE DEF UpdateInv, LinksTyped, NetworkTyped
<1>1. \A c \in Connections : lastHandled'[c] \in Int /\ lastHandled[c] \in Int
                             /\ lastHandled'[c] <= lastHandled[c]
  BY BoundsAssumption DEF None, Numbers
<1>2. \A c \in Connections : lastHandled'[c] < clientNumber'[c]
  BY <1>1, BoundsAssumption DEF Ordered
<1>3. \A c \in Connections : lastHandled'[c] # None => lastReceived'[c] = lastHandled'[c] % SeqCount
  BY Zenon DEF Ordered
<1>4. Lag \in Int
  BY SeqCountAssumption DEF Lag
<1>5. \A i \in 1..Len(queue) : queue[i] \in [from : Transports, number : Numbers]
  <2>. DEFINE D == [from : Transports, number : Numbers]
  <2>1. queue \in Seq(D)
    BY Zenon
  <2>. HIDE DEF D
  <2>2. \A i \in 1..Len(queue) : queue[i] \in D
    BY <2>1
  <2>. QED
    BY <2>2, Zenon DEF D
<1>6. ASSUME NEW i \in 1..Len(queue), queue[i].from \in Connections
      PROVE  queue[i].number > lastHandled'[queue[i].from] - Lag
  <2>1. queue[i].number \in Int
    BY <1>5, BoundsAssumption DEF Numbers
  <2>2. queue[i].number > lastHandled[queue[i].from] - Lag
    BY <1>6, Zenon DEF Ordered
  <2>. QED
    BY <1>1, <1>4, <1>6, <2>1, <2>2
<1>. QED
  BY <1>2, <1>3, <1>6, Zenon DEF Ordered

\* Every step keeps the order.
LEMMA NextOrdered == ASSUME UpdateInv, Ordered, [Next]_vars PROVE Ordered'
<1>1. ASSUME UNCHANGED <<queue, clientNumber, lastReceived, lastHandled>> PROVE Ordered'
  BY <1>1, Zenon DEF Ordered
<1>2. ASSUME NEW c \in Connections, UNCHANGED <<queue, clientNumber>>,
             \A d \in Connections \ {c} : lastReceived'[d] = lastReceived[d],
             lastHandled' = [lastHandled EXCEPT ![c] = None]
      PROVE  Ordered'
  <2>1. lastHandled' = [d \in Connections |-> IF d \in {c} THEN None ELSE lastHandled[d]]
    BY <1>2, Zenon DEF UpdateInv, LinksTyped
  <2>. QED
    BY <1>2, <2>1, ForgettingKeepsOrdered, Zenon
<1>3. ASSUME NEW delta \in Deltas, NEW dissolved \in SUBSET connUsed, Update(delta, dissolved)
      PROVE  Ordered'
  BY <1>1, <1>3, Zenon DEF Update
<1>4. CASE ReInitWithGame
  BY <1>1, <1>4, Zenon DEF ReInitWithGame, linkVars
<1>5. ASSUME NEW c \in Connections, ConnectionConnected(c) PROVE Ordered'
  <2>1. CASE transportIndex[c] # None
    BY <1>1, <1>5, <2>1, Zenon DEF ConnectionConnected
  <2>2. CASE transportIndex[c] = None
    BY <1>2, <1>5, <2>2, Zenon DEF ConnectionConnected, Restarted, UpdateInv, LinksTyped
  <2>. QED
    BY <2>1, <2>2, Zenon
<1>6. ASSUME NEW c \in Connections, ConnectionDisconnected(c) PROVE Ordered'
  BY <1>2, <1>6, Zenon DEF ConnectionDisconnected, UpdateInv, LinksTyped
<1>7. CASE ReadEnds
  BY <1>1, <1>7, Zenon DEF ReadEnds, linkVars
<1>8. CASE Command
  <2>1. ASSUME NEW d \in Connections, ReplyToConnect(d) PROVE Ordered'
    BY <1>2, <2>1, Zenon DEF ReplyToConnect, TakesConnection, Restarted, UpdateInv, LinksTyped
  <2>. QED
    BY <1>1, <1>8, <2>1, Zenon
      DEF Command, FeedEnds, BlobStream, BlobStreamFails, BlobStreamEnds, SendOwn, OwnTooLarge,
           WriteHeader, UnknownCommand, CommandFails, Download, NoReplyToSend, Reply,
           ReplyTooLarge, linkVars
<1>. DEFINE D == [from : Transports, number : Numbers]
<1>9. /\ queue \in Seq(D) /\ Lag \in Int
      /\ \A d \in D : d.from \in Transports /\ d.number \in Int /\ d.number \in Numbers
      /\ lastHandled \in [Connections -> Numbers \cup {None}]
      /\ lastReceived \in [Connections -> Seqs \cup {None}]
      /\ clientNumber \in [Connections -> Int]
      /\ Numbers \subseteq Int /\ None \in Int
  BY SeqCountAssumption, BoundsAssumption
     DEF UpdateInv, NetworkTyped, LinksTyped, Lag, Numbers, None
<1>10. ASSUME NEW d \in D, queue' = Append(queue, d), UNCHANGED <<lastReceived, lastHandled>>,
              clientNumber' \in [Connections -> Int],
              \A c \in Connections : clientNumber'[c] >= clientNumber[c],
              d.from \in Connections => /\ d.number < clientNumber'[d.from]
                                        /\ d.number >= clientNumber[d.from] - Lag
       PROVE  Ordered'
  <2>. HIDE DEF D
  <2>1. /\ Len(queue') = Len(queue) + 1 /\ queue'[Len(queue) + 1] = d /\ Len(queue) \in Nat
        /\ \A i \in 1..Len(queue) : queue'[i] = queue[i] /\ queue[i] \in D
    BY <1>9, <1>10
  <2>2. ASSUME NEW c \in Connections PROVE lastHandled'[c] < clientNumber'[c]
    <3>1. lastHandled[c] \in Int /\ clientNumber[c] \in Int /\ clientNumber'[c] \in Int
      BY <1>9, <1>10, Zenon
    <3>. QED
      BY <1>10, <3>1 DEF Ordered
  <2>3. \A c \in Connections : lastHandled'[c] # None => lastReceived'[c] = lastHandled'[c] % SeqCount
    BY <1>10, Zenon DEF Ordered
  <2>4. ASSUME NEW i \in 1..Len(queue), queue[i].from \in Connections
        PROVE  /\ queue[i].number < clientNumber'[queue[i].from]
               /\ queue[i].number < clientNumber[queue[i].from]
               /\ queue[i].number > lastHandled'[queue[i].from] - Lag
               /\ \A j \in 1..(i - 1) :
                     queue[j].from = queue[i].from => queue[i].number > queue[j].number - Lag
    BY <1>9, <1>10, <2>1, <2>4 DEF Ordered
  <2>5. ASSUME d.from \in Connections
        PROVE  /\ d.number < clientNumber'[d.from]
               /\ d.number > lastHandled'[d.from] - Lag
               /\ \A j \in 1..Len(queue) :
                     queue[j].from = d.from => d.number > queue[j].number - Lag
    <3>1. d.number \in Int /\ clientNumber[d.from] \in Int /\ lastHandled[d.from] \in Int
      BY <1>9, <2>5, Zenon
    <3>2. d.number > lastHandled'[d.from] - Lag
      BY <1>9, <1>10, <2>5, <3>1 DEF Ordered
    <3>3. ASSUME NEW j \in 1..Len(queue), queue[j].from = d.from
          PROVE  d.number > queue[j].number - Lag
      <4>1. queue[j].number < clientNumber[d.from] /\ queue[j].number \in Int
        BY <1>9, <2>1, <2>4, <2>5, <3>3, Zenon
      <4>. QED
        BY <1>9, <1>10, <2>5, <3>1, <4>1
    <3>. QED
      BY <1>10, <2>5, <3>2, <3>3, Zenon
  <2>6. ASSUME NEW i \in 1..Len(queue'), queue'[i].from \in Connections
        PROVE  /\ queue'[i].number < clientNumber'[queue'[i].from]
               /\ queue'[i].number > lastHandled'[queue'[i].from] - Lag
               /\ \A j \in 1..(i - 1) :
                     queue'[j].from = queue'[i].from => queue'[i].number > queue'[j].number - Lag
    <3>1. CASE i = Len(queue) + 1
      BY <2>1, <2>5, <2>6, <3>1
    <3>2. CASE i # Len(queue) + 1
      <4>1. i \in 1..Len(queue) /\ \A j \in 1..(i - 1) : j \in 1..Len(queue)
        BY <2>1, <3>2
      <4>. QED
        BY <2>1, <2>4, <2>6, <4>1, Zenon
    <3>. QED
      BY <3>1, <3>2, Zenon
  <2>. QED
    BY <2>2, <2>3, <2>6, Zenon DEF Ordered
<1>11. CASE ArriveBeyond
  <2>1. [from |-> ConnectionCount, number |-> 0] \in D /\ ConnectionCount \notin Connections
    BY ConnectionCountAssumption, BoundsAssumption DEF Transports, Numbers, Connections
  <2>. DEFINE d == [from |-> ConnectionCount, number |-> 0]
  <2>2. d \in D /\ d.from \notin Connections
    BY <2>1, Zenon
  <2>3. /\ queue' = Append(queue, d)
        /\ UNCHANGED <<lastReceived, lastHandled, clientNumber>>
    BY <1>11, Zenon DEF ArriveBeyond, linkVars
  <2>4. /\ clientNumber' \in [Connections -> Int]
        /\ \A c \in Connections : clientNumber'[c] >= clientNumber[c]
    BY <1>9, <2>3
  <2>. HIDE DEF d, D
  <2>. QED
    BY <1>10, <2>2, <2>3, <2>4, Zenon
<1>12. ASSUME NEW t \in Connections, NEW n \in Numbers, Arrive(t, n) PROVE Ordered'
  <2>1. [from |-> t, number |-> n] \in D
    BY ConnectionCountAssumption DEF Transports, Connections
  <2>2. /\ queue' = Append(queue, [from |-> t, number |-> n]) /\ n >= clientNumber[t] - Lag
        /\ clientNumber' = [clientNumber EXCEPT ![t] = IF n >= clientNumber[t] THEN n + 1
                                                       ELSE clientNumber[t]]
        /\ UNCHANGED <<lastReceived, lastHandled>>
    BY <1>12, Zenon DEF Arrive, Oldest, Lag, linkVars
  <2>3. /\ clientNumber' \in [Connections -> Int]
        /\ \A c \in Connections : clientNumber'[c] >= clientNumber[c]
        /\ n < clientNumber'[t]
    BY <1>9, <2>2
  <2>. QED
    BY <1>10, <2>1, <2>2, <2>3, Zenon
<1>13. ASSUME MayReceive, queue' = Tail(queue)
       PROVE  /\ queue[1] = Head(queue) /\ 1 \in 1..Len(queue) /\ queue[1] \in D
              /\ Len(queue') = Len(queue) - 1 /\ Len(queue) \in Nat
              /\ \A i \in 1..Len(queue') : i + 1 \in 1..Len(queue) /\ queue'[i] = queue[i + 1]
                                           /\ queue[i + 1] \in D
  <2>. HIDE DEF D
  <2>1. queue # <<>>
    BY <1>13, Zenon DEF MayReceive
  <2>2. Len(queue) \in Nat /\ Len(queue) > 0 /\ \A i \in 1..Len(queue) : queue[i] \in D
    BY <1>9, <2>1
  <2>3. Len(queue') = Len(queue) - 1 /\ queue[1] = Head(queue)
    BY <1>9, <1>13, <2>1
  <2>4. \A i \in 1..Len(queue') : queue'[i] = queue[i + 1]
    BY <1>9, <1>13, <2>1, <2>3
  <2>. QED
    BY <2>2, <2>3, <2>4
<1>14. ASSUME MayReceive, queue' = Tail(queue), UNCHANGED clientNumber,
              lastHandled' \in [Connections -> Int],
              \A c \in Connections : lastHandled'[c] < clientNumber[c],
              \A c \in Connections :
                lastHandled'[c] # None => lastReceived'[c] = lastHandled'[c] % SeqCount,
              \A c \in Connections : \/ lastHandled'[c] = lastHandled[c]
                                     \/ c = queue[1].from /\ lastHandled'[c] = queue[1].number
       PROVE  Ordered'
  <2>. HIDE DEF D
  <2>1. ASSUME NEW i \in 1..Len(queue'), queue'[i].from \in Connections
        PROVE  /\ queue'[i].number < clientNumber'[queue'[i].from]
               /\ queue'[i].number > lastHandled'[queue'[i].from] - Lag
               /\ \A j \in 1..(i - 1) :
                     queue'[j].from = queue'[i].from => queue'[i].number > queue'[j].number - Lag
    <3>1. i + 1 \in 1..Len(queue) /\ queue'[i] = queue[i + 1]
      BY <1>13, <1>14, Zenon
    <3>. DEFINE t == queue[i + 1].from
    <3>2. /\ t \in Connections /\ queue[i + 1].number < clientNumber[t]
          /\ queue[i + 1].number > lastHandled[t] - Lag
          /\ \A j \in 1..i : queue[j].from = t => queue[i + 1].number > queue[j].number - Lag
      BY <2>1, <3>1 DEF Ordered
    <3>3. queue[i + 1].number > lastHandled'[t] - Lag
      <4>1. CASE lastHandled'[t] = lastHandled[t]
        BY <3>2, <4>1, Zenon
      <4>2. CASE t = queue[1].from /\ lastHandled'[t] = queue[1].number
        <5>1. 1 \in 1..i
          BY <2>1
        <5>. QED
          BY <3>2, <4>2, <5>1, Zenon
      <4>. QED
        BY <1>14, <3>2, <4>1, <4>2, Zenon
    <3>4. ASSUME NEW j \in 1..(i - 1), queue'[j].from = t
          PROVE  queue[i + 1].number > queue'[j].number - Lag
      <4>1. j \in 1..Len(queue') /\ j + 1 \in 1..i
        BY <2>1
      <4>2. queue'[j] = queue[j + 1]
        BY <1>13, <1>14, <4>1, Zenon
      <4>. QED
        BY <3>2, <3>4, <4>1, <4>2, Zenon
    <3>. QED
      BY <1>14, <3>1, <3>2, <3>3, <3>4, Zenon
  <2>. QED
    BY <1>14, <2>1, Zenon DEF Ordered
<1>15. CASE Refuse
  <2>1. /\ MayReceive /\ queue' = Tail(queue)
        /\ UNCHANGED <<clientNumber, lastHandled, lastReceived>>
    BY <1>15, Zenon DEF Refuse, linkVars
  <2>2. lastHandled' \in [Connections -> Int]
    BY <1>9, <2>1, Zenon
  <2>. QED
    BY <1>14, <2>1, <2>2, Zenon DEF Ordered
<1>16. CASE Accept
  <2>. DEFINE t == queue[1].from
              n == queue[1].number
  <2>1. /\ MayReceive /\ queue' = Tail(queue) /\ UNCHANGED clientNumber
        /\ IsAccepted(Head(queue).from, Head(queue).number % SeqCount)
        /\ lastReceived' = [lastReceived EXCEPT ![Head(queue).from] = Head(queue).number % SeqCount]
        /\ lastHandled' = [lastHandled EXCEPT ![Head(queue).from] = Head(queue).number]
    BY <1>16, Zenon DEF Accept
  <2>2. /\ queue[1] = Head(queue) /\ 1 \in 1..Len(queue)
        /\ n \in Numbers /\ n # None /\ n \in Int /\ t \in Connections
    BY <1>9, <1>13, <2>1, BoundsAssumption DEF IsAccepted, Numbers, None
  <2>3. n < clientNumber[t]
    BY <2>2, Zenon DEF Ordered
  <2>4. /\ lastReceived' = [lastReceived EXCEPT ![t] = n % SeqCount]
        /\ lastHandled' = [lastHandled EXCEPT ![t] = n]
    BY <2>1, <2>2, Zenon
  <2>. HIDE DEF t, n
  <2>5. lastHandled' \in [Connections -> Int]
    BY <1>9, <2>2, <2>4, Zenon
  <2>6. \A c \in Connections : lastHandled'[c] < clientNumber[c]
    BY <1>9, <2>2, <2>3, <2>4, Zenon DEF Ordered
  <2>7. \A c \in Connections : lastHandled'[c] # None => lastReceived'[c] = lastHandled'[c] % SeqCount
    BY <1>9, <2>2, <2>4, Zenon DEF Ordered
  <2>8. \A c \in Connections : \/ lastHandled'[c] = lastHandled[c]
                               \/ c = t /\ lastHandled'[c] = n
    BY <1>9, <2>2, <2>4, Zenon
  <2>. QED
    BY <1>14, <2>1, <2>5, <2>6, <2>7, <2>8, Zenon DEF t, n
<1>17. CASE UNCHANGED vars
  BY <1>1, <1>17, Zenon DEF vars, linkVars
<1>. QED
  BY <1>3, <1>4, <1>5, <1>6, <1>7, <1>8, <1>11, <1>12, <1>15, <1>16, <1>17, Zenon DEF Next, Host, Read

\* A datagram that is handled is newer than the one handled before it.
LEMMA StepsHandleInOrder ==
    ASSUME UpdateInv, Ordered, Next,
           feeding = None, feeding' # None, feeding' \in connUsed, lastHandled[feeding'] # None
    PROVE  lastHandled'[feeding'] > lastHandled[feeding']
<1>1. Accept
  BY Zenon DEF Next, Host, Read, Command, Arrive, ArriveBeyond, Update, ReInitWithGame,
         ConnectionConnected, ConnectionDisconnected, ReadEnds, Refuse, GiveUp, FeedEnds,
         BlobStream, BlobStreamFails, BlobStreamEnds, SendOwn, OwnTooLarge, WriteHeader,
         UnknownCommand, CommandFails, Download, NoReplyToSend, Reply, ReplyToConnect,
         ReplyTooLarge, threadVars
<1>. DEFINE t == Head(queue).from
            n == Head(queue).number
            h == lastHandled[t]
<1>2. /\ feeding' = t /\ IsAccepted(t, n % SeqCount) /\ queue # <<>>
      /\ lastHandled' = [lastHandled EXCEPT ![t] = n]
  BY <1>1, Zenon DEF Accept, MayReceive
<1>3. t \in Connections /\ n \in Numbers /\ h \in Numbers /\ lastHandled'[t] = n
  BY <1>2, QueueRead, Zenon DEF UpdateInv, LinksTyped, IsAccepted
<1>4. lastReceived[t] = h % SeqCount
  BY <1>2, <1>3, Zenon DEF Ordered
<1>5. lastReceived[t] # None
  BY <1>3, <1>4, WireNumber, NextNumber, Zenon
<1>6. IsNewer(n % SeqCount, h % SeqCount)
  BY <1>2, <1>4, <1>5, Zenon DEF IsAccepted
<1>7. n > h - Lag
  <2>. DEFINE D == [from : Transports, number : Numbers]
  <2>1. queue \in Seq(D)
    BY Zenon DEF UpdateInv, NetworkTyped
  <2>. HIDE DEF D
  <2>2. queue[1] = Head(queue) /\ 1 \in 1..Len(queue)
    BY <1>2, <2>1
  <2>. QED
    BY <1>3, <2>2, Zenon DEF Ordered
<1>. HIDE DEF n, h
<1>8. n > h
  BY <1>3, <1>6, <1>7, NewerIsNewer, Zenon
<1>. QED
  BY <1>2, <1>3, <1>8, Zenon DEF h

\* The commands of a client are carried out in the order it sent them and
\* none of them twice, for every range of numbers that the ordered-datagram
\* library may use, as long as no datagram is delayed for half that range
\* (server.c:177-181).
THEOREM CommandsStayInOrder == Spec => HandledInOrder
<1>. DEFINE InOrder == feeding = None /\ feeding' # None /\ feeding' \in connUsed
                          /\ lastHandled[feeding'] # None
                          => lastHandled'[feeding'] > lastHandled[feeding']
<1>1. Init => Ordered
  BY BoundsAssumption DEF Init, Ordered, None
<1>2. UpdateInv /\ Ordered /\ [Next]_vars => Ordered'
  BY NextOrdered, Zenon
<1>3. UpdateInv /\ Ordered /\ [Next]_vars => [InOrder]_vars
  BY StepsHandleInOrder, Zenon
<1>. QED
  BY <1>1, <1>2, <1>3, AlwaysUpdateInv, PTL DEF Spec, HandledInOrder
=============================================================================
