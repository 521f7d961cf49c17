# Verification of nimble-server-lib

TLA+ models of the nimble game server, checked with TLC on small instances and,
where marked, proved with TLAPS for all values of the constants. Paths below are
relative to the repository's `src/lib/` unless they name another directory.

## The system

The server drives a deterministic lockstep game. Clients predict their own input
("predicted steps") and send it; the server weaves one input per participant into
an "authoritative step" that all clients replay. It is a library on one thread: the
host calls `nimbleServerUpdate` every frame, which ticks the parties and feeds the
datagrams that have arrived. There are no locks; what is hard is the order in which
clients join, fall silent, resend, time out, rejoin and reuse each other's places.

| part | state | operations | interacts with |
|---|---|---|---|
| circular buffer | data, head, tail, isFull | Init, Write, Read, IsEmpty, Count | the two free lists |
| participants | isUsed, state, steps, inParty; count, free list | Join, Prepare, MarkAsLeaving, Destroy | parties, weaving |
| authoritative steps | a window of steps | Compose | participants, quality |
| predicted steps request | - | discard, deserialize, compose, answer | parties, authoritative steps |
| local party, qualities | state, timers, counters | ReInit, Reset, Rejoin, Tick | weaving, ticks |
| local parties | places, partiesCount | Create, Prepare, FindPartyForTransport, Remove | join, ticks |
| transport connections | isUsed, transportIndex, id, request id, assigned party; free list | Feed (opening), ReqConnect, Disconnect | join, ticks |
| join request | - | with and without secret, repeated | parties, connections |
| server | the above | Update, ReadFromMultiTransport, Feed, HostMigration, ReInitWithGame, ConnectionConnected/Disconnected | all |
| step ranges | - | SendStepRanges | authoritative steps, parties |
| game state download | copied state, transfer id, request id | request, acknowledge, send | connections |
| update quality | two counters, an average, state | Tick, ReInit | Update |

The hard behaviours, each at its line, are the `hazards` of `PROJECT.json`.

## Modules

| module | models | role |
|---|---|---|
| `Fifo` | - | what the circular buffer promises: a queue, with the two uses the code only logs |
| `CircularBuffer` | `circular_buffer.c` | the ring; implements `Fifo` |
| `AuthoritativeSteps` | `authoritative_steps.c`, `participants.c`, `participant.c`, `req_step.c`, `incoming_predicted_steps.c`, parts of `local_party.c` and `connection_quality.c` | the game |
| `StepLog` | - | what the steps of a game promise those who follow it: the newest stay, never too many are held; implemented by `AuthoritativeSteps` |
| `PartyLifecycle` | - | what a client is promised: a grace period, then a wait of exactly the configured length |
| `LocalParty` | `local_party.c`, `connection_quality.c`, `delayed_quality.c` | the timers of one place; implements `PartyLifecycle` |
| `Session` | `req_connect.c`, `req_game_join.c`, `local_parties.c`, `transport_connection.c`, parts of `server.c` | who is connected and to which party |
| `HostWatch` | - | what a host is promised: when it is stopped for being slow, and when not |
| `UpdateQuality` | `update_quality.c` | the counters and the average; implements `HostWatch` |
| `ServerUpdate` | `server.c`, header numbers of `transport_connection.c`, `req_connect.c` | one update, from datagram to datagram and command to command; extends `UpdateQuality` |
| `StepRanges` | `send_authoritative_steps.c`, discarding of `req_step.c` | which steps a client is answered with |
| `GameStateDownload` | `req_game_state.c`, `req_game_state_ack.c`, `game_state.c` | the download of a game state over one connection |
| `CatchUp` | `req_step.c`, and the two above with a client and lossy links | a client downloads the state and follows the game |
| `*Proofs` | - | theorems about the module they extend |
| `MC*` | - | instances for TLC |

**AuthoritativeSteps.** A datagram with predicted steps is `ReqGameStep`. The two
nested loops of `nimbleServerComposeAuthoritativeSteps` are then run one iteration
per action (`ComposeBegin`, `Weave`, `SkipUnused`, `WriteStep`, `ComposeEnd`), and no
other operation starts until `phase` is idle again, as on the server's one thread.
`Weave` reads the step, reports to the quality, changes the participant's state,
destroys it if it is leaving, and writes the entry, in the code's order.
`WeaveOverflows` is the error return at `authoritative_steps.c:90`. The payload of a
step is its id; octets are left out. `present` is a history variable: who is in the
game according to the step stream alone. A party goes to wait only if its quality is
bad at that moment; how long it has to be bad is the subject of `LocalParty`.
`HostMigration` is `nimbleServerHostMigration` as `server.c:345` intends it, "where a
client is setting up a new server": nobody has joined, the game goes on from a step
above 0, and the participants it names are known from the old host's steps. All its
parts are in the one action: the reset of the parties, the prepared participants and
parties, and the free list rebuilt in the order of the ids.

**LocalParty.** One place. Steps provided and steps forced are reported at any time
between ticks. `silent` is the environment's decision that a client is gone; `ticks`
and `frame` are history variables for the refinement: `frame` flips with every tick,
so that no other step can pass for one.

**Session.** Connections and places are array indices, as in the code. `Open` is the
start of `nimbleServerFeed`, part of every request's action. A pointer that was never
assigned, or that comes from past the end of the places, is `Wild`; what a write
through it does to other memory is not modelled, so what is said of `Session` is said
of runs in which that write hits nothing modelled. Request ids include 0, which is also the
id of a connection that a datagram opened (`server.c:161`): a request with id 0 may be
answered with the transport's own connection besides the one it was given, and
`ConnectRequestsAreServedOnce` excepts that pair. Fields of a connection that only
`nimbleServerConnectionConnected` has touched get any value. A disconnect reported
for an index beyond the party places, which the code would look up there all the
same, is not modelled.

**ServerUpdate.** `phase` says where the one thread is: in the host, reading, in the
loop of `nimbleServerFeed`, in a handler that replies, streams or answers. Each
return of `nimbleServerFeed` is an action: `Refuse` before any command,
`BlobStreamFails`, `UnknownCommand`, `CommandFails`, `NoReplyToSend`, `OwnTooLarge`,
`ReplyTooLarge`, `FeedEnds`; those with an error end the reading too (`GiveUp`). What
a command does to parties and steps is left to the other modules: here it has any
of its results. What is kept is the numbers: `lastReceived` and `nextToSend` of the
ordered-datagram library, modulo `SeqCount`, and the prepared `header`. A download
sends its own datagrams between the preparation of a reply and the point where that
reply would go out; it never goes out, because `server.c:244` takes the empty reply for
an error. Clients number their datagrams without wrapping (`lastHandled` is history),
so that order can be stated. `lastSent` is history too, and so is `startedOver`: a connect
request that is given the very connection it came by starts the numbers over
(`req_connect.c:75`) after that of its reply was prepared, so the reply leaves with the old
number and the next datagram has number 1, which the client may have had.
`NumbersFollowEachOther` states that exception; otherwise every number follows the one
before. As in `Session`, a connection that was only reported as
connected has any values in its fields.

**GameStateDownload and StepRanges** have no behaviour of their own: they define what
the handlers do to a connection's download and which steps an answer holds. A state is
its game, its step and the number of its chunks.

**CatchUp** composes the two with one client and two links. The client repeats its
request, acknowledges all chunks it has of its transfer, plays on from the complete
state, and starts anew with another request id when it gives up or when the steps it
waits for have been discarded. Other clients make the game go on and the host may start
a new game at any time; neither is assumed to stop. `inParty` says whether the client's
connection has a party that takes its steps: it joins (`ReqGameJoin`), and loses the party
when that is destroyed or when a new game takes the participants from all parties
(`server.c:396`). A request for steps without a party, or with steps that cannot be taken
or woven, discards old steps and gets no answer (`RefuseGameStep`). The state that the host
serializes is assumed to be between the oldest and the next step that the server holds
(`Serialized`): the callback is the host's, and a host that does not keep up with its own
game gives away states that are behind already. The links keep the order and lose
datagrams: what is late or doubled is dropped by the ordered numbers, which is
`ServerUpdate`'s subject. Request ids and transfer ids come round again; `restarts`
counts how often the client has started anew since its last transfer started, and
stays below the number of ids (`IdsAssumption`). The connection stays open. Composing
is one step here and a loop in `AuthoritativeSteps`: the ends of the buffer move as its
guards allow (`StepRanges`).

**External code.** The nimble-steps library is not in this repository. From its use:
`nbsStepsReadExactStepId` drops older steps and then finds the step, nothing, or a
later step; writing a predicted step below the expected id adds nothing, the expected
one is stored while there is room, one beyond a gap is refused (`GapAccepted =
FALSE`) or stored (`TRUE`). Both are checked. `nbsPendingStepsRanges` is taken to give
all steps before the awaited one that the client misses; a range with a discarded step
cannot be written and there is no answer. From the blob-stream library:
`blobStreamLogicOutPrepareSend` gives the first few chunks that are not acknowledged,
or none when they were sent not long ago; `blobStreamLogicOutReceive` refuses
acknowledgements of another transfer. From the ordered-datagram library: a number is
newer when it is ahead by at most half of all numbers. From the stats library: an
average is taken every so many samples and kept until the next. Parties have one
participant, which `participants.c:138` asserts for joins.

## Runs

| run | bounds | shows |
|---|---|---|
| `circular_buffer` | 3 slots, 3 octets | the ring implements the queue |
| `weaving` | 2 participants, 2 places, window 6, steps 1 to 5, thresholds 1/2 | accounting, membership, announced entries, stream, order, use of accepted steps, the `StepLog`, termination, with host migration |
| `weaving_failures` | window 4, step ids below 3, gaps stored, overflowing steps | the accounting and the window survive both |
| `found_participants` | as weaving, ids below 4 | **violated**: the assertion after the weaving loop |
| `rejoined_participants` | as weaving, ids below 4 | **violated**: rejoined participants keep waiting |
| `party_timers` | thresholds 2/3, patience 3, waits of 2 and 4 | the place keeps the promise; silent clients go |
| `session` | 2 connections, 2 places, partiesCount up to 3 | counted parties, identity of connections, connect retries with ids 0 and 1 |
| `free_connection` | as session | **violated**: connections in use are on the free list |
| `late_rejoin` | as session | **violated**: a rejoin to a lost party goes on without one |
| `update` | 1 connection, 4 sequence numbers, 5 datagrams, 2 per update, 2 waiting | order, numbers that follow each other, the host watch, datagrams are read in the end |
| `catch_up` | states of 2 chunks, 2 transfer ids, 2 request ids, window 4, step ids 1 to 3, 2 games, the last without end, 1 restart without an answer | no mixed state, no chunk or step skipped, progress kept, nobody ahead of the game, the client draws level or gets steps without end |
| `download_latest` | as catch_up, 3 ids of each kind, step ids 0 to 2 | **violated**: the state of a game that ended is sent as the latest |

Bounds. Two participants are enough for one to provide steps while the other is
forced, waits, leaves and is replaced under the same id; a window of 6 has distinct
thirds and halves; five steps let the window fill, be discarded and fill again. The
runs that start at step 1 reach host migration on a new server. The
thresholds 3/5, 20/200 and 180 are shrunk in order, so every comparison goes both
ways. `MaxForced` and `MaxStepId` bound counters and inputs; `MaxPartiesCount` of 3
with 2 places lets the drifting number pass the end of the array. Five datagrams with
four numbers wrap; two per update of two waiting reach the limit of an update. One
connection is enough for order and numbers, which are kept per connection; a request
from one that is given another is covered by the proofs, for any number of
connections. In `catch_up`, two chunks and one entry per answer need two rounds, two
ids of each kind come round with every second restart, which is the fewest that
`IdsAssumption` allows, and a window of 4 discards steps under the client
and lets two be made at once, of which an answer holds one. The last game does not end at `MaxStep`: there `OthersPlayOn` of `MCCatchUp` makes one more step and lowers
all step ids of the state by one, so that a behaviour with ever more steps is a cycle of
finitely many states. Only differences of step ids matter to the model; ids that fall behind
all that the server holds are kept at 0. States fit the capacity: one that does not is never
accepted (`game_state.c:43`), and the client is told of an older or empty one.
No symmetry is used: ids are ordered by the loops. Deadlock is checked in every run.

Fairness. `ComposingEnds` assumes weak fairness of the loop iterations only: they run
on the one thread until they end. `SilentPartyIsDissolved` assumes that the host goes
on calling `nimbleServerUpdate` (weak fairness of ticks) and that steps go on being
composed (weak fairness of forced steps). The second needs another client that plays:
steps are only composed when somebody is ahead, so the last client, once silent, is
never dissolved. `DatagramsAreRead` assumes that the host goes on calling
`nimbleServerUpdate`, that its loops run to their ends (weak fairness of reading and of
commands) and that the transport does not report an error every time it has a datagram
(strong fairness of reading one). `ClientCatchesUp` assumes a client that goes on asking
(weak fairness), links that do not lose all of its requests, all answers, all chunks or all
acknowledgements, a server that does not refuse every request for steps while there is a
party to take them (strong fairness of receiving), and chunks that come due again; nothing of the
other clients and the host. It says that the client draws level infinitely often or gets
steps infinitely often, and nothing of a client that goes on losing its party, goes on
giving up although it was not left behind, or is overtaken again and again by the discarding
(`Overtaken`). Each of these conditions is needed: TLC finds a counterexample without it.
Level means the number of the step: the state may be that of a game that ended (see
`download_latest`).

## Proofs

TLAPS proves, for every value of the constants that satisfies the named assumptions:

- `CircularBufferProofs`: types, the full flag, and `RingIsFifo`, that the ring
  implements the queue. The invariant is types plus the flag; the refinement compares
  contents slot by slot after each operation.
- `AuthoritativeStepsProofs`: one inductive invariant in layers, each proved from the
  ones below. *Allocation*: types, exact count, exact free list. *Ownership*: a
  party's participant is used, in that party and not leaving. *Window*: at most half
  a window. *Weaving*: announced entries are those written plus those to come, which
  is why destroying participants inside the loop does not break the step.
  `WeavingKeepsTheLog`: every iteration is a step of `StepLog` or a stutter; discarding
  leaves a third of a window and writing keeps to half of one.
- `AuthoritativeStreamProofs` adds two layers. *Stream*: a participant is in the stream
  exactly when it is past its first entry; it needs combined steps that fit. *Buffers*:
  what a participant has stored is contiguous up to its expected id; it needs refused
  gaps as well.
- `LocalPartyProofs`: the counter of bad ticks is never above the age of the party,
  from which the refinement of `PartyLifecycle` follows.
- `SessionProofs`: `RemoveFindsItCounted`, by cardinality of the used places;
  `SessionIsTyped`, which needs that the fields of a connection are set together and
  those of a party's connection have been set;
  `FreedConnectionsKnowThemselves` and `RepeatedRequestsGetTheirConnection`, as long as
  the host reports no connects, from the invariant that every used connection has its
  own id and that a connection with a request id other than 0 is the only one with that id
  and transport.
- `ServerUpdateProofs`: `WatchImplemented`; the invariant ties the counter of updates
  under a slow average to the averages counted by `HostWatch`:
  it is `(slow - 1) * Batch + since + 1` or 0. `RepliesAreNumberedInOrder`; the invariant is
  that while a reply is being prepared its header is still the next number.
  `UpdateIsTyped` from both. `CommandsStayInOrder`: the invariant `Ordered` says that a
  waiting datagram is less than half the sequence numbers behind those handled or waiting
  before it; arithmetic modulo `SeqCount` (`WireDistance`) then turns "newer on the
  wire" into "newer". It holds for every `SeqCount` above 1 because `Arrive` delays no
  datagram by more than that; a network that does defeats any such numbering.
- `CatchUpClientProofs`, `CatchUpProofs`: the types, `DownloadsAreOneState`,
  `AcknowledgedIsReceived`, `NoGapInSteps`, `RepeatingKeepsProgress` and
  `ClientsAreNeverAhead`. The first module has the invariants and the steps of the client,
  the links and the game, the second those of the server, and the theorems. They are about
  `Spec`, with any bound on the steps, and do not need the renumbering of the run.

The last argument is the longest. Ids come round again, so an id under way does not say
by itself which request or transfer it belongs to. The invariant `CatchUpInv`
places every message by its *distance*: how often the client has started anew since
a request id was its own (`Since`), how many transfers the server has started since a
transfer id was its own (`Age`). Its parts are

- `ServerInv`: the server's request is not older than the client's transfer;
- `TransferInv`: the client's transfer is as old as its restarts, and is the
  server's own exactly when the server has taken up no request since;
- `UpInv`, `DownInv`: what one message on a link is (`Sent`, `Answered`) and what may
  follow it (`SentAfter`, `AnsweredAfter`), with its content (`AckOK`, `WishOK`,
  `ContentOK`, `SameState`, `StepsOK`);
- `GotInv`: what the client has is of one state, the server's if the transfer is.

Because the links keep the order, no message is older than the client's transfer, so
all distances are at most `restarts`. `IdsAssumption` keeps that below the number of
request ids and of transfer ids, and distance 0 is then equality of ids. There is one
lemma for each action, on lemmas about rings (`NextRequest`, `NextTransfer`) and sequences
(`Links`, `Joined`). The assumption is tight: TLC finds that with two restarts two
transfer ids violate `DownloadIsOneState`, and two request ids `ProgressIsKept`. In the code a request
id is one of 255 (`req_game_state.c:22-24`), and a transfer id is of the blob-stream
library's type, which holds at least 127 (`transport_connection.c:23`): a client would
have to start anew over a hundred times without one answer.

`ClientsAreNeverAhead` has a second layer, `AheadInv`: no state, on the server, under way
or at the client, is of a later game or beyond the next step of the game, and steps
under way are of the game if the client plays it, has a chunk of it, or gets such a
chunk before them. The order of the links is what makes the last part inductive: steps
of a game that ended can reach the client only before the chunks of the new one.

Only model-checked: the four liveness properties (`ComposingEnds`,
`SilentPartyIsDissolved`, `DatagramsAreRead`, `ClientCatchesUp`), which are out of the
prover's reach. Every invariant, action property and refinement that a passing run checks
is also proved, under the conditions named above.

## What the checks found

Five disagreements between the code and its own comments, assertions and messages are
recorded under `findings`, each with the run that exhibits it. In short: the weaving
loop's assertion fails whenever somebody leaves; rejoined participants never play
again; connections opened by datagrams stay on the free list, so connections in use are
handed out; a late rejoin is answered from an unassigned pointer; and a client that
downloads again after a new game at an earlier step gets the state of the game before.

Two smaller observations have no run: `authoritative_steps.c:137` counts one step too
many, and `connection_quality.c:36` describes the opposite of what the function
returns.

## Not modelled

- Octets and serialization, logging and statistics; the random secrets (a secret is
  the index of its place, which is all the code looks at); phases of connections, which
  nothing reads.
- The header of a step answer (`send_authoritative_steps.c:88-98`): the distance narrowed
  to eight bits and `highestReceivedStepId` are advice to the client, whose use is not in
  this repository.
- Host migration that fails half-way (`server.c:369`), on a game that already has
  participants, or at step 0, where `expectedWriteId - 1` wraps: the accounting of
  participants does not hold afterwards, and nothing says what should.
- `nimbleServerGameInit` over a game with participants: parties are reset with it, and
  its effect on sessions, downloads and the host watch is modelled.
- Connections opened anew during a download: the numbers and the transfer ids of the
  connection start over (`ServerUpdate` has the former), and what the client makes of
  that is not in this repository.
- `debugIsFrozen`, which nothing sets, and `nimbleServerGameStateCopy`, which nothing
  calls.
- `participant_connection.c`, `forced_step.c` and `check_for_disconnects.h`, which are
  not built.
