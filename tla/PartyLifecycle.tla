--------------------------- MODULE PartyLifecycle ---------------------------
(***************************************************************************)
(* What the server promises the client behind a party place: once in the   *)
(* game it is left alone for at least Patience ticks, then it may be put   *)
(* to wait for a rejoin, and only after limit ticks of waiting, no sooner  *)
(* and no later, is its place given to somebody else.  A rejoin at any     *)
(* time before that starts everything over.                                *)
(***************************************************************************)
EXTENDS Integers

CONSTANTS
    Patience,           \* ticks a party in the game is certain of
    Limits              \* the possible lengths of the wait, in ticks

VARIABLES
    status,             \* "free", "playing" or "waiting"
    age,                \* ticks since the status began, up to Patience + 1
    limit,              \* how long a wait lasts
    frame               \* flips with every tick, and only then

vars == <<status, age, limit, frame>>

Init == status = "free" /\ age = 0 /\ limit \in Limits /\ frame = 0

\* A client joins or rejoins; who holds no place gets a new one.
Play ==
    /\ status' = "playing" /\ age' = 0 /\ limit' \in Limits

\* The place is kept for a client that is expected to rejoin.
Reserve == status' = "waiting" /\ age' = 0 /\ limit' = limit

\* The place is given up from outside; the limit of a free place is of no
\* account.
Leave == status' = "free" /\ age' = 0 /\ limit' \in Limits

TickPlaying ==
    /\ status = "playing"
    /\ \/ status' = "playing" /\ age' = IF age <= Patience THEN age + 1 ELSE age
       \/ age + 1 > Patience /\ status' = "waiting" /\ age' = 0
    /\ limit' = limit

TickWaiting ==
    /\ status = "waiting"
    /\ IF age + 1 < limit
       THEN status' = "waiting" /\ age' = age + 1
       ELSE status' = "free" /\ age' = 0
    /\ limit' = limit

Next ==
    \/ (Play \/ Reserve \/ Leave) /\ frame' = frame
    \/ (TickPlaying \/ TickWaiting) /\ frame' = 1 - frame

Spec == Init /\ [][Next]_vars
=============================================================================
