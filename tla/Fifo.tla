-------------------------------- MODULE Fifo --------------------------------
(***************************************************************************)
(* What NimbleServerCircularBuffer promises its users: a first-in          *)
(* first-out queue of at most Size octets.  The two uses the code only     *)
(* logs are part of the promise, since the code carries on after them:     *)
(* writing to a full queue leaves only the written octet in it, and        *)
(* reading an empty queue returns some octet and leaves Size - 1 stale     *)
(* octets behind.                                                          *)
(***************************************************************************)
EXTENDS Naturals, Sequences

CONSTANTS
    Size,    \* NIMBLE_SERVER_CIRCULAR_BUFFER_SIZE
    Octets   \* the values stored

VARIABLES
    queue,   \* the stored octets, oldest first
    result   \* what the latest read returned

vars == <<queue, result>>

\* result starts anywhere: no read has happened yet.
Init == queue = << >> /\ result \in Octets

Write(d) ==
    /\ queue' = IF Len(queue) < Size THEN Append(queue, d) ELSE <<d>>
    /\ UNCHANGED result

Read ==
    \/ /\ queue # << >>
       /\ result' = Head(queue)
       /\ queue' = Tail(queue)
    \/ /\ queue = << >>
       /\ result' \in Octets
       /\ queue' \in [1..(Size - 1) -> Octets]

Next == Read \/ \E d \in Octets : Write(d)

Spec == Init /\ [][Next]_vars
=============================================================================
