------------------------------ MODULE StepLog ------------------------------
(***************************************************************************)
(* What the authoritative steps of a game promise the clients that follow  *)
(* it: steps are added at one end in the order of their ids, the newest    *)
(* Keep of them are never taken away, and there are never more than Hold   *)
(* when one is added.  A client that is at most Keep steps behind finds    *)
(* the step it waits for, until the host starts another game.              *)
(***************************************************************************)
EXTENDS Integers

CONSTANTS
    Keep,           \* steps that stay, whatever is discarded
    Hold            \* steps that are there at most when one is added

VARIABLES
    game,           \* tells one game from the next
    first,          \* the oldest step that is there
    next            \* the step to come

vars == <<game, first, next>>

Init == first \in Nat /\ next = first

Discard == first < first' /\ first' <= next - Keep
Add == next < next' /\ next' - first' <= Hold

Advance ==
    /\ Discard \/ first' = first
    /\ Add \/ next' = next
    /\ game' = game

NewGame == game' # game /\ first' \in Nat /\ next' = first'

Next == Advance \/ NewGame

Spec == Init /\ [][Next]_vars
=============================================================================
