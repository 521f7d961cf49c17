------------------------------ MODULE MCCatchUp ------------------------------
(***************************************************************************)
(* Small instances of CatchUp for TLC, and one whose game never ends.      *)
(***************************************************************************)
EXTENDS CatchUp

\* The number of a step after all steps are numbered one lower.  The number 0
\* is that of all steps that are gone for longer.
Renumbered(s) == IF s > 0 THEN s - 1 ELSE 0

RenumberedUp(m) ==
    IF m.type = "step"
    THEN [m EXCEPT !.waiting = Renumbered(@), !.missing = {Renumbered(s) : s \in @}]
    ELSE m

RenumberedDown(m) ==
    CASE m.type = "start" -> [m EXCEPT !.stepId = Renumbered(@)]
      [] m.type = "chunk" -> [m EXCEPT !.state.stepId = Renumbered(@)]
      [] m.type = "steps" -> [m EXCEPT !.steps = {Renumbered(s) : s \in @ \ {0}}]

\* OthersPlay at the bound of the steps, in the last game: the other clients
\* make step MaxStep as well, and all steps are numbered one lower.
OthersPlayOn ==
    /\ game = MaxGame /\ writeId = MaxStep
    /\ MaxStep + 1 \in ComposedWriteIds(DiscardedReadId(readId, writeId), writeId, MaxStep + 1)
    /\ DiscardedReadId(readId, writeId) > 1
    /\ readId' = DiscardedReadId(readId, writeId) - 1
    /\ gameState' = [gameState EXCEPT !.stepId = Renumbered(@)]
    /\ blobStreamLogicOut' = [blobStreamLogicOut EXCEPT !.state.stepId = Renumbered(@)]
    /\ toServer' = [i \in DOMAIN toServer |-> RenumberedUp(toServer[i])]
    /\ toClient' = [i \in DOMAIN toClient |-> RenumberedDown(toClient[i])]
    /\ transfer' = [transfer EXCEPT !.stepId = Renumbered(@)]
    /\ got' = [c \in DOMAIN got |-> [got[c] EXCEPT !.stepId = Renumbered(@)]]
    /\ playing' = IF IsDownloading THEN playing
                  ELSE [playing EXCEPT !.waiting = Renumbered(@),
                                       !.missing = {Renumbered(s) : s \in @}]
    /\ UNCHANGED <<blobStreamOutClientRequestId, nextBlobStreamOutChannel, game, writeId,
                   inParty, request, restarts>>

UnendingSpec == Init /\ [][Next \/ OthersPlayOn]_vars /\ Fairness
=============================================================================
