------------------------------ MODULE HostWatch ------------------------------
(***************************************************************************)
(* What a host is promised about being stopped for updating the server too *)
(* slowly.  It is stopped by more than TickLimit late updates in a row, or *)
(* when more than AverageLimit updates in a row were made under a slow     *)
(* average; and by nothing else, so that a single stall, however long, is  *)
(* forgiven.  An average is taken over Batch updates and holds until the   *)
(* next is taken.                                                          *)
(***************************************************************************)
EXTENDS Integers

CONSTANTS TickLimit, AverageLimit, Batch

VARIABLES
    status,     \* "working" or "stopped"
    late,       \* late updates in a row
    slow,       \* slow averages in a row
    since       \* updates since the last average was taken

vars == <<status, late, slow, since>>

Fresh(s, l, a, u) == s = "working" /\ l = 0 /\ a = 0 /\ u = 0

Init == Fresh(status, late, slow, since)

\* The updates made under the present run of slow averages
UpdatesUnderSlow(a, u) == IF a = 0 THEN 0 ELSE (a - 1) * Batch + u + 1

Update ==
    /\ status = "working"
    /\ late' \in {0, late + 1}
    /\ \/ since + 1 < Batch /\ since' = since + 1 /\ slow' = slow
       \/ since + 1 = Batch /\ since' = 0 /\ slow' \in {0, slow + 1}
    /\ status' = IF late' > TickLimit \/ UpdatesUnderSlow(slow', since') > AverageLimit
                 THEN "stopped" ELSE "working"

\* A new game starts the watch over.
Restart == Fresh(status', late', slow', since')

Next == Update \/ Restart

Spec == Init /\ [][Next]_vars
=============================================================================
