--------------------------- MODULE SequentialQueue ---------------------------
(***************************************************************************)
(* What the prompt-queue execution loop promises, with no files, processes *)
(* or decision artifacts in sight: a queue of TotalSteps steps is settled  *)
(* one step at a time, in order; a settled step is never reopened; the     *)
(* first step that blocks stops the queue for good.                        *)
(***************************************************************************)
EXTENDS Naturals

CONSTANT TotalSteps     \* at least one

VARIABLES
    settled,    \* number of steps the queue has a result for
    outcome     \* "open", "completed" or "blocked"

vars == <<settled, outcome>>

Init == settled = 0 /\ outcome = "open"

Settle(blocks) ==
    /\ outcome = "open"
    /\ settled' = settled + 1
    /\ outcome' = IF blocks THEN "blocked"
                  ELSE IF settled + 1 = TotalSteps THEN "completed" ELSE "open"

Next == \E blocks \in BOOLEAN : Settle(blocks)

Spec == Init /\ [][Next]_vars
==============================================================================
