------------------------------ MODULE WorkItems ------------------------------
(***************************************************************************)
(* The work items of a prompt queue: their statuses, the allow-list of     *)
(* status transitions, and the links from an item to its decision          *)
(* artifacts.                                                              *)
(*                                                                         *)
(* A work item is named by its path from the root: the code builds child   *)
(* ids by appending ".repair.<n>", ".review.1" or ".reentry.1" to the      *)
(* parent's id, and <n> is fixed by the parent's generation.  A nullable   *)
(* artifact path is {} (null) or {a}, a naming the item the artifact was   *)
(* made for and the decision it records; prompts and findings hold all     *)
(* that the code tells apart in them.                                      *)
(***************************************************************************)
EXTENDS Integers, Sequences, FiniteSets

CONSTANTS
    Seeds,          \* the queues a history may start from
    MaxGeneration,  \* max_generation_allowed of the three policies
    RetryBudget,    \* retry_budget of a new work item
    PriorStates,    \* prior states a recovery request may name
    RetryRequests,  \* failure reasons retry requests are made with
    Outcomes,       \* how live review invocations may end
    MaxDepth,       \* bound: length of a chain of children
    MaxAnswers      \* bound: provider answers obtained for one item

ASSUME QueueConstants ==
    /\ MaxGeneration \in Nat
    /\ RetryBudget \in Nat
    /\ PriorStates \subseteq {"queued", "review_queued", "review_triggered",
                              "execution_gated", "approval_required", "runnable"}
    /\ RetryRequests \subseteq {"retryable", "not_retryable"}
    /\ MaxDepth \in Nat
    /\ MaxAnswers \in Nat

VARIABLE items      \* items[i]: the work item named i; DOMAIN items is the queue

----------------------------------------------------------------------------
(* Statuses                                                                 *)

(* _ALLOWED_TRANSITIONS of the queue state machine. *)
AllowedTransitions ==
    [queued                      |-> {"review_queued", "blocked"},
     review_queued               |-> {"review_running", "blocked"},
     review_running              |-> {"review_complete", "review_provider_failed",
                                      "blocked"},
     review_provider_failed      |-> {"review_fallback_running", "blocked"},
     review_fallback_running     |-> {"review_complete", "blocked"},
     review_complete             |-> {"findings_parsed"},
     findings_parsed             |-> {"repair_prompt_generated"},
     repair_prompt_generated     |-> {"repair_child_created"},
     repair_child_created        |-> {"execution_gated", "blocked"},
     execution_gated             |-> {"runnable", "approval_required", "blocked"},
     approval_required           |-> {"runnable", "blocked"},
     runnable                    |-> {"executing"},
     executing                   |-> {"executed_success", "executed_failure"},
     executed_success            |-> {"complete"},
     executed_failure            |-> {"review_required", "reentry_blocked",
                                      "reentry_eligible", "blocked"},
     review_required             |-> {"review_triggered", "blocked"},
     reentry_blocked             |-> {"blocked"},
     review_triggered            |-> {"review_invoking", "blocked"},
     review_invoking             |-> {"review_invocation_succeeded",
                                      "review_invocation_failed", "blocked"},
     review_invocation_succeeded |-> {"findings_parsed", "blocked"},
     review_invocation_failed    |-> {},
     reentry_eligible            |-> {},
     complete                    |-> {},
     blocked                     |-> {}]

Status == DOMAIN AllowedTransitions

(* transition_work_item: anything outside the allow-list raises. *)
Legal(from, to) == to \in AllowedTransitions[from]

----------------------------------------------------------------------------
(* Work items                                                               *)

Kind == {"repair", "review", "reentry"}
Ids == Seq(Kind)

Root == <<>>
HasParent(i) == i # Root
Parent(i) == SubSeq(i, 1, Len(i) - 1)
Child(i, kind) == Append(i, kind)

NewItem(risk) ==
    [status       |-> "queued",
     gen          |-> 0,        \* repair_loop_generation
     count        |-> 0,        \* generation_count
     risk         |-> risk,
     children     |-> {},
     lineage      |-> FALSE,    \* both spawned_from_findings and _review set?
     fromPrompt   |-> {},       \* item whose repair prompt it was spawned from
     findings     |-> {},       \* review decision of the attached findings
     prompt       |-> {},       \* item whose repair prompt is attached
     gating       |-> {},
     exec         |-> {},
     post         |-> {},
     loopControl  |-> {},
     nextStep     |-> {},
     trigger      |-> {},
     invocation   |-> {},
     handoff      |-> {},
     reentry      |-> {},
     continuation |-> {},
     retry        |-> {},
     recovery     |-> {},
     retries      |-> 0,        \* retry_count
     runs         |-> 0,        \* history: times it entered executing
     answers      |-> 0]        \* history: reviews a live provider returned

Decided(i, d) == {[of |-> i, is |-> d]}
Says(path, d) == \E a \in path : a.is = d
OwnedBy(path, i) == \E a \in path : a.of = i

Update(i, item) == items' = [items EXCEPT ![i] = item]

(* The item moves to a status the allow-list permits, or the call raises. *)
MoveTo(i, to, item) ==
    /\ Legal(items[i].status, to)
    /\ Update(i, [item EXCEPT !.status = to])

(* Mutant: the parent does not learn of its child. *)
SpawnUnlinked(i, parent, kind, child) ==
    /\ Len(i) < MaxDepth
    /\ items' = [j \in DOMAIN items \cup {Child(i, kind)} |->
                    IF j = Child(i, kind) THEN child
                    ELSE IF j = i THEN parent ELSE items[j]]

(* The child joins the queue and the parent's child_work_item_ids. *)
Spawn(i, parent, kind, child) ==
    /\ Len(i) < MaxDepth
    /\ items' = [j \in DOMAIN items \cup {Child(i, kind)} |->
                    IF j = Child(i, kind) THEN child
                    ELSE IF j = i
                    THEN [parent EXCEPT !.children = @ \cup {Child(i, kind)}]
                    ELSE items[j]]
==============================================================================
