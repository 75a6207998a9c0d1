----------------------------- MODULE RepairLoop ------------------------------
(***************************************************************************)
(* From a queued work item to the decision about its execution: review     *)
(* with provider fallback, findings, repair prompt, repair child,          *)
(* execution gating, controlled execution and the post-execution decision. *)
(* One action is one call: the policy that decides, and the queue          *)
(* integration that applies the decision at once.                          *)
(***************************************************************************)
EXTENDS WorkItems

----------------------------------------------------------------------------
(* Review, findings and repair prompt                                       *)

(* run_review_with_fallback: codex, then claude when codex fails for one of *)
(* the fallback reasons.  The statuses in between are never stored.         *)
Review(i) ==
    /\ Legal(items[i].status, "review_queued")
    /\ \E outcome \in {"review_complete", "blocked"} :
           Update(i, [items[i] EXCEPT !.status = outcome])

AttachFindings(i) ==
    \E verdict \in {"PASS", "FAIL"} :
        Update(i, [items[i] EXCEPT
            !.findings = {verdict},
            !.status = IF @ = "review_complete" THEN "findings_parsed" ELSE @])

(* generate_repair_prompt_artifact refuses findings that are not FAIL. *)
AttachRepairPrompt(i) ==
    /\ items[i].findings = {"FAIL"}
    /\ Update(i, [items[i] EXCEPT
           !.prompt = {i},
           !.status = IF @ = "findings_parsed" THEN "repair_prompt_generated"
                      ELSE @])

----------------------------------------------------------------------------
(* Repair children                                                          *)

(* _detect_duplicate_spawn: one child per parent and repair prompt. *)
AlreadySpawned(i, source) ==
    \E j \in DOMAIN items :
        HasParent(j) /\ Parent(j) = i /\ items[j].fromPrompt = {source}

RepairChild(parent, source) ==
    [NewItem(parent.risk) EXCEPT
        !.fromPrompt = {source},
        !.lineage    = TRUE,
        !.gen        = parent.gen + 1,
        !.count      = parent.count + 1]

(* What spawn_repair_child_in_queue and build_repair_child_work_item check. *)
MaySpawnRepairChild(i) ==
    /\ ~AlreadySpawned(i, i)
    /\ items[i].status = "repair_prompt_generated"
    /\ Child(i, "repair") \notin items[i].children

SpawnRepairChild(i) ==
    /\ MaySpawnRepairChild(i)
    /\ Spawn(i, [items[i] EXCEPT !.status = "repair_child_created"], "repair",
             RepairChild(items[i], i))

----------------------------------------------------------------------------
(* Execution gating                                                         *)

(* Mutant: a missing approval is not asked for. *)
GatingDecisionNoApproval(i, approval) ==
    IF \/ items[i].status # "repair_child_created"
       \/ ~HasParent(i)
       \/ ~items[i].lineage
       \/ items[i].fromPrompt # {Parent(i)}
       \/ items[i].gen > MaxGeneration
    THEN "blocked"
    ELSE "runnable"

GatingDecision(i, approval) ==
    IF \/ items[i].status # "repair_child_created"
       \/ ~HasParent(i)
       \/ ~items[i].lineage
       \/ items[i].fromPrompt # {Parent(i)}
       \/ items[i].gen > MaxGeneration
    THEN "blocked"
    ELSE IF items[i].risk = "high" /\ ~approval
    THEN "approval_required"
    ELSE "runnable"

(* Both statuses the decision is applied from reach it through              *)
(* execution_gated, from which every decision is legal; the command line    *)
(* hands the policy the repair prompt the item was spawned from.            *)
ApplyGating(i) ==
    /\ items[i].fromPrompt # {}
    /\ items[i].status \in {"repair_child_created", "execution_gated"}
    /\ \E approval \in BOOLEAN :
           Update(i, [items[i] EXCEPT
               !.status = GatingDecision(i, approval),
               !.gating = {[of |-> i, is |-> GatingDecision(i, approval),
                            approved |-> approval]}])

----------------------------------------------------------------------------
(* Controlled execution                                                     *)

(* Mutant: entry looks at the status only, not at an earlier result. *)
EnterExecutionAgain(i) ==
    MoveTo(i, "executing", [items[i] EXCEPT !.runs = @ + 1])

(* transition_to_executing; the gating decision is not consulted again. *)
EnterExecution(i) ==
    /\ items[i].exec = {}
    /\ MoveTo(i, "executing", [items[i] EXCEPT !.runs = @ + 1])

(* run_simulated_execution takes the item's own repair prompt before the    *)
(* one it was spawned from.                                                 *)
ExecutedPrompt(item) ==
    IF item.prompt # {} THEN item.prompt ELSE item.fromPrompt

(* finalize_execution: the caller reports how the execution ended. *)
FinalizeExecution(i) ==
    /\ items[i].exec = {}
    /\ \E status \in {"success", "failure"} :
           MoveTo(i, IF status = "success" THEN "executed_success"
                     ELSE "executed_failure",
                  [items[i] EXCEPT
                     !.exec = {[of |-> i, is |-> status,
                                prompt |-> ExecutedPrompt(items[i])]}])

----------------------------------------------------------------------------
(* Post-execution decision                                                  *)

LineageHolds(i) ==
    /\ OwnedBy(items[i].exec, i)
    /\ OwnedBy(items[i].gating, i)
    /\ \A e \in items[i].exec : e.prompt = items[i].prompt
    /\ items[i].fromPrompt = items[i].prompt

(* Mutant: an item at the limit goes round once more. *)
PostExecutionDecisionLate(i) ==
    IF ~LineageHolds(i) THEN "reentry_blocked"
    ELSE IF Says(items[i].exec, "success") THEN "complete"
    ELSE IF items[i].gen > MaxGeneration THEN "reentry_blocked"
    ELSE "review_required"

PostExecutionDecision(i) ==
    IF ~LineageHolds(i) THEN "reentry_blocked"
    ELSE IF Says(items[i].exec, "success") THEN "complete"
    ELSE IF items[i].gen >= MaxGeneration THEN "reentry_blocked"
    ELSE "review_required"

(* Mutant: the status moves on without the decision being linked. *)
ApplyPostExecutionUnlinked(i) ==
    /\ items[i].status \in {"executed_success", "executed_failure"}
    /\ items[i].gating # {}
    /\ MoveTo(i, PostExecutionDecision(i), items[i])

(* An item never gated has no gating path for the decision to agree with. *)
ApplyPostExecution(i) ==
    /\ items[i].status \in {"executed_success", "executed_failure"}
    /\ items[i].gating # {}
    /\ LET d == PostExecutionDecision(i)
       IN  MoveTo(i, d, [items[i] EXCEPT !.post = Decided(i, d)])
==============================================================================
