------------------------------ MODULE FollowUp -------------------------------
(***************************************************************************)
(* What happens to an item once its execution has been decided on: loop    *)
(* control, next step, review trigger, live review invocation, the way     *)
(* back from a review to a repair prompt and a child, retries, and         *)
(* recovery of blocked items.                                              *)
(***************************************************************************)
EXTENDS RepairLoop

----------------------------------------------------------------------------
(* Loop control                                                             *)

(* _validate_lineage: the policy raises unless generations count up by one. *)
CountsUp(i) ==
    IF items[i].count = 0 THEN ~HasParent(i)
    ELSE HasParent(i) /\ items[i].count = items[Parent(i)].count + 1

LoopAction(i) ==
    IF items[i].count < MaxGeneration THEN "allow_reentry"
    ELSE IF items[i].count = MaxGeneration THEN "require_review"
    ELSE "block_reentry"

LoopTarget ==
    [allow_reentry  |-> "reentry_eligible",
     require_review |-> "review_required",
     block_reentry  |-> "blocked"]

ApplyLoopControl(i) ==
    /\ CountsUp(i)
    /\ LoopAction(i) = "block_reentry" => items[i].children = {}
    /\ MoveTo(i, LoopTarget[LoopAction(i)],
              [items[i] EXCEPT !.loopControl = Decided(i, LoopAction(i))])

----------------------------------------------------------------------------
(* Next step                                                                *)

NextStepKind ==
    [review_required |-> "review", reentry_eligible |-> "reentry"]

(* _build_spawned_work_item: a child that inherits its parent's evidence. *)
NextStepChild(i) ==
    [NewItem(items[i].risk) EXCEPT
        !.fromPrompt = items[i].prompt,
        !.lineage    = items[i].lineage,
        !.gating     = items[i].gating,
        !.exec       = items[i].exec,
        !.post       = items[i].post,
        !.gen        = items[i].gen + 1,
        !.nextStep   = Decided(i, "child")]

(* The target status is the one the post-execution decision names, so the   *)
(* call is refused once that decision itself has been applied.              *)
ApplyNextStep(i) ==
    \E p \in items[i].post :
        LET moved == [items[i] EXCEPT !.status = p.is,
                                      !.nextStep = Decided(i, p.is)]
        IN  /\ p.of = i
            /\ items[i].exec # {}
            /\ Legal(items[i].status, p.is)
            /\ IF p.is \in DOMAIN NextStepKind
               THEN /\ Child(i, NextStepKind[p.is]) \notin DOMAIN items
                    /\ Spawn(i, moved, NextStepKind[p.is], NextStepChild(i))
               ELSE Update(i, moved)

----------------------------------------------------------------------------
(* Review trigger                                                           *)

TriggerDecision(i) ==
    IF ~OwnedBy(items[i].post, i) \/ \E l \in items[i].loopControl : l.of # i
    THEN "blocked_no_trigger"
    ELSE IF Says(items[i].post, "complete") THEN "no_review_needed"
    ELSE IF \/ Says(items[i].post, "reentry_blocked")
            \/ Says(items[i].loopControl, "block_reentry")
    THEN "blocked_no_trigger"
    ELSE IF Says(items[i].post, "review_required") THEN "review_triggered"
    ELSE "blocked_no_trigger"

(* _make_review_child. *)
ReviewChild(i) ==
    [NewItem(items[i].risk) EXCEPT
        !.status      = "review_queued",
        !.gen         = items[i].gen,
        !.count       = items[i].count,
        !.exec        = items[i].exec,
        !.post        = items[i].post,
        !.loopControl = items[i].loopControl,
        !.trigger     = Decided(i, "review_triggered")]

(* Mutant: an item that has a trigger already is triggered again. *)
ApplyReviewTriggerAgain(i) ==
    LET d == TriggerDecision(i)
        decided == [items[i] EXCEPT !.trigger = Decided(i, d)]
    IN  /\ items[i].post # {} /\ items[i].exec # {}
        /\ \/ d = "no_review_needed" /\ items[i].status = "complete"
              /\ Update(i, decided)
           \/ d = "blocked_no_trigger"
              /\ items[i].status \in {"review_required", "reentry_blocked"}
              /\ MoveTo(i, "blocked", decided)
           \/ d = "review_triggered" /\ items[i].status = "review_required"
              /\ Spawn(i, [decided EXCEPT !.status = "review_triggered"],
                       "review", ReviewChild(i))

ApplyReviewTrigger(i) ==
    LET d == TriggerDecision(i)
        decided == [items[i] EXCEPT !.trigger = Decided(i, d)]
    IN  /\ items[i].post # {} /\ items[i].exec # {} /\ items[i].trigger = {}
        /\ \/ d = "no_review_needed" /\ items[i].status = "complete"
              /\ Update(i, decided)
           \/ d = "blocked_no_trigger"
              /\ items[i].status \in {"review_required", "reentry_blocked"}
              /\ MoveTo(i, "blocked", decided)
           \/ d = "review_triggered" /\ items[i].status = "review_required"
              /\ Child(i, "review") \notin DOMAIN items
              /\ Spawn(i, [decided EXCEPT !.status = "review_triggered"],
                       "review", ReviewChild(i))

----------------------------------------------------------------------------
(* Live review invocation                                                   *)

(* Mutant: an invocation result that is already linked is not looked at. *)
MayInvokeAgain(i) ==
    /\ items[i].status = "review_triggered"
    /\ OwnedBy(items[i].trigger, i)
    /\ OwnedBy(items[i].exec, i)

(* validate_review_invocation_entry. *)
MayInvoke(i) ==
    /\ items[i].status = "review_triggered"
    /\ OwnedBy(items[i].trigger, i)
    /\ OwnedBy(items[i].exec, i)
    /\ items[i].invocation = {}

(* An entry check that fails blocks the item, from whatever status it is    *)
(* in, when the allow-list permits it, and raises otherwise.                *)
RefuseInvocation(i) ==
    /\ ~MayInvoke(i)
    /\ MoveTo(i, "blocked", items[i])

(* The provider answered; what becomes of the answer is the outcome.        *)
(* "crashed": the process dies with the result artifact written and the     *)
(* queue state not; "persisted": it dies after the caller's persistence     *)
(* callback stored the linked, still invoking item.                         *)
StatusAfter ==
    [succeeded      |-> "review_invocation_succeeded",
     crashed        |-> "review_triggered",
     persisted      |-> "review_invoking",
     write_failed   |-> "blocked",
     persist_failed |-> "blocked"]

Linking == {"succeeded", "persisted", "persist_failed"}

InvokeAnswered(i) ==
    /\ MayInvoke(i)
    /\ items[i].answers < MaxAnswers
    /\ \E outcome \in Outcomes \cap DOMAIN StatusAfter :
           Update(i, [items[i] EXCEPT
               !.answers    = @ + 1,
               !.status     = StatusAfter[outcome],
               !.invocation = IF outcome \in Linking
                              THEN Decided(i, "success") ELSE @])

(* Neither provider gave a review: no artifact is written. *)
InvokeFailed(i) ==
    /\ MayInvoke(i)
    /\ "failed" \in Outcomes
    /\ Update(i, [items[i] EXCEPT !.status = "review_invocation_failed"])

----------------------------------------------------------------------------
(* From a review back to a repair prompt and a child                        *)

Handoff(i) ==
    /\ OwnedBy(items[i].invocation, i)
    /\ items[i].handoff = {}
    /\ items[i].status = "review_invocation_succeeded"
    /\ \E verdict \in {"PASS", "FAIL"} :
           MoveTo(i, "findings_parsed",
                  [items[i] EXCEPT !.findings = {verdict},
                                   !.handoff = Decided(i, "completed")])

ReenterFindings(i) ==
    /\ items[i].findings = {"FAIL"}
    /\ OwnedBy(items[i].handoff, i)
    /\ OwnedBy(items[i].invocation, i)
    /\ items[i].reentry = {}
    /\ items[i].prompt = {}
    /\ items[i].status = "findings_parsed"
    /\ MoveTo(i, "repair_prompt_generated",
              [items[i] EXCEPT !.prompt = {i},
                               !.reentry = Decided(i, "completed")])

(* A continuation that does not spawn is recorded too, and is final. *)
ContinueLoop(i) ==
    /\ OwnedBy(items[i].reentry, i)
    /\ items[i].prompt = {i}
    /\ items[i].continuation = {}
    /\ \A l \in items[i].loopControl : l.of = i
    /\ IF Says(items[i].loopControl, "allow_reentry") /\ ~AlreadySpawned(i, i)
       THEN /\ MaySpawnRepairChild(i)
            /\ Spawn(i, [items[i] EXCEPT
                           !.status = "repair_child_created",
                           !.continuation = Decided(i, "child_spawned")],
                     "repair", RepairChild(items[i], i))
       ELSE Update(i, [items[i] EXCEPT
                         !.continuation = Decided(i, "continuation_blocked")])

----------------------------------------------------------------------------
(* Retry                                                                    *)

RetryTarget ==
    [executed_failure         |-> "runnable",
     review_provider_failed   |-> "review_triggered",
     review_invocation_failed |-> "review_triggered"]

(* A transition decision can vouch for a retry only if its source reference *)
(* is the item's execution result; the command line supplies none.          *)
RetryDecision(i, reason, vouched) ==
    IF items[i].status \notin DOMAIN RetryTarget \/ reason # "retryable"
    THEN "retry_blocked"
    ELSE IF items[i].retries >= RetryBudget THEN "retry_exhausted"
    ELSE IF ~vouched \/ items[i].exec = {} THEN "retry_blocked"
    ELSE "retry_allowed"

(* Mutant: an earlier retry decision does not stand in the way. *)
ApplyRetryAgain(i) ==
    \E reason \in RetryRequests, vouched \in BOOLEAN :
        LET d == RetryDecision(i, reason, vouched)
        IN  /\ items[i].status # "blocked"
            /\ Update(i, [items[i] EXCEPT
                   !.retry   = Decided(i, d),
                   !.status  = IF d = "retry_allowed" THEN RetryTarget[@] ELSE @,
                   !.retries = IF d = "retry_allowed" THEN @ + 1 ELSE @])

ApplyRetry(i) ==
    \E reason \in RetryRequests, vouched \in BOOLEAN :
        LET d == RetryDecision(i, reason, vouched)
        IN  /\ items[i].retry = {}
            /\ items[i].status # "blocked"
            /\ Update(i, [items[i] EXCEPT
                   !.retry   = Decided(i, d),
                   !.status  = IF d = "retry_allowed" THEN RetryTarget[@] ELSE @,
                   !.retries = IF d = "retry_allowed" THEN @ + 1 ELSE @])

----------------------------------------------------------------------------
(* Recovery of blocked items                                                *)

(* Mutant: an item can be recovered as often as it blocks. *)
RecoverAgain(i) ==
    /\ items[i].status = "blocked"
    /\ \E prior \in PriorStates \cup {"blocked"} :
           Update(i, [items[i] EXCEPT
               !.status   = prior,
               !.recovery = Decided(i, IF prior = "blocked" THEN "no_action"
                                       ELSE "return_to_prior_state")])

(* Mutant: the recovery action is stored where its prior state belongs. *)
RecoverToAction(i) ==
    /\ items[i].status = "blocked"
    /\ items[i].recovery = {}
    /\ \E action \in {"no_action", "return_to_prior_state"} :
           Update(i, [items[i] EXCEPT !.status = action,
                                      !.recovery = Decided(i, action)])

(* The operator names the reason and the prior state; neither is compared   *)
(* with how the item came to be blocked.  A reason that is not recoverable  *)
(* leaves the item blocked, and the decision recorded.                      *)
Recover(i) ==
    /\ items[i].status = "blocked"
    /\ items[i].recovery = {}
    /\ \E prior \in PriorStates \cup {"blocked"} :
           Update(i, [items[i] EXCEPT
               !.status   = prior,
               !.recovery = Decided(i, IF prior = "blocked" THEN "no_action"
                                       ELSE "return_to_prior_state")])
==============================================================================
