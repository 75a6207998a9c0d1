----------------------------- MODULE PromptQueue -----------------------------
(***************************************************************************)
(* The governed prompt queue: every call that changes a work item, in any  *)
(* order an operator or a script may make them, and what must hold of the  *)
(* queue whatever that order is.                                           *)
(***************************************************************************)
EXTENDS FollowUp

Init == items \in Seeds

Next ==
    \E i \in DOMAIN items :
        \/ Review(i)
        \/ AttachFindings(i)
        \/ AttachRepairPrompt(i)
        \/ SpawnRepairChild(i)
        \/ ApplyGating(i)
        \/ EnterExecution(i)
        \/ FinalizeExecution(i)
        \/ ApplyPostExecution(i)
        \/ ApplyLoopControl(i)
        \/ ApplyNextStep(i)
        \/ ApplyReviewTrigger(i)
        \/ RefuseInvocation(i)
        \/ InvokeAnswered(i)
        \/ InvokeFailed(i)
        \/ Handoff(i)
        \/ ReenterFindings(i)
        \/ ContinueLoop(i)
        \/ ApplyRetry(i)
        \/ Recover(i)

Spec == Init /\ [][Next]_items

----------------------------------------------------------------------------
(* Types                                                                    *)

Decision ==
    {"runnable", "approval_required", "blocked", "success", "failure",
     "complete", "review_required", "reentry_blocked", "reentry_eligible",
     "allow_reentry", "require_review", "block_reentry", "child",
     "review_triggered", "no_review_needed", "blocked_no_trigger", "completed",
     "child_spawned", "continuation_blocked", "retry_allowed", "retry_blocked",
     "retry_exhausted", "no_action", "return_to_prior_state"}

Artifact == [of : Ids, is : Decision]

WorkItem ==
    [status : Status, gen : Nat, count : Nat, risk : {"low", "high"},
     children : SUBSET Ids, lineage : BOOLEAN, fromPrompt : SUBSET Ids,
     findings : SUBSET {"PASS", "FAIL"}, prompt : SUBSET Ids,
     gating : SUBSET [of : Ids, is : Decision, approved : BOOLEAN],
     exec : SUBSET [of : Ids, is : Decision, prompt : SUBSET Ids],
     post : SUBSET Artifact, loopControl : SUBSET Artifact,
     nextStep : SUBSET Artifact, trigger : SUBSET Artifact,
     invocation : SUBSET Artifact, handoff : SUBSET Artifact,
     reentry : SUBSET Artifact, continuation : SUBSET Artifact,
     retry : SUBSET Artifact, recovery : SUBSET Artifact,
     retries : Nat, runs : Nat, answers : Nat]

IsQueue(q) ==
    /\ q = [i \in DOMAIN q |-> q[i]]
    /\ DOMAIN q \subseteq Ids
    /\ \A i \in DOMAIN q : q[i] \in WorkItem

(* The queue is a set of named, well-formed prompt_queue_work_item records. *)
TypeOK == IsQueue(items)

----------------------------------------------------------------------------
(* Properties                                                               *)

RunsAccountedFor(q) ==
    \A i \in DOMAIN q :
        q[i].runs = IF q[i].status = "executing" \/ OwnedBy(q[i].exec, i)
                    THEN 1 ELSE 0

(* An item is executed at most once, and exactly the items that are being   *)
(* executed or own an execution result have been: retries, recoveries,      *)
(* next-step and review children that inherit a result never lead to a      *)
(* second execution (transition_to_executing, finalize_execution).          *)
ExecutedOnce == RunsAccountedFor(items)

(* Execution results are results of items in the queue, so a new item owns  *)
(* none, whatever it inherits.                                              *)
ResultsKnown(q) ==
    \A i \in DOMAIN q : \A e \in q[i].exec : e.of \in DOMAIN q

ASSUME SeedsWellFormed ==
    \A q \in Seeds : IsQueue(q) /\ RunsAccountedFor(q) /\ ResultsKnown(q)

Recovered(w) == Says(w.recovery, "return_to_prior_state")

LetThrough(w, i) ==
    /\ w.gen <= MaxGeneration
    /\ \E g \in w.gating :
           g.of = i /\ g.is = "runnable" /\ (w.risk = "high" => g.approved)

(* Whatever enters execution has a gating decision of its own that lets it  *)
(* through, within the generation limit and approved if its risk is high,   *)
(* or was unblocked by a recovery decision: there is no third way to        *)
(* executing (evaluate_execution_gating_policy,                             *)
(* apply_execution_gating_decision_to_queue, transition_to_executing).      *)
ExecutionAuthorized ==
    [][\A i \in DOMAIN items :
          items'[i].runs > items[i].runs =>
              Recovered(items[i]) \/ LetThrough(items[i], i)]_items

LinkedUp(q) ==
    \A i \in DOMAIN q :
        /\ HasParent(i) => Parent(i) \in DOMAIN q
        /\ q[i].children = {j \in DOMAIN q : HasParent(j) /\ Parent(j) = i}

(* Each parent's child_work_item_ids are exactly its children in the queue, *)
(* and every parent a child names is in the queue: the two records of one   *)
(* spawn never come apart (spawn_repair_child_in_queue and the two other    *)
(* spawning integrations).                                                  *)
ChildrenLinked == LinkedUp(items)

CountedUp(q) ==
    \A i \in DOMAIN q :
        HasParent(i) /\ i[Len(i)] = "repair" =>
            /\ q[i].count = q[Parent(i)].count + 1
            /\ q[i].gen = q[Parent(i)].gen + 1

(* Repair children count generations up from their parent, which is what    *)
(* the loop-control policy relies on (_derive_generation_count).  Proved;   *)
(* LimitsAgree is what a run asks.                                          *)
RepairChildrenCountUp == CountedUp(items)

(* Two counters bound the loop: gating and the post-execution decision read *)
(* repair_loop_generation, loop control reads generation_count, and next-   *)
(* step children restart the second one.  Still the limits agree: what      *)
(* gating lets run, loop control does not stop, and where the post-         *)
(* execution decision asks for one more round, loop control allows it       *)
(* (evaluate_execution_gating_policy, evaluate_post_execution_policy,       *)
(* evaluate_loop_control_policy).                                           *)
LimitsAgree ==
    \A i \in DOMAIN items :
        /\ (\E approval \in BOOLEAN : GatingDecision(i, approval) = "runnable") =>
               LoopAction(i) # "block_reentry"
        /\ PostExecutionDecision(i) = "review_required" =>
               LoopAction(i) = "allow_reentry"

Evident(w, i) ==
    /\ w.status \in {"executed_success", "executed_failure"} => OwnedBy(w.exec, i)
    /\ w.status = "complete" => Says(w.exec, "success") /\ Says(w.post, "complete")
    /\ w.status = "review_required" =>
           \/ Says(w.post, "review_required")
           \/ Says(w.loopControl, "require_review")
    /\ w.status = "review_invocation_succeeded" =>
           OwnedBy(w.invocation, i) /\ OwnedBy(w.trigger, i)
    /\ w.handoff # {} => w.invocation # {}
    /\ w.status = "review_triggered" =>
           Recovered(w) \/ OwnedBy(w.trigger, i)

(* A status is only ever reported with the decision that justifies it:      *)
(* complete with a post-execution success, review_triggered with a trigger  *)
(* of its own unless recovered, and so on (the apply_*_to_queue functions). *)
StatusHasEvidence == \A i \in DOMAIN items : Evident(items[i], i)

(* What the evidence rests on: decisions are of the kinds the policies      *)
(* make, a review that failed had been triggered, what may be executed was  *)
(* let through, and loop control counts no more rounds than there were.     *)
Backed(w, i) ==
    /\ Evident(w, i)
    /\ w.count <= w.gen
    /\ \A p \in w.post : p.is \in {"complete", "review_required",
                                   "reentry_blocked", "reentry_eligible"}
    /\ Says(w.post, "complete") => Says(w.exec, "success")
    /\ w.status \in {"review_invocation_failed", "review_provider_failed"} =>
           Recovered(w) \/ OwnedBy(w.trigger, i)
    /\ w.status = "runnable" /\ w.exec = {} => Recovered(w) \/ LetThrough(w, i)

(* A loop-control decision lets only an item below the limit re-enter, and  *)
(* only such an item is continued with a child.                             *)
Limited(w, i) ==
    /\ \A l \in w.loopControl :
           l.of = i /\ l.is = "allow_reentry" => w.count < MaxGeneration
    /\ Says(w.continuation, "child_spawned") => w.count < MaxGeneration

ASSUME SeedsConsistent ==
    \A q \in Seeds :
        /\ LinkedUp(q) /\ CountedUp(q)
        /\ \A i \in DOMAIN q : Backed(q[i], i) /\ Limited(q[i], i)

FinalLinks == {"exec", "trigger", "invocation", "handoff", "reentry",
               "continuation", "retry", "recovery"}

(* Nothing is decided twice: once an item links an execution result, a      *)
(* trigger, an invocation result, a handoff, a reentry, a continuation, a   *)
(* retry or a recovery decision, no call ever replaces or removes that link *)
(* (the duplicate guards of the queue integrations).                        *)
LinksAreFinal ==
    [][\A i \in DOMAIN items : \A link \in FinalLinks :
          items[i][link] # {} =>
              i \in DOMAIN items' /\ items'[i][link] = items[i][link]]_items

(* Once a provider's answer is linked, the provider is not asked again for  *)
(* that item, also when the item is blocked and recovered in between        *)
(* (validate_review_invocation_entry).                                      *)
AnswerIsFinal ==
    [][\A i \in DOMAIN items :
          items[i].invocation # {} =>
              items'[i].answers = items[i].answers]_items

(* How many times an item may still change its status.  Only three things   *)
(* take it back up the list: being executed, a retry, and a recovery from a *)
(* block; each of them writes a link that is written once.                  *)
StatusRank ==
    [blocked |-> 0, complete |-> 0, reentry_eligible |-> 0,
     reentry_blocked |-> 1, review_invocation_failed |-> 1,
     review_provider_failed |-> 1, executing |-> 1, runnable |-> 2,
     approval_required |-> 3, execution_gated |-> 4, repair_child_created |-> 5,
     repair_prompt_generated |-> 6, findings_parsed |-> 7, review_complete |-> 8,
     review_invocation_succeeded |-> 8, review_invoking |-> 9,
     review_triggered |-> 10, review_required |-> 11, executed_success |-> 12,
     executed_failure |-> 12, queued |-> 13, review_queued |-> 13,
     review_running |-> 13, review_fallback_running |-> 13]

Unspent(link) == IF link = {} THEN 14 ELSE 0

MovesLeft(w) ==
    StatusRank[w.status] + Unspent(w.exec) + Unspent(w.retry) + Unspent(w.recovery)

(* No order of the calls sends an item round for ever: whichever call is    *)
(* made, no item gets moves back, and one whose status changes has fewer of *)
(* them (the allow-list together with the duplicate guards of               *)
(* finalize_execution and of the retry and recovery integrations).          *)
NoWayRound ==
    [][\A i \in DOMAIN items :
          /\ MovesLeft(items'[i]) <= MovesLeft(items[i])
          /\ items'[i].status # items[i].status =>
                 MovesLeft(items'[i]) < MovesLeft(items[i])]_items

(* However often the calls are made, a queue with a bounded chain of        *)
(* children comes to rest: there is no cycle of retries, recoveries,        *)
(* reviews and executions an item can be sent round for ever.               *)
statuses == [i \in DOMAIN items |-> items[i].status]
ComesToRest == <>[][FALSE]_statuses

----------------------------------------------------------------------------
(* What the reports on the queue say of it, and the calls do not keep       *)

(* "No infinite loops: generation budget is enforced; limit_exceeded        *)
(* hard-blocks re-entry": no repair child of an item beyond the limit.      *)
NoChildBeyondLimit ==
    \A i \in DOMAIN items : items[i].count <= MaxGeneration + 1

(* "success -> complete": an executed_success item, gated before, is one    *)
(* the post-execution policy finds complete.                                *)
SuccessIsComplete ==
    \A i \in DOMAIN items :
        items[i].status = "executed_success" /\ items[i].gating # {} =>
            PostExecutionDecision(i) = "complete"
==============================================================================
