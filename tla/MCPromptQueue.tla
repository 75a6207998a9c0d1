--------------------------- MODULE MCPromptQueue -----------------------------
(***************************************************************************)
(* Queues the model-checked histories of PromptQueue start from.           *)
(***************************************************************************)
EXTENDS PromptQueue

(* What make_work_item and make_queue_state build: one queued root item. *)
NewQueue(risk) == [i \in {Root} |-> NewItem(risk)]
NewQueues == {NewQueue("low")}
NewQueuesAnyRisk == {NewQueue("low"), NewQueue("high")}

(* The queues the repository's tests hand to the later stages: a repair     *)
(* child whose attached prompt is the one it was spawned from               *)
(* (tests/test_prompt_queue_execution_gating.py, _post_execution.py).       *)
ReviewedRoot == [NewItem("low") EXCEPT
    !.status = "repair_child_created", !.findings = {"FAIL"},
    !.prompt = {Root}, !.children = {<<"repair">>}]

GatedChild(gen, risk) == [NewItem(risk) EXCEPT
    !.status = "repair_child_created", !.lineage = TRUE,
    !.fromPrompt = {Root}, !.prompt = {Root}, !.gen = gen, !.count = 1]

RootAndChild(gen, risk) ==
    [i \in {Root, <<"repair">>} |->
        IF i = Root THEN [ReviewedRoot EXCEPT !.gen = gen - 1]
        ELSE GatedChild(gen, risk)]

(* The recoveries start from new items of either risk, from an item that    *)
(* needs an approval and from one of a generation that is no longer let     *)
(* through (test_prompt_queue_execution_gating.py).                         *)
RecoveryQueues ==
    NewQueuesAnyRisk \cup {RootAndChild(1, "high"), RootAndChild(2, "low")}

(* An executed item whose post-execution decision is linked and not applied *)
(* (tests/test_prompt_queue_next_step.py).                                  *)
Decisive(status, decision) ==
    [i \in {Root} |->
        [NewItem("low") EXCEPT
            !.status = "executed_" \o status, !.runs = 1,
            !.gating = {[of |-> Root, is |-> "runnable", approved |-> FALSE]},
            !.exec = {[of |-> Root, is |-> status, prompt |-> {}]},
            !.post = Decided(Root, decision)]]

(* An item whose findings were handed off by a live review, and one whose   *)
(* findings re-entered under a loop-control decision that allows it         *)
(* (tests/test_prompt_queue_findings_reentry.py, _loop_continuation.py).    *)
HandedOff ==
    [i \in {Root} |->
        [NewItem("low") EXCEPT
            !.status = "findings_parsed", !.findings = {"FAIL"}, !.answers = 1,
            !.invocation = Decided(Root, "success"),
            !.handoff = Decided(Root, "completed")]]

Reentered(action) ==
    [i \in {Root} |->
        [NewItem("low") EXCEPT
            !.status = "repair_prompt_generated", !.findings = {"FAIL"},
            !.prompt = {Root}, !.reentry = Decided(Root, "completed"),
            !.loopControl = Decided(Root, action)]]

(* Where the reviews of a failed execution start, and the rest.             *)
ReviewQueues == {Decisive("failure", "review_required"), HandedOff}

TestQueues ==
    ReviewQueues \cup
    {RootAndChild(1, "low"), RootAndChild(2, "low"),
     Reentered("allow_reentry"), Reentered("block_reentry"),
     Decisive("success", "complete"),
     Decisive("failure", "reentry_eligible"),
     Decisive("failure", "reentry_blocked")}
==============================================================================
