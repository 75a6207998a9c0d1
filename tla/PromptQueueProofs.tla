-------------------------- MODULE PromptQueueProofs ---------------------------
(***************************************************************************)
(* Proofs about PromptQueue, for any limits, budgets, prior states,        *)
(* outcomes and depths, from any well-formed queue.                        *)
(***************************************************************************)
EXTENDS PromptQueue, TLAPS

(* The inductive invariant.  That a new item owns no execution result,      *)
(* although it may inherit its parent's, needs that results belong to items *)
(* already in the queue.                                                    *)
IInv ==
    /\ TypeOK
    /\ ExecutedOnce
    /\ ResultsKnown(items)

RunsMatch(w, i) ==
    w.runs = IF w.status = "executing" \/ OwnedBy(w.exec, i) THEN 1 ELSE 0

(* What a call that leaves executions alone makes of an item. *)
Stored(w, r, s) ==
    /\ w \in WorkItem
    /\ w.runs = r.runs
    /\ w.exec = r.exec
    /\ w.status = s

(* What a call that executes makes of it. *)
Executes(w, n, x, s) ==
    /\ w \in WorkItem
    /\ w.runs = n
    /\ w.exec = x
    /\ w.status = s

----------------------------------------------------------------------------
(* One record changes, or one is added                                      *)

(* A call that replaces one record keeps the invariant if the new record is *)
(* well typed, counts its executions and links known results.               *)
LEMMA UpdateKeeps ==
    ASSUME IInv, NEW i \in DOMAIN items, NEW w \in WorkItem, RunsMatch(w, i),
           \A e \in w.exec : e.of \in DOMAIN items,
           Update(i, w)
    PROVE  IInv'
<1>1. items' = [items EXCEPT ![i] = w] /\ DOMAIN items' = DOMAIN items
  BY DEF Update
<1>2. \A j \in DOMAIN items : items'[j] = IF j = i THEN w ELSE items[j]
  BY <1>1
<1>3. TypeOK'
  BY <1>1, <1>2 DEF IInv, TypeOK, IsQueue
<1>4. ExecutedOnce'
  BY <1>1, <1>2 DEF IInv, ExecutedOnce, RunsAccountedFor, RunsMatch
<1>5. ResultsKnown(items)'
  BY <1>1, <1>2 DEF IInv, ResultsKnown
<1> QED BY <1>3, <1>4, <1>5 DEF IInv

(* A call that leaves executions alone leaves them accounted for. *)
LEMMA QuietUpdate ==
    ASSUME IInv, NEW i \in DOMAIN items, NEW w, NEW s,
           Stored(w, items[i], s),
           s = "executing" <=> items[i].status = "executing",
           Update(i, w)
    PROVE  IInv'
<1>1. w \in WorkItem
  BY DEF Stored
<1>2. RunsMatch(w, i)
  BY DEF IInv, ExecutedOnce, RunsAccountedFor, RunsMatch, Stored
<1>3. \A e \in w.exec : e.of \in DOMAIN items
  BY DEF IInv, ResultsKnown, Stored
<1> QED BY <1>1, <1>2, <1>3, UpdateKeeps

(* A new item owns no result and has not been executed. *)
LEMMA SpawnKeeps ==
    ASSUME IInv, NEW i \in DOMAIN items, NEW kind \in Kind,
           NEW parent, NEW s, NEW child \in WorkItem,
           Stored(parent, items[i], s),
           s = "executing" <=> items[i].status = "executing",
           child.runs = 0, child.status # "executing",
           \A e \in child.exec : e.of \in DOMAIN items /\ e.of # Child(i, kind),
           Spawn(i, parent, kind, child)
    PROVE  IInv'
<1> DEFINE c == Child(i, kind)
           D == DOMAIN items \cup {c}
           linked == [parent EXCEPT !.children = @ \cup {c}]
<1>1. c \in Ids /\ i \in Ids
  BY DEF IInv, TypeOK, IsQueue, Child, Ids
<1>2. linked \in WorkItem /\ linked.runs = parent.runs
      /\ linked.exec = parent.exec /\ linked.status = parent.status
  BY <1>1 DEF WorkItem, Stored
<1>3. items' = [j \in D |-> IF j = c THEN child
                            ELSE IF j = i THEN linked ELSE items[j]]
  BY DEF Spawn
<1> HIDE DEF linked, c
<1>4. DOMAIN items' = D
  BY <1>3
<1>p. /\ linked.runs = items[i].runs /\ linked.exec = items[i].exec
      /\ linked.status = "executing" <=> items[i].status = "executing"
  BY <1>2 DEF Stored
<1>5. TypeOK'
  BY <1>1, <1>2, <1>3, <1>4 DEF IInv, TypeOK, IsQueue
<1>6. ResultsKnown(items)'
  BY <1>p, <1>3, <1>4 DEF IInv, ResultsKnown, c
<1>7. ~OwnedBy(child.exec, c)
  BY DEF OwnedBy, c
<1>8. ExecutedOnce'
  BY <1>p, <1>3, <1>4, <1>7 DEF IInv, ExecutedOnce, RunsAccountedFor
<1> QED BY <1>5, <1>6, <1>8 DEF IInv

----------------------------------------------------------------------------
(* Types of what the calls store                                            *)

(* Whatever the allow-list permits is a status.                             *)
LEMMA LegalType ==
    ASSUME NEW from \in Status, NEW to, Legal(from, to) PROVE to \in Status
  BY DEF Legal, Status, AllowedTransitions

(* A new work item is well formed (make_work_item).                         *)
LEMMA NewItemType ==
    ASSUME NEW risk \in {"low", "high"} PROVE NewItem(risk) \in WorkItem
  BY DEF NewItem, WorkItem, Status, AllowedTransitions

(* The items of the queue, their statuses and their names have their types. *)
LEMMA ItemType ==
    ASSUME IInv, NEW i \in DOMAIN items
    PROVE  /\ items[i] \in WorkItem
           /\ items[i].status \in Status
           /\ i \in Ids
  BY DEF IInv, TypeOK, IsQueue, WorkItem

(* A decision made for an item is an artifact path.                         *)
LEMMA DecidedType ==
    ASSUME NEW i \in Ids, NEW d \in Decision
    PROVE  Decided(i, d) \in SUBSET Artifact
  BY DEF Decided, Artifact

(* A repair child is well formed, queued, and inherits no result.           *)
LEMMA RepairChildType ==
    ASSUME NEW parent \in WorkItem, NEW source \in Ids
    PROVE  LET child == RepairChild(parent, source)
           IN  /\ child \in WorkItem /\ child.runs = 0 /\ child.exec = {}
               /\ child.status = "queued"
<1>1. parent.risk \in {"low", "high"} /\ parent.gen \in Nat /\ parent.count \in Nat
  BY DEF WorkItem
<1>2. NewItem(parent.risk) \in WorkItem
  BY <1>1, NewItemType
<1>3. /\ NewItem(parent.risk).runs = 0
      /\ NewItem(parent.risk).exec = {}
      /\ NewItem(parent.risk).status = "queued"
  BY DEF NewItem
<1>4. {source} \in SUBSET Ids /\ parent.gen + 1 \in Nat /\ parent.count + 1 \in Nat
  BY <1>1
<1> DEFINE new == NewItem(parent.risk)
           child == [new EXCEPT !.fromPrompt = {source}, !.lineage = TRUE,
                                !.gen = parent.gen + 1, !.count = parent.count + 1]
<1> HIDE DEF new
<1>5. new \in WorkItem /\ new.runs = 0 /\ new.exec = {} /\ new.status = "queued"
  BY <1>2, <1>3 DEF new
<1>6. /\ child \in WorkItem /\ child.runs = 0 /\ child.exec = {}
      /\ child.status = "queued"
  BY <1>4, <1>5 DEF WorkItem
<1> QED BY <1>6 DEF RepairChild, new

(* A next-step child is well formed, queued, and inherits its parent's      *)
(* result without having been executed.                                     *)
LEMMA NextStepChildType ==
    ASSUME NEW i \in Ids, items[i] \in WorkItem
    PROVE  LET child == NextStepChild(i)
           IN  /\ child \in WorkItem /\ child.runs = 0
               /\ child.exec = items[i].exec /\ child.status = "queued"
<1> DEFINE p == items[i]
           new == NewItem(p.risk)
           v == Decided(i, "child")
           child == [new EXCEPT
                       !.fromPrompt = p.prompt, !.lineage = p.lineage,
                       !.gating = p.gating, !.exec = p.exec, !.post = p.post,
                       !.gen = p.gen + 1, !.nextStep = v]
<1>1. /\ p.risk \in {"low", "high"} /\ p.lineage \in BOOLEAN
      /\ p.prompt \in SUBSET Ids /\ p.gen + 1 \in Nat
      /\ p.gating \in SUBSET [of : Ids, is : Decision, approved : BOOLEAN]
      /\ p.exec \in SUBSET [of : Ids, is : Decision, prompt : SUBSET Ids]
      /\ p.post \in SUBSET Artifact
  BY DEF WorkItem
<1>2. v \in SUBSET Artifact
  BY DecidedType DEF Decision
<1>3. new \in WorkItem
  BY <1>1, NewItemType
<1>4. new.runs = 0 /\ new.status = "queued"
  BY DEF NewItem
<1> HIDE DEF p, new, v
<1>5. child \in WorkItem /\ child.runs = 0 /\ child.status = "queued"
      /\ child.exec = p.exec
  BY <1>1, <1>2, <1>3, <1>4 DEF WorkItem
<1> QED BY <1>5 DEF NextStepChild, p, new, v

(* A review child is well formed, and inherits its parent's result without  *)
(* having been executed.                                                    *)
LEMMA ReviewChildType ==
    ASSUME NEW i \in Ids, items[i] \in WorkItem
    PROVE  LET child == ReviewChild(i)
           IN  /\ child \in WorkItem /\ child.runs = 0
               /\ child.exec = items[i].exec /\ child.status = "review_queued"
<1> DEFINE p == items[i]
           new == NewItem(p.risk)
           v == Decided(i, "review_triggered")
           child == [new EXCEPT
                       !.status = "review_queued", !.gen = p.gen,
                       !.count = p.count, !.exec = p.exec, !.post = p.post,
                       !.loopControl = p.loopControl, !.trigger = v]
<1>1. /\ p.risk \in {"low", "high"} /\ p.gen \in Nat /\ p.count \in Nat
      /\ p.exec \in SUBSET [of : Ids, is : Decision, prompt : SUBSET Ids]
      /\ p.post \in SUBSET Artifact /\ p.loopControl \in SUBSET Artifact
      /\ "review_queued" \in Status
  BY DEF WorkItem, Status, AllowedTransitions
<1>2. v \in SUBSET Artifact
  BY DecidedType DEF Decision
<1>3. new \in WorkItem
  BY <1>1, NewItemType
<1>4. new.runs = 0
  BY DEF NewItem
<1> HIDE DEF p, new, v
<1>5. child \in WorkItem /\ child.runs = 0 /\ child.status = "review_queued"
      /\ child.exec = p.exec
  BY <1>1, <1>2, <1>3, <1>4 DEF WorkItem
<1> QED BY <1>5 DEF ReviewChild, p, new, v

(* The records the calls store.                                              *)

(* A new status alone leaves executions alone.                              *)
LEMMA StoreStatus ==
    ASSUME NEW r \in WorkItem, NEW s \in Status
    PROVE  Stored([r EXCEPT !.status = s], r, s)
  BY DEF WorkItem, Stored

(* Attaching findings leaves executions alone.                              *)
LEMMA StoreFindings ==
    ASSUME NEW r \in WorkItem, NEW v \in SUBSET {"PASS", "FAIL"}, NEW s \in Status
    PROVE  Stored([r EXCEPT !.findings = v, !.status = s], r, s)
  BY DEF WorkItem, Stored

(* Attaching a repair prompt leaves executions alone.                       *)
LEMMA StorePrompt ==
    ASSUME NEW r \in WorkItem, NEW v \in SUBSET Ids, NEW s \in Status
    PROVE  Stored([r EXCEPT !.prompt = v, !.status = s], r, s)
  BY DEF WorkItem, Stored

(* Linking a gating decision leaves executions alone.                       *)
LEMMA StoreGating ==
    ASSUME NEW r \in WorkItem, NEW s \in Status, NEW g \in SUBSET [of : Ids, is : Decision, approved : BOOLEAN]
    PROVE  Stored([r EXCEPT !.status = s, !.gating = g], r, s)
  BY DEF WorkItem, Stored

(* Linking a post-execution decision leaves executions alone.               *)
LEMMA StorePost ==
    ASSUME NEW r \in WorkItem, NEW v \in SUBSET Artifact, NEW s \in Status
    PROVE  Stored([[r EXCEPT !.post = v] EXCEPT !.status = s], r, s)
  BY DEF WorkItem, Stored

(* Linking a loop-control decision leaves executions alone.                 *)
LEMMA StoreLoopControl ==
    ASSUME NEW r \in WorkItem, NEW v \in SUBSET Artifact, NEW s \in Status
    PROVE  Stored([[r EXCEPT !.loopControl = v] EXCEPT !.status = s], r, s)
  BY DEF WorkItem, Stored

(* Linking a next-step action leaves executions alone.                      *)
LEMMA StoreNextStep ==
    ASSUME NEW r \in WorkItem, NEW v \in SUBSET Artifact, NEW s \in Status
    PROVE  Stored([r EXCEPT !.status = s, !.nextStep = v], r, s)
  BY DEF WorkItem, Stored

(* Linking a review trigger leaves executions alone.                        *)
LEMMA StoreTrigger ==
    ASSUME NEW r \in WorkItem, NEW v \in SUBSET Artifact, NEW s \in Status
    PROVE  /\ Stored([r EXCEPT !.trigger = v], r, r.status)
           /\ Stored([[r EXCEPT !.trigger = v] EXCEPT !.status = s], r, s)
  BY DEF WorkItem, Stored

(* Linking a provider's answer leaves executions alone.                     *)
LEMMA StoreAnswer ==
    ASSUME NEW r \in WorkItem, NEW v \in SUBSET Artifact, NEW n \in Nat, NEW s \in Status
    PROVE  Stored([r EXCEPT !.answers = n, !.status = s, !.invocation = v],
                  r, s)
  BY DEF WorkItem, Stored

(* Linking a handoff leaves executions alone.                               *)
LEMMA StoreHandoff ==
    ASSUME NEW r \in WorkItem, NEW v \in SUBSET Artifact, NEW f \in SUBSET {"PASS", "FAIL"}, NEW s \in Status
    PROVE  Stored([[r EXCEPT !.findings = f, !.handoff = v] EXCEPT !.status = s],
                  r, s)
  BY DEF WorkItem, Stored

(* Linking a findings reentry leaves executions alone.                      *)
LEMMA StoreReentry ==
    ASSUME NEW r \in WorkItem, NEW v \in SUBSET Artifact, NEW f \in SUBSET Ids, NEW s \in Status
    PROVE  Stored([[r EXCEPT !.prompt = f, !.reentry = v] EXCEPT !.status = s],
                  r, s)
  BY DEF WorkItem, Stored

(* Linking a loop continuation leaves executions alone.                     *)
LEMMA StoreContinuation ==
    ASSUME NEW r \in WorkItem, NEW v \in SUBSET Artifact, NEW s \in Status
    PROVE  /\ Stored([r EXCEPT !.status = s, !.continuation = v], r, s)
           /\ Stored([r EXCEPT !.continuation = v], r, r.status)
  BY DEF WorkItem, Stored

(* Linking a retry decision leaves executions alone.                        *)
LEMMA StoreRetry ==
    ASSUME NEW r \in WorkItem, NEW v \in SUBSET Artifact, NEW n \in Nat, NEW s \in Status
    PROVE  Stored([r EXCEPT !.retry = v, !.status = s, !.retries = n], r, s)
  BY DEF WorkItem, Stored

(* Linking a recovery decision leaves executions alone.                     *)
LEMMA StoreRecovery ==
    ASSUME NEW r \in WorkItem, NEW v \in SUBSET Artifact, NEW s \in Status
    PROVE  Stored([r EXCEPT !.status = s, !.recovery = v], r, s)
  BY DEF WorkItem, Stored

(* Entering execution counts a run and leaves the result alone.             *)
LEMMA StoreRun ==
    ASSUME NEW r \in WorkItem, NEW n \in Nat, NEW s \in Status
    PROVE  Executes([[r EXCEPT !.runs = n] EXCEPT !.status = s], n, r.exec, s)
  BY DEF WorkItem, Executes

(* Finalizing an execution stores its result and counts no run.             *)
LEMMA StoreResult ==
    ASSUME NEW r \in WorkItem, NEW s \in Status,
           NEW x \in SUBSET [of : Ids, is : Decision, prompt : SUBSET Ids]
    PROVE  Executes([[r EXCEPT !.exec = x] EXCEPT !.status = s], r.runs, x, s)
  BY DEF WorkItem, Executes

----------------------------------------------------------------------------
(* Every call of the repair loop keeps the invariant                        *)

(* A review moves an item that is not executing (run_review_with_fallback). *)
LEMMA ReviewStep ==
    ASSUME IInv, NEW i \in DOMAIN items, Review(i) PROVE IInv'
<1>1. PICK outcome \in {"review_complete", "blocked"} :
        Update(i, [items[i] EXCEPT !.status = outcome])
  BY DEF Review
<1>2. /\ outcome \in Status /\ outcome # "executing"
      /\ items[i].status # "executing"
  BY DEF Status, AllowedTransitions, Review, Legal
<1> DEFINE w == [items[i] EXCEPT !.status = outcome]
<1>3. Stored(w, items[i], outcome)
  BY <1>2, ItemType, StoreStatus
<1> HIDE DEF w
<1> QED BY <1>1, <1>2, <1>3, QuietUpdate DEF w

(* Findings may be attached to any item, and move only a reviewed one.      *)
LEMMA AttachFindingsStep ==
    ASSUME IInv, NEW i \in DOMAIN items, AttachFindings(i) PROVE IInv'
<1> DEFINE s == IF items[i].status = "review_complete"
                THEN "findings_parsed" ELSE items[i].status
<1>1. PICK verdict \in {"PASS", "FAIL"} :
        Update(i, [items[i] EXCEPT !.findings = {verdict}, !.status = s])
  BY DEF AttachFindings
<1>2. {verdict} \in SUBSET {"PASS", "FAIL"}
  OBVIOUS
<1>3. s \in Status /\ (s = "executing" <=> items[i].status = "executing")
  BY ItemType DEF Status, AllowedTransitions
<1> HIDE DEF s
<1> DEFINE w == [items[i] EXCEPT !.findings = {verdict}, !.status = s]
<1>4. Stored(w, items[i], s)
  BY <1>2, <1>3, ItemType, StoreFindings
<1> HIDE DEF w
<1> QED BY <1>1, <1>3, <1>4, QuietUpdate DEF w

(* A repair prompt moves only an item whose findings are parsed.            *)
LEMMA AttachRepairPromptStep ==
    ASSUME IInv, NEW i \in DOMAIN items, AttachRepairPrompt(i) PROVE IInv'
<1> DEFINE s == IF items[i].status = "findings_parsed"
                THEN "repair_prompt_generated" ELSE items[i].status
<1>1. Update(i, [items[i] EXCEPT !.prompt = {i}, !.status = s])
  BY DEF AttachRepairPrompt
<1>2. {i} \in SUBSET Ids
  BY ItemType
<1>3. s \in Status /\ (s = "executing" <=> items[i].status = "executing")
  BY ItemType DEF Status, AllowedTransitions
<1> HIDE DEF s
<1> DEFINE w == [items[i] EXCEPT !.prompt = {i}, !.status = s]
<1>4. Stored(w, items[i], s)
  BY <1>2, <1>3, ItemType, StorePrompt
<1> HIDE DEF w
<1> QED BY <1>1, <1>3, <1>4, QuietUpdate DEF w

(* A repair child is new and its parent is not executing.                   *)
LEMMA SpawnRepairChildStep ==
    ASSUME IInv, NEW i \in DOMAIN items, SpawnRepairChild(i) PROVE IInv'
<1> DEFINE s == "repair_child_created"
           w == [items[i] EXCEPT !.status = s]
           child == RepairChild(items[i], i)
<1>1. items[i].status # "executing" /\ Spawn(i, w, "repair", child)
  BY DEF SpawnRepairChild, MaySpawnRepairChild
<1>2. s \in Status /\ s # "executing" /\ "repair" \in Kind
  BY DEF Status, AllowedTransitions, Kind
<1> HIDE DEF s
<1>3. Stored(w, items[i], s)
  BY <1>2, ItemType, StoreStatus
<1>4. child \in WorkItem /\ child.runs = 0 /\ child.exec = {}
      /\ child.status # "executing"
  BY ItemType, RepairChildType
<1> HIDE DEF w, child
<1> QED BY <1>1, <1>2, <1>3, <1>4, SpawnKeeps

(* Gating is applied to items that are not executing and starts none.       *)
LEMMA ApplyGatingStep ==
    ASSUME IInv, NEW i \in DOMAIN items, ApplyGating(i) PROVE IInv'
<1>1. PICK approval \in BOOLEAN :
        Update(i, [items[i] EXCEPT
            !.status = GatingDecision(i, approval),
            !.gating = {[of |-> i, is |-> GatingDecision(i, approval),
                         approved |-> approval]}])
  BY DEF ApplyGating
<1> DEFINE d == GatingDecision(i, approval)
           g == {[of |-> i, is |-> d, approved |-> approval]}
           w == [items[i] EXCEPT !.status = d, !.gating = g]
<1>2. d \in {"blocked", "approval_required", "runnable"}
  BY DEF GatingDecision
<1>3. Update(i, w) /\ items[i].status # "executing"
  BY <1>1 DEF ApplyGating
<1> HIDE DEF d
<1>4. d \in Status /\ d \in Decision /\ d # "executing"
  BY <1>2 DEF Status, AllowedTransitions, Decision
<1>5. g \in SUBSET [of : Ids, is : Decision, approved : BOOLEAN]
  BY <1>4, ItemType
<1> HIDE DEF g
<1>6. Stored(w, items[i], d)
  BY <1>4, <1>5, ItemType, StoreGating
<1> HIDE DEF w
<1> QED BY <1>3, <1>4, <1>6, QuietUpdate

(* The item has no result, so by the invariant it has not been executed. *)
LEMMA EnterExecutionStep ==
    ASSUME IInv, NEW i \in DOMAIN items, EnterExecution(i) PROVE IInv'
<1> DEFINE n == items[i].runs + 1
           s == "executing"
           w == [[items[i] EXCEPT !.runs = n] EXCEPT !.status = s]
<1>1. items[i].exec = {} /\ items[i].status # "executing" /\ Update(i, w)
  BY DEF EnterExecution, MoveTo, Legal, AllowedTransitions
<1>2. n = 1
  BY <1>1 DEF IInv, ExecutedOnce, RunsAccountedFor, OwnedBy
<1>3. s \in Status
  BY DEF Status, AllowedTransitions
<1> HIDE DEF n
<1>4. Executes(w, n, items[i].exec, s)
  BY <1>2, <1>3, ItemType, StoreRun
<1> HIDE DEF w
<1>5. w \in WorkItem /\ RunsMatch(w, i) /\ w.exec = {}
  BY <1>1, <1>2, <1>4 DEF Executes, RunsMatch
<1> QED BY <1>1, <1>5, UpdateKeeps

(* Only an executing item gets a result, and the result is its own. *)
LEMMA FinalizeExecutionStep ==
    ASSUME IInv, NEW i \in DOMAIN items, FinalizeExecution(i) PROVE IInv'
<1>1. PICK status \in {"success", "failure"} :
        MoveTo(i, IF status = "success" THEN "executed_success"
                  ELSE "executed_failure",
               [items[i] EXCEPT
                  !.exec = {[of |-> i, is |-> status,
                             prompt |-> ExecutedPrompt(items[i])]}])
  BY DEF FinalizeExecution
<1> DEFINE s == IF status = "success" THEN "executed_success"
                ELSE "executed_failure"
           e == [of |-> i, is |-> status, prompt |-> ExecutedPrompt(items[i])]
           x == {e}
           w == [[items[i] EXCEPT !.exec = x] EXCEPT !.status = s]
<1>2. Legal(items[i].status, s) /\ Update(i, w)
  BY <1>1 DEF MoveTo
<1>3. items[i].status = "executing"
  BY <1>2, ItemType DEF Legal, Status, AllowedTransitions
<1>4. items[i].runs = 1
  BY <1>3 DEF IInv, ExecutedOnce, RunsAccountedFor
<1>5. s \in Status /\ s # "executing" /\ status \in Decision
  BY DEF Status, AllowedTransitions, Decision
<1>6. e \in [of : Ids, is : Decision, prompt : SUBSET Ids] /\ e.of = i
  BY <1>5, ItemType DEF ExecutedPrompt, WorkItem
<1> HIDE DEF s, e
<1>7. x \in SUBSET [of : Ids, is : Decision, prompt : SUBSET Ids]
  BY <1>6
<1>8. (\A y \in x : y.of \in DOMAIN items) /\ OwnedBy(x, i)
  BY <1>6 DEF OwnedBy
<1> HIDE DEF x
<1>9. Executes(w, items[i].runs, x, s)
  BY <1>5, <1>7, ItemType, StoreResult
<1> HIDE DEF w
<1>10. w \in WorkItem /\ RunsMatch(w, i) /\ w.exec = x
  BY <1>4, <1>8, <1>9 DEF Executes, RunsMatch
<1> QED BY <1>2, <1>8, <1>10, UpdateKeeps

(* A post-execution decision leaves the result it is about in place.        *)
LEMMA ApplyPostExecutionStep ==
    ASSUME IInv, NEW i \in DOMAIN items, ApplyPostExecution(i) PROVE IInv'
<1> DEFINE d == PostExecutionDecision(i)
           v == Decided(i, d)
           w == [[items[i] EXCEPT !.post = v] EXCEPT !.status = d]
<1>1. Update(i, w) /\ items[i].status # "executing"
  BY DEF ApplyPostExecution, MoveTo
<1>2. d \in {"reentry_blocked", "complete", "review_required"}
  BY DEF PostExecutionDecision
<1> HIDE DEF d
<1>3. d \in Status /\ d \in Decision /\ d # "executing"
  BY <1>2 DEF Status, AllowedTransitions, Decision
<1>4. v \in SUBSET Artifact
  BY <1>3, ItemType, DecidedType
<1> HIDE DEF v
<1>5. Stored(w, items[i], d)
  BY <1>3, <1>4, ItemType, StorePost
<1> HIDE DEF w
<1> QED BY <1>1, <1>3, <1>5, QuietUpdate

----------------------------------------------------------------------------
(* Every follow-up call keeps the invariant                                 *)

(* No loop-control decision starts or ends an execution.                    *)
LEMMA ApplyLoopControlStep ==
    ASSUME IInv, NEW i \in DOMAIN items, ApplyLoopControl(i) PROVE IInv'
<1> DEFINE d == LoopAction(i)
           s == LoopTarget[d]
           v == Decided(i, d)
           w == [[items[i] EXCEPT !.loopControl = v] EXCEPT !.status = s]
<1>1. Legal(items[i].status, s) /\ Update(i, w)
  BY DEF ApplyLoopControl, MoveTo
<1>2. d \in {"allow_reentry", "require_review", "block_reentry"}
  BY DEF LoopAction
<1> HIDE DEF d
<1>3. d \in Decision /\ s \in {"reentry_eligible", "review_required", "blocked"}
  BY <1>2 DEF Decision, LoopTarget
<1> HIDE DEF s
<1>4. s \in Status /\ s # "executing" /\ items[i].status # "executing"
  BY <1>1, <1>3 DEF Status, AllowedTransitions, Legal
<1>5. v \in SUBSET Artifact
  BY <1>3, ItemType, DecidedType
<1> HIDE DEF v
<1>6. Stored(w, items[i], s)
  BY <1>4, <1>5, ItemType, StoreLoopControl
<1> HIDE DEF w
<1> QED BY <1>1, <1>4, <1>6, QuietUpdate

(* The child inherits results, none of which can be its own. *)
LEMMA ApplyNextStepStep ==
    ASSUME IInv, NEW i \in DOMAIN items, ApplyNextStep(i) PROVE IInv'
<1>1. PICK p \in items[i].post :
        /\ Legal(items[i].status, p.is)
        /\ LET moved == [items[i] EXCEPT !.status = p.is,
                                         !.nextStep = Decided(i, p.is)]
           IN  IF p.is \in DOMAIN NextStepKind
               THEN /\ Child(i, NextStepKind[p.is]) \notin DOMAIN items
                    /\ Spawn(i, moved, NextStepKind[p.is], NextStepChild(i))
               ELSE Update(i, moved)
  BY DEF ApplyNextStep
<1> DEFINE s == p.is
           v == Decided(i, s)
           w == [items[i] EXCEPT !.status = s, !.nextStep = v]
           k == NextStepKind[s]
           child == NextStepChild(i)
<1>2. s \in Decision
  BY ItemType DEF WorkItem, Artifact
<1>3. s # "executing" /\ s # "executed_success" /\ s # "executed_failure"
  BY <1>2 DEF Decision
<1>4. s \in Status /\ items[i].status # "executing"
  BY <1>1, <1>3, ItemType, LegalType DEF Legal, AllowedTransitions
<1>5. v \in SUBSET Artifact
  BY <1>2, ItemType, DecidedType
<1>6. \/ Update(i, w)
      \/ /\ s \in DOMAIN NextStepKind
         /\ Child(i, k) \notin DOMAIN items /\ Spawn(i, w, k, child)
  BY <1>1
<1>7. s \in DOMAIN NextStepKind => k \in Kind
  BY DEF NextStepKind, Kind
<1>8. /\ child \in WorkItem /\ child.runs = 0 /\ child.exec = items[i].exec
      /\ child.status # "executing"
  BY ItemType, NextStepChildType
<1> HIDE DEF s, v, k, child
<1>9. Stored(w, items[i], s)
  BY <1>4, <1>5, ItemType, StoreNextStep
<1> HIDE DEF w
<1>10. \A e \in child.exec : e.of \in DOMAIN items
  BY <1>8 DEF IInv, ResultsKnown
<1>11. CASE Update(i, w)
  BY <1>3, <1>4, <1>9, <1>11, QuietUpdate
<1>12. CASE /\ s \in DOMAIN NextStepKind
            /\ Child(i, k) \notin DOMAIN items /\ Spawn(i, w, k, child)
  <2>1. \A e \in child.exec : e.of \in DOMAIN items /\ e.of # Child(i, k)
    BY <1>10, <1>12
  <2> QED BY <1>3, <1>4, <1>7, <1>8, <1>9, <1>12, <2>1, SpawnKeeps
<1> QED BY <1>6, <1>11, <1>12

(* A trigger is applied to items that are not executing; its child inherits *)
(* a result and owns none.                                                  *)
LEMMA ApplyReviewTriggerStep ==
    ASSUME IInv, NEW i \in DOMAIN items, ApplyReviewTrigger(i) PROVE IInv'
<1> DEFINE d == TriggerDecision(i)
           v == Decided(i, d)
           decided == [items[i] EXCEPT !.trigger = v]
           blocked == [decided EXCEPT !.status = "blocked"]
           triggered == [decided EXCEPT !.status = "review_triggered"]
           child == ReviewChild(i)
<1>1. /\ items[i].status # "executing"
      /\ \/ Update(i, decided)
         \/ Update(i, blocked)
         \/ /\ Child(i, "review") \notin DOMAIN items
            /\ Spawn(i, triggered, "review", child)
  BY DEF ApplyReviewTrigger, MoveTo
<1>2. d \in Decision
  BY DEF TriggerDecision, Decision
<1>3. v \in SUBSET Artifact
  BY <1>2, ItemType, DecidedType
<1>4. /\ "blocked" \in Status /\ "review_triggered" \in Status
      /\ "review" \in Kind
  BY DEF Status, AllowedTransitions, Kind
<1> HIDE DEF d, v
<1>5. /\ Stored(decided, items[i], items[i].status)
      /\ Stored(blocked, items[i], "blocked")
      /\ Stored(triggered, items[i], "review_triggered")
  BY <1>3, <1>4, ItemType, StoreTrigger
<1>6. /\ child \in WorkItem /\ child.runs = 0 /\ child.exec = items[i].exec
      /\ child.status # "executing"
  BY ItemType, ReviewChildType
<1> HIDE DEF decided, blocked, triggered, child
<1>7. CASE Update(i, decided)
  BY <1>5, <1>7, QuietUpdate
<1>8. CASE Update(i, blocked)
  BY <1>1, <1>5, <1>8, QuietUpdate
<1>9. CASE /\ Child(i, "review") \notin DOMAIN items
           /\ Spawn(i, triggered, "review", child)
  <2>1. \A e \in child.exec : e.of \in DOMAIN items /\ e.of # Child(i, "review")
    BY <1>6, <1>9 DEF IInv, ResultsKnown
  <2> QED BY <1>1, <1>4, <1>5, <1>6, <1>9, <2>1, SpawnKeeps
<1> QED BY <1>1, <1>7, <1>8, <1>9

(* Blocking a refused invocation never hits an executing item: the allow-   *)
(* list has no such transition.                                             *)
LEMMA RefuseInvocationStep ==
    ASSUME IInv, NEW i \in DOMAIN items, RefuseInvocation(i) PROVE IInv'
<1> DEFINE w == [items[i] EXCEPT !.status = "blocked"]
<1>1. Update(i, w) /\ items[i].status # "executing"
  BY DEF RefuseInvocation, MoveTo, Legal, AllowedTransitions
<1>2. "blocked" \in Status
  BY DEF Status, AllowedTransitions
<1>3. Stored(w, items[i], "blocked")
  BY <1>2, ItemType, StoreStatus
<1> HIDE DEF w
<1> QED BY <1>1, <1>3, QuietUpdate

(* A provider's answer, however its invocation ends, starts no execution.   *)
LEMMA InvokeAnsweredStep ==
    ASSUME IInv, NEW i \in DOMAIN items, InvokeAnswered(i) PROVE IInv'
<1>1. PICK outcome \in Outcomes \cap DOMAIN StatusAfter :
        Update(i, [items[i] EXCEPT
            !.answers    = items[i].answers + 1,
            !.status     = StatusAfter[outcome],
            !.invocation = IF outcome \in Linking
                           THEN Decided(i, "success") ELSE items[i].invocation])
  BY DEF InvokeAnswered
<1> DEFINE n == items[i].answers + 1
           s == StatusAfter[outcome]
           v == IF outcome \in Linking
                THEN Decided(i, "success") ELSE items[i].invocation
           w == [items[i] EXCEPT !.answers = n, !.status = s, !.invocation = v]
<1>2. Update(i, w) /\ items[i].status # "executing"
  BY <1>1 DEF InvokeAnswered, MayInvoke
<1>3. s \in Status /\ s # "executing"
  BY DEF StatusAfter, Status, AllowedTransitions
<1>4. n \in Nat /\ items[i].invocation \in SUBSET Artifact
  BY ItemType DEF WorkItem
<1>5. Decided(i, "success") \in SUBSET Artifact
  BY ItemType, DecidedType DEF Decision
<1>6. v \in SUBSET Artifact
  BY <1>4, <1>5
<1> HIDE DEF n, s, v
<1>7. Stored(w, items[i], s)
  BY <1>3, <1>4, <1>6, ItemType, StoreAnswer
<1> HIDE DEF w
<1> QED BY <1>2, <1>3, <1>7, QuietUpdate

(* A failed invocation starts no execution.                                 *)
LEMMA InvokeFailedStep ==
    ASSUME IInv, NEW i \in DOMAIN items, InvokeFailed(i) PROVE IInv'
<1> DEFINE w == [items[i] EXCEPT !.status = "review_invocation_failed"]
<1>1. Update(i, w) /\ items[i].status # "executing"
  BY DEF InvokeFailed, MayInvoke
<1>2. "review_invocation_failed" \in Status
  BY DEF Status, AllowedTransitions
<1>3. Stored(w, items[i], "review_invocation_failed")
  BY <1>2, ItemType, StoreStatus
<1> HIDE DEF w
<1> QED BY <1>1, <1>3, QuietUpdate

(* A handoff parses findings of an item that is not executing.              *)
LEMMA HandoffStep ==
    ASSUME IInv, NEW i \in DOMAIN items, Handoff(i) PROVE IInv'
<1>1. PICK verdict \in {"PASS", "FAIL"} :
        MoveTo(i, "findings_parsed",
               [items[i] EXCEPT !.findings = {verdict},
                                !.handoff = Decided(i, "completed")])
  BY DEF Handoff
<1> DEFINE f == {verdict}
           v == Decided(i, "completed")
           s == "findings_parsed"
           w == [[items[i] EXCEPT !.findings = f, !.handoff = v]
                    EXCEPT !.status = s]
<1>2. Update(i, w) /\ items[i].status # "executing"
  BY <1>1 DEF Handoff, MoveTo
<1>3. s \in Status /\ s # "executing" /\ f \in SUBSET {"PASS", "FAIL"}
  BY DEF Status, AllowedTransitions
<1>4. v \in SUBSET Artifact
  BY ItemType, DecidedType DEF Decision
<1> HIDE DEF f, v, s
<1>5. Stored(w, items[i], s)
  BY <1>3, <1>4, ItemType, StoreHandoff
<1> HIDE DEF w
<1> QED BY <1>2, <1>3, <1>5, QuietUpdate

(* A findings reentry moves an item that is not executing.                  *)
LEMMA ReenterFindingsStep ==
    ASSUME IInv, NEW i \in DOMAIN items, ReenterFindings(i) PROVE IInv'
<1> DEFINE f == {i}
           v == Decided(i, "completed")
           s == "repair_prompt_generated"
           w == [[items[i] EXCEPT !.prompt = f, !.reentry = v]
                    EXCEPT !.status = s]
<1>1. Update(i, w) /\ items[i].status # "executing"
  BY DEF ReenterFindings, MoveTo
<1>2. s \in Status /\ s # "executing" /\ f \in SUBSET Ids
  BY ItemType DEF Status, AllowedTransitions
<1>3. v \in SUBSET Artifact
  BY ItemType, DecidedType DEF Decision
<1> HIDE DEF f, v, s
<1>4. Stored(w, items[i], s)
  BY <1>2, <1>3, ItemType, StoreReentry
<1> HIDE DEF w
<1> QED BY <1>1, <1>2, <1>4, QuietUpdate

(* A continuation spawns a new child or only records its refusal.           *)
LEMMA ContinueLoopStep ==
    ASSUME IInv, NEW i \in DOMAIN items, ContinueLoop(i) PROVE IInv'
<1> DEFINE u == Decided(i, "child_spawned")
           v == Decided(i, "continuation_blocked")
           s == "repair_child_created"
           spawning == [items[i] EXCEPT !.status = s, !.continuation = u]
           stopped == [items[i] EXCEPT !.continuation = v]
           child == RepairChild(items[i], i)
<1>1. \/ /\ items[i].status # "executing"
         /\ Spawn(i, spawning, "repair", child)
      \/ Update(i, stopped)
  BY DEF ContinueLoop, MaySpawnRepairChild
<1>2. u \in SUBSET Artifact /\ v \in SUBSET Artifact
  BY ItemType, DecidedType DEF Decision
<1>3. s \in Status /\ s # "executing" /\ "repair" \in Kind
  BY DEF Status, AllowedTransitions, Kind
<1> HIDE DEF u, v, s
<1>4. /\ Stored(spawning, items[i], s)
      /\ Stored(stopped, items[i], items[i].status)
  BY <1>2, <1>3, ItemType, StoreContinuation
<1>5. child \in WorkItem /\ child.runs = 0 /\ child.exec = {}
      /\ child.status # "executing"
  BY ItemType, RepairChildType
<1> HIDE DEF spawning, stopped, child
<1>6. CASE Update(i, stopped)
  BY <1>4, <1>6, QuietUpdate
<1>7. CASE items[i].status # "executing" /\ Spawn(i, spawning, "repair", child)
  BY <1>3, <1>4, <1>5, <1>7, SpawnKeeps
<1> QED BY <1>1, <1>6, <1>7

(* A retry may return an item with a result to runnable, never to           *)
(* executing.                                                               *)
LEMMA ApplyRetryStep ==
    ASSUME IInv, NEW i \in DOMAIN items, ApplyRetry(i) PROVE IInv'
<1>1. PICK reason \in RetryRequests, vouched \in BOOLEAN :
        LET d == RetryDecision(i, reason, vouched)
        IN  Update(i, [items[i] EXCEPT
               !.retry   = Decided(i, d),
               !.status  = IF d = "retry_allowed"
                           THEN RetryTarget[items[i].status] ELSE items[i].status,
               !.retries = IF d = "retry_allowed"
                           THEN items[i].retries + 1 ELSE items[i].retries])
  BY DEF ApplyRetry
<1> DEFINE d == RetryDecision(i, reason, vouched)
           v == Decided(i, d)
           s == IF d = "retry_allowed"
                THEN RetryTarget[items[i].status] ELSE items[i].status
           n == IF d = "retry_allowed"
                THEN items[i].retries + 1 ELSE items[i].retries
           w == [items[i] EXCEPT !.retry = v, !.status = s, !.retries = n]
<1>2. Update(i, w)
  BY <1>1
<1>3. /\ d \in {"retry_blocked", "retry_exhausted", "retry_allowed"}
      /\ d = "retry_allowed" => items[i].status \in DOMAIN RetryTarget
  BY DEF RetryDecision
<1> HIDE DEF d
<1>4. s \in Status /\ (s = "executing" <=> items[i].status = "executing")
  BY <1>3, ItemType DEF RetryTarget, Status, AllowedTransitions
<1>5. n \in Nat
  BY ItemType DEF WorkItem
<1>6. d \in Decision
  BY <1>3 DEF Decision
<1>7. v \in SUBSET Artifact
  BY <1>6, ItemType, DecidedType
<1> HIDE DEF v, s, n
<1>8. Stored(w, items[i], s)
  BY <1>4, <1>5, <1>7, ItemType, StoreRetry
<1> HIDE DEF w
<1> QED BY <1>2, <1>4, <1>8, QuietUpdate

(* A recovery returns a blocked item to a prior state, never to executing.  *)
LEMMA RecoverStep ==
    ASSUME IInv, NEW i \in DOMAIN items, Recover(i) PROVE IInv'
<1>1. PICK prior \in PriorStates \cup {"blocked"} :
        Update(i, [items[i] EXCEPT
            !.status   = prior,
            !.recovery = Decided(i, IF prior = "blocked" THEN "no_action"
                                    ELSE "return_to_prior_state")])
  BY DEF Recover
<1> DEFINE d == IF prior = "blocked" THEN "no_action"
                ELSE "return_to_prior_state"
           v == Decided(i, d)
           w == [items[i] EXCEPT !.status = prior, !.recovery = v]
<1>2. Update(i, w) /\ items[i].status # "executing"
  BY <1>1 DEF Recover
<1>3. prior \in Status /\ prior # "executing"
  BY QueueConstants DEF Status, AllowedTransitions
<1>4. d \in Decision
  BY DEF Decision
<1> HIDE DEF d
<1>5. v \in SUBSET Artifact
  BY <1>4, ItemType, DecidedType
<1> HIDE DEF v
<1>6. Stored(w, items[i], prior)
  BY <1>3, <1>5, ItemType, StoreRecovery
<1> HIDE DEF w
<1> QED BY <1>2, <1>3, <1>6, QuietUpdate

----------------------------------------------------------------------------
(* The invariant                                                            *)

(* Every queue a history may start from satisfies the invariant.            *)
LEMMA IInvInit == Init => IInv
  BY SeedsWellFormed DEF Init, IInv, TypeOK, ExecutedOnce

(* Every call keeps the invariant: one case per call.                       *)
LEMMA IInvNext == IInv /\ [Next]_items => IInv'
<1> SUFFICES ASSUME IInv, [Next]_items PROVE IInv'
  OBVIOUS
<1>1. CASE UNCHANGED items
  BY <1>1 DEF IInv, TypeOK, ExecutedOnce, IsQueue, RunsAccountedFor, ResultsKnown
<1>2. ASSUME NEW i \in DOMAIN items,
             \/ Review(i) \/ AttachFindings(i) \/ AttachRepairPrompt(i)
             \/ SpawnRepairChild(i) \/ ApplyGating(i) \/ EnterExecution(i)
             \/ FinalizeExecution(i) \/ ApplyPostExecution(i)
      PROVE  IInv'
  BY <1>2, ReviewStep, AttachFindingsStep, AttachRepairPromptStep,
     SpawnRepairChildStep, ApplyGatingStep, EnterExecutionStep,
     FinalizeExecutionStep, ApplyPostExecutionStep
<1>3. ASSUME NEW i \in DOMAIN items,
             \/ ApplyLoopControl(i) \/ ApplyNextStep(i) \/ ApplyReviewTrigger(i)
             \/ RefuseInvocation(i) \/ InvokeAnswered(i) \/ InvokeFailed(i)
             \/ Handoff(i) \/ ReenterFindings(i) \/ ContinueLoop(i)
             \/ ApplyRetry(i) \/ Recover(i)
      PROVE  IInv'
  BY <1>3, ApplyLoopControlStep, ApplyNextStepStep, ApplyReviewTriggerStep,
     RefuseInvocationStep, InvokeAnsweredStep, InvokeFailedStep, HandoffStep,
     ReenterFindingsStep, ContinueLoopStep, ApplyRetryStep, RecoverStep
<1> QED BY <1>1, <1>2, <1>3 DEF Next

(* The invariant is inductive for every value of the constants. *)
THEOREM Invariance == Spec => []IInv
<1>1. Init => IInv
  BY IInvInit
<1>2. IInv /\ [Next]_items => IInv'
  BY IInvNext
<1> QED BY <1>1, <1>2, PTL DEF Spec

(* However the calls on a queue are ordered, the queue stays a set of       *)
(* well-formed work items (prompt_queue_work_item).                         *)
THEOREM TypeCorrect == Spec => []TypeOK
<1>1. IInv => TypeOK
  BY DEF IInv
<1> QED BY <1>1, Invariance, PTL

(* However the calls on a queue are ordered, retries and recoveries         *)
(* included, no item is executed twice (transition_to_executing).           *)
THEOREM NeverExecutedTwice == Spec => []ExecutedOnce
<1>1. IInv => ExecutedOnce
  BY DEF IInv
<1> QED BY <1>1, Invariance, PTL
=============================================================================
