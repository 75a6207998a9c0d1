------------------------ MODULE PromptQueueLinkProofs ------------------------
(***************************************************************************)
(* Proofs about the links of a PromptQueue: parents and children,          *)
(* generations, decisions and the statuses that rest on them, for any      *)
(* limits, budgets, prior states, outcomes and depths.                     *)
(***************************************************************************)
EXTENDS PromptQueueProofs, SequenceTheorems

(* What no call takes away from an item once it is there, and when it runs. *)
Kept(w, r) ==
    /\ r.exec # {} => w.exec = r.exec
    /\ r.trigger # {} => w.trigger = r.trigger
    /\ r.invocation # {} => w.invocation = r.invocation /\ w.answers = r.answers
    /\ r.handoff # {} => w.handoff = r.handoff
    /\ r.reentry # {} => w.reentry = r.reentry
    /\ r.continuation # {} => w.continuation = r.continuation
    /\ r.retry # {} => w.retry = r.retry
    /\ r.recovery # {} => w.recovery = r.recovery
    /\ w.runs = r.runs \/ (r.status = "runnable" /\ r.exec = {})

(* An item keeps its children and its place in the chain of generations. *)
Placed(w, r) ==
    /\ DOMAIN w = DOMAIN r
    /\ w.children = r.children
    /\ w.count = r.count
    /\ w.gen = r.gen

Good(w, i) == Kept(w, items[i]) /\ Placed(w, items[i]) /\ Backed(w, i)

(* A new child has no children, and a repair child counts one up. *)
Fresh(child, i, kind) ==
    /\ child.children = {}
    /\ kind = "repair" => /\ child.count = items[i].count + 1
                          /\ child.gen = items[i].gen + 1
    /\ Backed(child, Child(i, kind))

(* Every call replaces one item by a good one, or adds a child to it too. *)
Replaces(i) == \E w : Good(w, i) /\ Update(i, w)

Adds(i) ==
    \E w, child, kind :
        /\ kind \in Kind
        /\ Good(w, i)
        /\ Fresh(child, i, kind)
        /\ Child(i, kind) \notin DOMAIN items
        /\ Spawn(i, w, kind, child)

(* The inductive invariant: names and parents agree, generations count up,  *)
(* and every item has the decisions its status and links rest on.           *)
LinkInv ==
    /\ ChildrenLinked
    /\ RepairChildrenCountUp
    /\ \A i \in DOMAIN items : Backed(items[i], i)

----------------------------------------------------------------------------
(* Names                                                                    *)

(* A child's name ends in its kind and leads back to its parent.            *)
LEMMA ChildName ==
    ASSUME NEW i \in Ids, NEW kind \in Kind
    PROVE  /\ Child(i, kind) \in Ids
           /\ HasParent(Child(i, kind))
           /\ Parent(Child(i, kind)) = i
           /\ Child(i, kind)[Len(Child(i, kind))] = kind
           /\ Child(i, kind) # i
<1> DEFINE c == Append(i, kind)
<1>1. /\ c \in Seq(Kind) /\ c # <<>> /\ Len(c) = Len(i) + 1
      /\ \A n \in 1..Len(i) : c[n] = i[n]
      /\ c[Len(i) + 1] = kind
  BY AppendProperties DEF Ids
<1>2. Len(i) \in Nat
  BY DEF Ids
<1>3. \A n \in 1..Len(i) : i[n] \in Kind
  BY DEF Ids
<1> HIDE DEF c
<1>4. \A n \in 1..Len(i) : c[n] \in Kind
  BY <1>1, <1>3
<1> DEFINE p == SubSeq(c, 1, Len(i))
<1>5. /\ p \in Seq(Kind)
      /\ Len(p) = IF 1 <= Len(i) THEN Len(i) - 1 + 1 ELSE 0
      /\ \A n \in 1..(Len(i) - 1 + 1) : p[n] = c[1 + n - 1]
  BY <1>2, <1>4, SubSeqProperties
<1> HIDE DEF p
<1>6. Len(p) = Len(i) /\ \A n \in 1..Len(p) : p[n] = i[n]
  BY <1>1, <1>2, <1>5
<1>7. p = i
  BY <1>5, <1>6, SeqEqual DEF Ids
<1>8. SubSeq(c, 1, Len(c) - 1) = i
  BY <1>1, <1>2, <1>7 DEF p
<1>9. c # i
  BY <1>1, <1>2
<1> QED BY <1>1, <1>8, <1>9, <1>2 DEF Child, HasParent, Parent, Root, Ids, c

----------------------------------------------------------------------------
(* Every call leaves a good item                                            *)

(* A review only moves the item. *)
LEMMA ReviewGood ==
    ASSUME IInv, LinkInv, NEW i \in DOMAIN items, Review(i) PROVE Replaces(i)
<1>1. PICK outcome \in {"review_complete", "blocked"} :
        Update(i, [items[i] EXCEPT !.status = outcome])
  BY DEF Review
<1> DEFINE r == items[i]
           w == [items[i] EXCEPT !.status = outcome]
<1>2. r \in WorkItem /\ Backed(r, i)
  BY ItemType DEF LinkInv
<1> HIDE DEF r
<1>3. Kept(w, r) /\ Placed(w, r) /\ Backed(w, i)
  BY <1>1, <1>2 DEF r, WorkItem, Kept, Placed, Backed, Evident,
     Recovered, LetThrough
<1> QED BY <1>1, <1>3 DEF Replaces, Good, r

(* Findings move only an item whose review is complete. *)
LEMMA AttachFindingsGood ==
    ASSUME IInv, LinkInv, NEW i \in DOMAIN items, AttachFindings(i) PROVE Replaces(i)
<1>1. PICK verdict \in {"PASS", "FAIL"} :
        Update(i, [items[i] EXCEPT
            !.findings = {verdict},
            !.status = IF @ = "review_complete" THEN "findings_parsed" ELSE @])
  BY DEF AttachFindings
<1> DEFINE r == items[i]
           w == [items[i] EXCEPT
            !.findings = {verdict},
            !.status = IF @ = "review_complete" THEN "findings_parsed" ELSE @]
<1>2. r \in WorkItem /\ Backed(r, i)
  BY ItemType DEF LinkInv
<1> HIDE DEF r
<1>3. Kept(w, r) /\ Placed(w, r) /\ Backed(w, i)
  BY <1>1, <1>2 DEF r, WorkItem, Kept, Placed, Backed, Evident,
     Recovered, LetThrough
<1> QED BY <1>1, <1>3 DEF Replaces, Good, r

(* A prompt moves only an item whose findings are parsed. *)
LEMMA AttachRepairPromptGood ==
    ASSUME IInv, LinkInv, NEW i \in DOMAIN items, AttachRepairPrompt(i) PROVE Replaces(i)
<1>1. Update(i, [items[i] EXCEPT
            !.prompt = {i},
            !.status = IF @ = "findings_parsed" THEN "repair_prompt_generated" ELSE @])
  BY DEF AttachRepairPrompt
<1> DEFINE r == items[i]
           w == [items[i] EXCEPT
            !.prompt = {i},
            !.status = IF @ = "findings_parsed" THEN "repair_prompt_generated" ELSE @]
<1>2. r \in WorkItem /\ Backed(r, i)
  BY ItemType DEF LinkInv
<1> HIDE DEF r
<1>3. Kept(w, r) /\ Placed(w, r) /\ Backed(w, i)
  BY <1>1, <1>2 DEF r, WorkItem, Kept, Placed, Backed, Evident,
     Recovered, LetThrough
<1> QED BY <1>1, <1>3 DEF Replaces, Good, r

(* Gating links its decision, which no other link rests on. *)
LEMMA ApplyGatingGood ==
    ASSUME IInv, LinkInv, NEW i \in DOMAIN items, ApplyGating(i) PROVE Replaces(i)
<1>1. PICK approval \in BOOLEAN :
        Update(i, [items[i] EXCEPT
            !.status = GatingDecision(i, approval),
            !.gating = {[of |-> i, is |-> GatingDecision(i, approval),
                         approved |-> approval]}])
  BY DEF ApplyGating
<1> DEFINE r == items[i]
           d == GatingDecision(i, approval)
           g == [of |-> i, is |-> d, approved |-> approval]
           w == [items[i] EXCEPT !.status = d, !.gating = {g}]
<1>2. r \in WorkItem /\ Backed(r, i)
  BY ItemType DEF LinkInv
<1>4. /\ d \in {"blocked", "approval_required", "runnable"}
      /\ d = "runnable" => /\ ~(r.gen > MaxGeneration)
                           /\ r.risk = "high" => approval
  BY DEF GatingDecision
<1>5. r.gen \in Nat /\ MaxGeneration \in Nat
  BY <1>2, QueueConstants DEF WorkItem
<1>6. Update(i, w)
  BY <1>1
<1>7. g.of = i /\ g.is = d /\ g.approved = approval
  OBVIOUS
<1> HIDE DEF r, d, g
<1>8. /\ w.gating = {g} /\ w.status = d /\ w.gen = r.gen /\ w.risk = r.risk
      /\ w.exec = r.exec /\ w.recovery = r.recovery
  BY <1>2 DEF r, WorkItem
<1>9. d = "runnable" => LetThrough(w, i)
  BY <1>4, <1>5, <1>7, <1>8 DEF LetThrough
<1>3. Kept(w, r) /\ Placed(w, r) /\ Backed(w, i)
  BY <1>2, <1>4, <1>8, <1>9 DEF r, WorkItem, Kept, Placed, Backed, Evident,
     Recovered
<1> QED BY <1>3, <1>6 DEF Replaces, Good, r

(* Entering execution replaces no link. *)
LEMMA EnterExecutionGood ==
    ASSUME IInv, LinkInv, NEW i \in DOMAIN items, EnterExecution(i) PROVE Replaces(i)
<1>1. Update(i, [[items[i] EXCEPT !.runs = @ + 1] EXCEPT !.status = "executing"])
  BY DEF EnterExecution, MoveTo
<1> DEFINE r == items[i]
           w == [[items[i] EXCEPT !.runs = @ + 1] EXCEPT !.status = "executing"]
<1>2. r \in WorkItem /\ Backed(r, i)
  BY ItemType DEF LinkInv
<1>4. r.status = "runnable" /\ r.exec = {}
  BY <1>2 DEF EnterExecution, MoveTo, Legal, AllowedTransitions, WorkItem, Status
<1> HIDE DEF r
<1>3. Kept(w, r) /\ Placed(w, r) /\ Backed(w, i)
  BY <1>1, <1>2, <1>4 DEF r, WorkItem, Kept, Placed, Backed, Evident,
     Recovered, LetThrough
<1> QED BY <1>1, <1>3 DEF Replaces, Good, r

(* An execution ends with a result of its own, where there was none. *)
LEMMA FinalizeExecutionGood ==
    ASSUME IInv, LinkInv, NEW i \in DOMAIN items, FinalizeExecution(i) PROVE Replaces(i)
<1>1. PICK status \in {"success", "failure"} :
        Update(i, [[items[i] EXCEPT
                      !.exec = {[of |-> i, is |-> status,
                                 prompt |-> ExecutedPrompt(items[i])]}]
                   EXCEPT !.status = IF status = "success" THEN "executed_success"
                                     ELSE "executed_failure"])
  BY DEF FinalizeExecution, MoveTo
<1> DEFINE r == items[i]
           w == [[items[i] EXCEPT
                      !.exec = {[of |-> i, is |-> status,
                                 prompt |-> ExecutedPrompt(items[i])]}]
                 EXCEPT !.status = IF status = "success" THEN "executed_success"
                                   ELSE "executed_failure"]
<1>2. r \in WorkItem /\ Backed(r, i)
  BY ItemType DEF LinkInv
<1>4. r.exec = {}
  BY DEF FinalizeExecution
<1> HIDE DEF r
<1>3. Kept(w, r) /\ Placed(w, r) /\ Backed(w, i)
  BY <1>1, <1>2, <1>4 DEF r, WorkItem, Kept, Placed, Backed, Evident,
     Recovered, LetThrough, Says, OwnedBy
<1> QED BY <1>1, <1>3 DEF Replaces, Good, r

(* A post-execution decision rests on the result it is about. *)
LEMMA ApplyPostExecutionGood ==
    ASSUME IInv, LinkInv, NEW i \in DOMAIN items, ApplyPostExecution(i)
    PROVE  Replaces(i)
<1> DEFINE r == items[i]
           d == PostExecutionDecision(i)
           v == Decided(i, d)
           w == [[items[i] EXCEPT !.post = v] EXCEPT !.status = d]
<1>1. Update(i, w)
  BY DEF ApplyPostExecution, MoveTo
<1>2. r \in WorkItem /\ Backed(r, i)
  BY ItemType DEF LinkInv
<1>4. /\ d \in {"complete", "review_required", "reentry_blocked"}
      /\ d = "complete" => Says(r.exec, "success")
  BY DEF PostExecutionDecision
<1> HIDE DEF r, d
<1>5. \A p \in v : p.is = d
  BY DEF Decided
<1>6. Says(v, d)
  BY DEF Decided, Says
<1>7. Says(v, "complete") => d = "complete"
  BY <1>5 DEF Says
<1> HIDE DEF v
<1>3. Kept(w, r) /\ Placed(w, r) /\ Backed(w, i)
  BY <1>2, <1>4, <1>5, <1>6, <1>7 DEF r, WorkItem, Kept, Placed, Backed, Evident,
     Recovered, LetThrough
<1> QED BY <1>1, <1>3 DEF Replaces, Good, r

(* A loop-control decision moves the item to the status it names. *)
LEMMA ApplyLoopControlGood ==
    ASSUME IInv, LinkInv, NEW i \in DOMAIN items, ApplyLoopControl(i) PROVE Replaces(i)
<1>1. Update(i, [[items[i] EXCEPT !.loopControl = Decided(i, LoopAction(i))]
                   EXCEPT !.status = LoopTarget[LoopAction(i)]])
  BY DEF ApplyLoopControl, MoveTo
<1> DEFINE r == items[i]
           w == [[items[i] EXCEPT !.loopControl = Decided(i, LoopAction(i))]
                 EXCEPT !.status = LoopTarget[LoopAction(i)]]
<1>2. r \in WorkItem /\ Backed(r, i)
  BY ItemType DEF LinkInv
<1>4. \/ LoopTarget[LoopAction(i)] \in {"reentry_eligible", "blocked"}
      \/ LoopTarget[LoopAction(i)] = "review_required"
         /\ LoopAction(i) = "require_review"
  BY DEF LoopTarget, LoopAction
<1> HIDE DEF r
<1>3. Kept(w, r) /\ Placed(w, r) /\ Backed(w, i)
  BY <1>1, <1>2, <1>4 DEF r, WorkItem, Kept, Placed, Backed, Evident,
     Recovered, LetThrough, Decided, Says
<1> QED BY <1>1, <1>3 DEF Replaces, Good, r

(* A refused invocation blocks the item and replaces no link. *)
LEMMA RefuseInvocationGood ==
    ASSUME IInv, LinkInv, NEW i \in DOMAIN items, RefuseInvocation(i) PROVE Replaces(i)
<1>1. Update(i, [items[i] EXCEPT !.status = "blocked"])
  BY DEF RefuseInvocation, MoveTo
<1> DEFINE r == items[i]
           w == [items[i] EXCEPT !.status = "blocked"]
<1>2. r \in WorkItem /\ Backed(r, i)
  BY ItemType DEF LinkInv
<1> HIDE DEF r
<1>3. Kept(w, r) /\ Placed(w, r) /\ Backed(w, i)
  BY <1>1, <1>2 DEF r, WorkItem, Kept, Placed, Backed, Evident,
     Recovered, LetThrough
<1> QED BY <1>1, <1>3 DEF Replaces, Good, r

(* A provider is asked for items with a trigger and without an answer. *)
LEMMA InvokeAnsweredGood ==
    ASSUME IInv, LinkInv, NEW i \in DOMAIN items, InvokeAnswered(i) PROVE Replaces(i)
<1>1. PICK outcome \in Outcomes \cap DOMAIN StatusAfter :
        Update(i, [items[i] EXCEPT
               !.answers    = @ + 1,
               !.status     = StatusAfter[outcome],
               !.invocation = IF outcome \in Linking
                              THEN Decided(i, "success") ELSE @])
  BY DEF InvokeAnswered
<1> DEFINE r == items[i]
           w == [items[i] EXCEPT
               !.answers    = @ + 1,
               !.status     = StatusAfter[outcome],
               !.invocation = IF outcome \in Linking
                              THEN Decided(i, "success") ELSE @]
<1>2. r \in WorkItem /\ Backed(r, i)
  BY ItemType DEF LinkInv
<1>4. r.invocation = {} /\ OwnedBy(r.trigger, i)
  BY DEF InvokeAnswered, MayInvoke
<1>5. \/ StatusAfter[outcome] \in {"review_triggered", "review_invoking", "blocked"}
      \/ StatusAfter[outcome] = "review_invocation_succeeded" /\ outcome \in Linking
  BY DEF StatusAfter, Linking
<1> HIDE DEF r
<1>3. Kept(w, r) /\ Placed(w, r) /\ Backed(w, i)
  BY <1>1, <1>2, <1>4, <1>5 DEF r, WorkItem, Kept, Placed, Backed, Evident,
     Recovered, LetThrough, Decided, OwnedBy
<1> QED BY <1>1, <1>3 DEF Replaces, Good, r

(* An invocation that failed had a trigger of its own. *)
LEMMA InvokeFailedGood ==
    ASSUME IInv, LinkInv, NEW i \in DOMAIN items, InvokeFailed(i) PROVE Replaces(i)
<1>1. Update(i, [items[i] EXCEPT !.status = "review_invocation_failed"])
  BY DEF InvokeFailed
<1> DEFINE r == items[i]
           w == [items[i] EXCEPT !.status = "review_invocation_failed"]
<1>2. r \in WorkItem /\ Backed(r, i)
  BY ItemType DEF LinkInv
<1>4. OwnedBy(r.trigger, i)
  BY DEF InvokeFailed, MayInvoke
<1> HIDE DEF r
<1>3. Kept(w, r) /\ Placed(w, r) /\ Backed(w, i)
  BY <1>1, <1>2, <1>4 DEF r, WorkItem, Kept, Placed, Backed, Evident,
     Recovered, LetThrough
<1> QED BY <1>1, <1>3 DEF Replaces, Good, r

(* A handoff follows an answer. *)
LEMMA HandoffGood ==
    ASSUME IInv, LinkInv, NEW i \in DOMAIN items, Handoff(i) PROVE Replaces(i)
<1>1. PICK verdict \in {"PASS", "FAIL"} :
        Update(i, [[items[i] EXCEPT !.findings = {verdict},
                                    !.handoff = Decided(i, "completed")]
                   EXCEPT !.status = "findings_parsed"])
  BY DEF Handoff, MoveTo
<1> DEFINE r == items[i]
           w == [[items[i] EXCEPT !.findings = {verdict},
                                    !.handoff = Decided(i, "completed")]
                 EXCEPT !.status = "findings_parsed"]
<1>2. r \in WorkItem /\ Backed(r, i)
  BY ItemType DEF LinkInv
<1>4. r.handoff = {} /\ r.invocation # {}
  BY DEF Handoff, OwnedBy
<1> HIDE DEF r
<1>3. Kept(w, r) /\ Placed(w, r) /\ Backed(w, i)
  BY <1>1, <1>2, <1>4 DEF r, WorkItem, Kept, Placed, Backed, Evident,
     Recovered, LetThrough
<1> QED BY <1>1, <1>3 DEF Replaces, Good, r

(* Findings re-enter once. *)
LEMMA ReenterFindingsGood ==
    ASSUME IInv, LinkInv, NEW i \in DOMAIN items, ReenterFindings(i) PROVE Replaces(i)
<1>1. Update(i, [[items[i] EXCEPT !.prompt = {i},
                                    !.reentry = Decided(i, "completed")]
                   EXCEPT !.status = "repair_prompt_generated"])
  BY DEF ReenterFindings, MoveTo
<1> DEFINE r == items[i]
           w == [[items[i] EXCEPT !.prompt = {i},
                                    !.reentry = Decided(i, "completed")]
                 EXCEPT !.status = "repair_prompt_generated"]
<1>2. r \in WorkItem /\ Backed(r, i)
  BY ItemType DEF LinkInv
<1>4. r.reentry = {}
  BY DEF ReenterFindings
<1> HIDE DEF r
<1>3. Kept(w, r) /\ Placed(w, r) /\ Backed(w, i)
  BY <1>1, <1>2, <1>4 DEF r, WorkItem, Kept, Placed, Backed, Evident,
     Recovered, LetThrough
<1> QED BY <1>1, <1>3 DEF Replaces, Good, r

(* A retry leads back to a trigger only where there was one. *)
LEMMA ApplyRetryGood ==
    ASSUME IInv, LinkInv, NEW i \in DOMAIN items, ApplyRetry(i) PROVE Replaces(i)
<1>1. PICK reason \in RetryRequests, vouched \in BOOLEAN :
        LET d == RetryDecision(i, reason, vouched)
        IN  /\ items[i].retry = {}
            /\ Update(i, [items[i] EXCEPT
                   !.retry   = Decided(i, d),
                   !.status  = IF d = "retry_allowed" THEN RetryTarget[@] ELSE @,
                   !.retries = IF d = "retry_allowed" THEN @ + 1 ELSE @])
  BY DEF ApplyRetry
<1> DEFINE d == RetryDecision(i, reason, vouched)
<1> DEFINE r == items[i]
           w == [items[i] EXCEPT
                   !.retry   = Decided(i, d),
                   !.status  = IF d = "retry_allowed" THEN RetryTarget[@] ELSE @,
                   !.retries = IF d = "retry_allowed" THEN @ + 1 ELSE @]
<1>2. r \in WorkItem /\ Backed(r, i)
  BY ItemType DEF LinkInv
<1>4. d = "retry_allowed" =>
        \/ RetryTarget[r.status] = "runnable" /\ r.exec # {}
        \/ /\ RetryTarget[r.status] = "review_triggered"
           /\ r.status \in {"review_invocation_failed", "review_provider_failed"}
  BY DEF RetryDecision, RetryTarget
<1>5. r.retry = {}
  BY <1>1
<1>6. Update(i, w)
  BY <1>1
<1> HIDE DEF d
<1> HIDE DEF r
<1>3. Kept(w, r) /\ Placed(w, r) /\ Backed(w, i)
  BY <1>2, <1>4, <1>5 DEF r, WorkItem, Kept, Placed, Backed, Evident,
     Recovered, LetThrough
<1> QED BY <1>6, <1>3 DEF Replaces, Good, r

(* A recovery records where it puts the item. *)
LEMMA RecoverGood ==
    ASSUME IInv, LinkInv, NEW i \in DOMAIN items, Recover(i) PROVE Replaces(i)
<1>1. PICK prior \in PriorStates \cup {"blocked"} :
        Update(i, [items[i] EXCEPT
               !.status   = prior,
               !.recovery = Decided(i, IF prior = "blocked" THEN "no_action"
                                       ELSE "return_to_prior_state")])
  BY DEF Recover
<1> DEFINE r == items[i]
           w == [items[i] EXCEPT
               !.status   = prior,
               !.recovery = Decided(i, IF prior = "blocked" THEN "no_action"
                                       ELSE "return_to_prior_state")]
<1>2. r \in WorkItem /\ Backed(r, i)
  BY ItemType DEF LinkInv
<1>4. r.recovery = {}
  BY DEF Recover
<1>5. prior \in {"queued", "review_queued", "review_triggered", "execution_gated",
                "approval_required", "runnable", "blocked"}
  BY QueueConstants
<1> HIDE DEF r
<1>3. Kept(w, r) /\ Placed(w, r) /\ Backed(w, i)
  BY <1>1, <1>2, <1>4, <1>5 DEF r, WorkItem, Kept, Placed, Backed, Evident,
     Recovered, LetThrough, Decided, Says
<1> QED BY <1>1, <1>3 DEF Replaces, Good, r

----------------------------------------------------------------------------
(* Calls that add a child                                                   *)

(* What it takes to add a child.                                            *)
LEMMA AddsIntro ==
    ASSUME NEW i, NEW w, NEW child, NEW kind \in Kind,
           Good(w, i), Fresh(child, i, kind),
           Child(i, kind) \notin DOMAIN items,
           Spawn(i, w, kind, child)
    PROVE  Adds(i)
<1> SUFFICES \E w1, child1, kind1 :
        /\ kind1 \in Kind
        /\ Good(w1, i)
        /\ Fresh(child1, i, kind1)
        /\ Child(i, kind1) \notin DOMAIN items
        /\ Spawn(i, w1, kind1, child1)
  BY Zenon DEF Adds
<1> WITNESS w, child, kind
<1> QED OBVIOUS

(* A child its parent does not list is not in the queue.                    *)
LEMMA Unlisted ==
    ASSUME IInv, LinkInv, NEW i \in DOMAIN items, NEW kind \in Kind,
           Child(i, kind) \notin items[i].children
    PROVE  Child(i, kind) \notin DOMAIN items
  BY ItemType, ChildName DEF LinkInv, ChildrenLinked, LinkedUp

(* A repair child counts one up and starts with no decision.                *)
LEMMA RepairChildFresh ==
    ASSUME IInv, LinkInv, NEW i \in DOMAIN items, NEW source
    PROVE  Fresh(RepairChild(items[i], source), i, "repair")
<1>0. /\ items[i].count <= items[i].gen
      /\ items[i].count \in Nat /\ items[i].gen \in Nat
  BY ItemType DEF LinkInv, Backed, WorkItem
<1>1. Backed(RepairChild(items[i], source), Child(i, "repair"))
  BY <1>0 DEF RepairChild, NewItem, Backed, Evident, Says
<1>2. LET child == RepairChild(items[i], source)
      IN  /\ child.children = {}
          /\ child.count = items[i].count + 1
          /\ child.gen = items[i].gen + 1
  BY DEF RepairChild, NewItem
<1> QED BY <1>1, <1>2 DEF Fresh

(* A next-step child inherits a success together with the decision on it.   *)
LEMMA NextStepChildFresh ==
    ASSUME IInv, LinkInv, NEW i \in DOMAIN items, NEW kind \in {"review", "reentry"}
    PROVE  Fresh(NextStepChild(i), i, kind)
<1> DEFINE r == items[i]
<1>1. Backed(r, i)
  BY DEF LinkInv
<1>2. LET child == NextStepChild(i)
      IN  /\ child.children = {} /\ child.status = "queued"
          /\ child.exec = r.exec /\ child.post = r.post /\ child.handoff = {}
          /\ child.count = 0 /\ child.gen = r.gen + 1
  BY DEF NextStepChild, NewItem
<1>4. r.gen \in Nat
  BY ItemType DEF WorkItem
<1> HIDE DEF r
<1>3. Backed(NextStepChild(i), Child(i, kind))
  BY <1>1, <1>2, <1>4 DEF Backed, Evident
<1> QED BY <1>2, <1>3 DEF Fresh

(* So does a review child.                                                  *)
LEMMA ReviewChildFresh ==
    ASSUME IInv, LinkInv, NEW i \in DOMAIN items
    PROVE  Fresh(ReviewChild(i), i, "review")
<1> DEFINE r == items[i]
<1>1. Backed(r, i)
  BY DEF LinkInv
<1>2. LET child == ReviewChild(i)
      IN  /\ child.children = {} /\ child.status = "review_queued"
          /\ child.exec = r.exec /\ child.post = r.post /\ child.handoff = {}
          /\ child.count = r.count /\ child.gen = r.gen
  BY DEF ReviewChild, NewItem
<1> HIDE DEF r
<1>3. Backed(ReviewChild(i), Child(i, "review"))
  BY <1>1, <1>2 DEF Backed, Evident
<1> QED BY <1>2, <1>3 DEF Fresh

(* Spawning a repair child moves the parent and replaces no link.           *)
LEMMA SpawnRepairChildGood ==
    ASSUME IInv, LinkInv, NEW i \in DOMAIN items, SpawnRepairChild(i)
    PROVE  Adds(i)
<1> DEFINE r == items[i]
           w == [items[i] EXCEPT !.status = "repair_child_created"]
<1>1. Spawn(i, w, "repair", RepairChild(r, i))
  BY DEF SpawnRepairChild
<1>2. r \in WorkItem /\ Backed(r, i)
  BY ItemType DEF LinkInv
<1>3. Child(i, "repair") \notin DOMAIN items /\ "repair" \in Kind
  BY Unlisted DEF SpawnRepairChild, MaySpawnRepairChild, Kind
<1>4. Fresh(RepairChild(r, i), i, "repair")
  BY RepairChildFresh
<1> HIDE DEF r
<1>5. Kept(w, r) /\ Placed(w, r) /\ Backed(w, i)
  BY <1>2 DEF r, WorkItem, Kept, Placed, Backed, Evident,
     Recovered, LetThrough
<1> HIDE DEF w
<1>6. Good(w, i)
  BY <1>5 DEF Good, r
<1> QED BY <1>1, <1>3, <1>4, <1>6, AddsIntro

(* A continuation is recorded once, with the child or without one.          *)
LEMMA ContinueLoopGood ==
    ASSUME IInv, LinkInv, NEW i \in DOMAIN items, ContinueLoop(i)
    PROVE  Replaces(i) \/ Adds(i)
<1> DEFINE r == items[i]
           w == [items[i] EXCEPT !.status = "repair_child_created",
                                 !.continuation = Decided(i, "child_spawned")]
           x == [items[i] EXCEPT
                   !.continuation = Decided(i, "continuation_blocked")]
<1>1. \/ Spawn(i, w, "repair", RepairChild(r, i)) /\ MaySpawnRepairChild(i)
      \/ Update(i, x)
  BY DEF ContinueLoop
<1>2. r \in WorkItem /\ Backed(r, i) /\ r.continuation = {}
  BY ItemType DEF LinkInv, ContinueLoop
<1>3. CASE Spawn(i, w, "repair", RepairChild(r, i)) /\ MaySpawnRepairChild(i)
  <2>1. Child(i, "repair") \notin DOMAIN items /\ "repair" \in Kind
    BY <1>3, Unlisted DEF MaySpawnRepairChild, Kind
  <2>2. Fresh(RepairChild(r, i), i, "repair")
    BY RepairChildFresh
  <2>3. Kept(w, r) /\ Placed(w, r) /\ Backed(w, i)
    BY <1>2 DEF WorkItem, Kept, Placed, Backed, Evident,
     Recovered, LetThrough
  <2>4. Good(w, i)
    BY <2>3 DEF Good
  <2> HIDE DEF w, r
  <2> QED BY <1>3, <2>1, <2>2, <2>4, AddsIntro
<1>4. CASE Update(i, x)
  <2>1. Kept(x, r) /\ Placed(x, r) /\ Backed(x, i)
    BY <1>2 DEF WorkItem, Kept, Placed, Backed, Evident,
     Recovered, LetThrough
  <2> QED BY <1>4, <2>1 DEF Replaces, Good
<1> QED BY <1>1, <1>3, <1>4

(* A next step takes the item to a status its decision names.               *)
LEMMA ApplyNextStepGood ==
    ASSUME IInv, LinkInv, NEW i \in DOMAIN items, ApplyNextStep(i)
    PROVE  Replaces(i) \/ Adds(i)
<1> DEFINE r == items[i]
<1>2. r \in WorkItem /\ Backed(r, i)
  BY ItemType DEF LinkInv
<1>1. PICK p \in r.post :
          LET w == [items[i] EXCEPT !.status = p.is,
                                    !.nextStep = Decided(i, p.is)]
          IN  IF p.is \in DOMAIN NextStepKind
              THEN /\ Child(i, NextStepKind[p.is]) \notin DOMAIN items
                   /\ Spawn(i, w, NextStepKind[p.is], NextStepChild(i))
              ELSE Update(i, w)
  BY DEF ApplyNextStep
<1> DEFINE d == p.is
           w == [items[i] EXCEPT !.status = d, !.nextStep = Decided(i, d)]
<1>3. /\ d \in {"complete", "review_required", "reentry_blocked",
                "reentry_eligible"}
      /\ Says(r.post, d)
      /\ d = "complete" => Says(r.exec, "success")
  BY <1>2 DEF Backed, Says
<1>4. \/ /\ d \in DOMAIN NextStepKind
         /\ Child(i, NextStepKind[d]) \notin DOMAIN items
         /\ Spawn(i, w, NextStepKind[d], NextStepChild(i))
      \/ Update(i, w)
  BY <1>1
<1> HIDE DEF d
<1>5. Kept(w, r) /\ Placed(w, r) /\ Backed(w, i)
  BY <1>2, <1>3 DEF WorkItem, Kept, Placed, Backed, Evident,
     Recovered, LetThrough
<1>6. Good(w, i)
  BY <1>5 DEF Good
<1> HIDE DEF w, r
<1>7. CASE Update(i, w)
  BY <1>6, <1>7 DEF Replaces
<1>8. CASE /\ d \in DOMAIN NextStepKind
           /\ Child(i, NextStepKind[d]) \notin DOMAIN items
           /\ Spawn(i, w, NextStepKind[d], NextStepChild(i))
  <2>1. NextStepKind[d] \in {"review", "reentry"}
    BY <1>8 DEF NextStepKind
  <2>2. Fresh(NextStepChild(i), i, NextStepKind[d]) /\ NextStepKind[d] \in Kind
    BY <2>1, NextStepChildFresh DEF Kind
  <2> QED BY <1>6, <1>8, <2>2, AddsIntro
<1> QED BY <1>4, <1>7, <1>8

(* A trigger is linked once, with the status that reports it.               *)
LEMMA ApplyReviewTriggerGood ==
    ASSUME IInv, LinkInv, NEW i \in DOMAIN items, ApplyReviewTrigger(i)
    PROVE  Replaces(i) \/ Adds(i)
<1> DEFINE r == items[i]
           d == TriggerDecision(i)
           v == Decided(i, d)
           x == [items[i] EXCEPT !.trigger = v]
           y == [x EXCEPT !.status = "blocked"]
           w == [x EXCEPT !.status = "review_triggered"]
<1>1. \/ Update(i, x)
      \/ Update(i, y)
      \/ Child(i, "review") \notin DOMAIN items
         /\ Spawn(i, w, "review", ReviewChild(i))
  BY DEF ApplyReviewTrigger, MoveTo
<1>2. r \in WorkItem /\ Backed(r, i) /\ r.trigger = {}
  BY ItemType DEF LinkInv, ApplyReviewTrigger
<1>3. OwnedBy(v, i)
  BY DEF Decided, OwnedBy
<1>4. ~OwnedBy({}, i)
  BY DEF OwnedBy
<1> HIDE DEF r, d, v
<1>5. /\ Kept(x, r) /\ Placed(x, r) /\ Backed(x, i)
      /\ Kept(y, r) /\ Placed(y, r) /\ Backed(y, i)
      /\ Kept(w, r) /\ Placed(w, r) /\ Backed(w, i)
  BY <1>2, <1>3, <1>4 DEF r, WorkItem, Kept, Placed, Backed, Evident,
     Recovered, LetThrough
<1>6. Good(x, i) /\ Good(y, i) /\ Good(w, i)
  BY <1>5 DEF Good, r
<1> HIDE DEF x, y, w
<1>7. Fresh(ReviewChild(i), i, "review") /\ "review" \in Kind
  BY ReviewChildFresh DEF Kind
<1> QED BY <1>1, <1>6, <1>7, AddsIntro DEF Replaces

(* Every call replaces one item by a good one, or adds a child to it too.   *)
LEMMA EveryCallGood ==
    ASSUME IInv, LinkInv, Next
    PROVE  \E i \in DOMAIN items : Replaces(i) \/ Adds(i)
<1>1. ASSUME NEW i \in DOMAIN items,
             \/ Review(i) \/ AttachFindings(i) \/ AttachRepairPrompt(i)
             \/ SpawnRepairChild(i) \/ ApplyGating(i) \/ EnterExecution(i)
             \/ FinalizeExecution(i) \/ ApplyPostExecution(i)
      PROVE  Replaces(i) \/ Adds(i)
  BY <1>1, ReviewGood, AttachFindingsGood, AttachRepairPromptGood,
     SpawnRepairChildGood, ApplyGatingGood, EnterExecutionGood,
     FinalizeExecutionGood, ApplyPostExecutionGood
<1>2. ASSUME NEW i \in DOMAIN items,
             \/ ApplyLoopControl(i) \/ ApplyNextStep(i) \/ ApplyReviewTrigger(i)
             \/ RefuseInvocation(i) \/ InvokeAnswered(i) \/ InvokeFailed(i)
             \/ Handoff(i) \/ ReenterFindings(i) \/ ContinueLoop(i)
             \/ ApplyRetry(i) \/ Recover(i)
      PROVE  Replaces(i) \/ Adds(i)
  BY <1>2, ApplyLoopControlGood, ApplyNextStepGood, ApplyReviewTriggerGood,
     RefuseInvocationGood, InvokeAnsweredGood, InvokeFailedGood, HandoffGood,
     ReenterFindingsGood, ContinueLoopGood, ApplyRetryGood, RecoverGood
<1> QED BY <1>1, <1>2 DEF Next

----------------------------------------------------------------------------
(* The invariant                                                            *)

(* Replacing one item by a good one keeps names, generations and evidence.  *)
LEMMA ReplacesKeeps ==
    ASSUME IInv, LinkInv, NEW i \in DOMAIN items, Replaces(i)
    PROVE  LinkInv'
<1>1. PICK w : Good(w, i) /\ Update(i, w)
  BY DEF Replaces
<1>2. /\ DOMAIN items' = DOMAIN items
      /\ \A j \in DOMAIN items : items'[j] = IF j = i THEN w ELSE items[j]
  BY <1>1 DEF Update, IInv, TypeOK, IsQueue
<1>3. \A j \in DOMAIN items : /\ items'[j].children = items[j].children
                             /\ items'[j].count = items[j].count
                             /\ items'[j].gen = items[j].gen
                             /\ Backed(items'[j], j)
  BY <1>1, <1>2 DEF Good, Placed, LinkInv
<1>4. ChildrenLinked'
  BY <1>2, <1>3 DEF LinkInv, ChildrenLinked, LinkedUp
<1>5. RepairChildrenCountUp'
  BY <1>2, <1>3 DEF LinkInv, RepairChildrenCountUp, CountedUp, ChildrenLinked, LinkedUp
<1> QED BY <1>2, <1>3, <1>4, <1>5 DEF LinkInv

(* What the queue holds after a child was added.                            *)
LEMMA AddsEffect ==
    ASSUME IInv, LinkInv, NEW i \in DOMAIN items, Adds(i)
    PROVE  \E w, child, kind :
             LET c == Child(i, kind)
             IN  /\ kind \in Kind /\ Good(w, i) /\ Fresh(child, i, kind)
                 /\ c \notin DOMAIN items
                 /\ DOMAIN items' = DOMAIN items \cup {c}
                 /\ items'[c] = child
                 /\ items'[i] = [w EXCEPT !.children = @ \cup {c}]
                 /\ \A j \in DOMAIN items : j # i => items'[j] = items[j]
<1>1. PICK w, child, kind :
        /\ kind \in Kind /\ Good(w, i) /\ Fresh(child, i, kind)
        /\ Child(i, kind) \notin DOMAIN items
        /\ Spawn(i, w, kind, child)
  BY DEF Adds
<1> DEFINE c == Child(i, kind)
<1>2. items' = [j \in DOMAIN items \cup {c} |->
                  IF j = c THEN child
                  ELSE IF j = i THEN [w EXCEPT !.children = @ \cup {c}]
                  ELSE items[j]]
  BY <1>1 DEF Spawn
<1> HIDE DEF c
<1>3. c # i /\ c \notin DOMAIN items
  BY <1>1 DEF c
<1>4. /\ DOMAIN items' = DOMAIN items \cup {c}
      /\ items'[c] = child
      /\ items'[i] = [w EXCEPT !.children = @ \cup {c}]
      /\ \A j \in DOMAIN items : j # i => items'[j] = items[j]
  BY <1>2, <1>3
<1> QED BY <1>1, <1>3, <1>4 DEF c

(* Evidence is no matter of the list of children.                           *)
LEMMA BackedUnlisted ==
    ASSUME NEW r \in WorkItem, NEW w, DOMAIN w = DOMAIN r, NEW i, NEW S,
           Backed(w, i)
    PROVE  LET x == [w EXCEPT !.children = @ \cup S]
           IN  /\ Backed(x, i) /\ x.children = w.children \cup S
               /\ x.count = w.count /\ x.gen = w.gen
               /\ x.exec = w.exec /\ x.trigger = w.trigger
               /\ x.invocation = w.invocation /\ x.answers = w.answers
               /\ x.handoff = w.handoff /\ x.reentry = w.reentry
               /\ x.continuation = w.continuation /\ x.retry = w.retry
               /\ x.recovery = w.recovery /\ x.runs = w.runs
  BY DEF WorkItem, Backed, Evident, Recovered, LetThrough

(* Adding a child keeps names, generations and evidence.                    *)
LEMMA AddsKeeps ==
    ASSUME IInv, LinkInv, NEW i \in DOMAIN items, Adds(i)
    PROVE  LinkInv'
<1>1. PICK w, child, kind :
        LET c == Child(i, kind)
        IN  /\ kind \in Kind /\ Good(w, i) /\ Fresh(child, i, kind)
            /\ c \notin DOMAIN items
            /\ DOMAIN items' = DOMAIN items \cup {c}
            /\ items'[c] = child
            /\ items'[i] = [w EXCEPT !.children = @ \cup {c}]
            /\ \A j \in DOMAIN items : j # i => items'[j] = items[j]
  BY AddsEffect
<1> DEFINE c == Child(i, kind)
<1>2. /\ c # Root /\ HasParent(c) /\ Parent(c) = i /\ c[Len(c)] = kind /\ c # i
  BY <1>1, ItemType, ChildName DEF HasParent
<1>3. /\ DOMAIN items' = DOMAIN items \cup {c} /\ c \notin DOMAIN items
      /\ \A j \in DOMAIN items : j # i => items'[j] = items[j]
      /\ items'[c] = child /\ Fresh(child, i, kind)
      /\ items'[i] = [w EXCEPT !.children = @ \cup {c}] /\ Good(w, i)
  BY <1>1
<1>4. /\ Backed(items'[i], i)
      /\ items'[i].children = items[i].children \cup {c}
      /\ items'[i].count = items[i].count
      /\ items'[i].gen = items[i].gen
  BY <1>3, ItemType, BackedUnlisted DEF Good, Placed
<1>5. /\ Backed(items'[c], c) /\ items'[c].children = {}
      /\ kind = "repair" => /\ items'[c].count = items[i].count + 1
                            /\ items'[c].gen = items[i].gen + 1
  BY <1>3 DEF Fresh
<1>6. \A j \in DOMAIN items :
          /\ items'[j].children = items[j].children \cup (IF j = i THEN {c} ELSE {})
          /\ items'[j].count = items[j].count
          /\ items'[j].gen = items[j].gen
          /\ Backed(items'[j], j)
  BY <1>3, <1>4 DEF LinkInv
<1> HIDE DEF c
<1>7. \A j \in DOMAIN items : /\ HasParent(j) => Parent(j) \in DOMAIN items
                             /\ items[j].children = {k \in DOMAIN items :
                                       HasParent(k) /\ Parent(k) = j}
  BY DEF LinkInv, ChildrenLinked, LinkedUp
<1>8. ChildrenLinked'
  <2>1. ASSUME NEW j \in DOMAIN items'
        PROVE  /\ HasParent(j) => Parent(j) \in DOMAIN items'
               /\ items'[j].children = {k \in DOMAIN items' :
                                          HasParent(k) /\ Parent(k) = j}
    <3>1. CASE j = c
      BY <1>2, <1>3, <1>5, <1>7, <3>1
    <3>2. CASE j \in DOMAIN items
      BY <1>2, <1>3, <1>6, <1>7, <3>2
    <3> QED BY <1>3, <2>1, <3>1, <3>2
  <2> QED BY <2>1 DEF ChildrenLinked, LinkedUp
<1>9. RepairChildrenCountUp'
  <2>1. ASSUME NEW j \in DOMAIN items', HasParent(j), j[Len(j)] = "repair"
        PROVE  /\ items'[j].count = items'[Parent(j)].count + 1
               /\ items'[j].gen = items'[Parent(j)].gen + 1
    <3>1. CASE j = c
      BY <1>2, <1>5, <1>6, <2>1, <3>1
    <3>2. CASE j \in DOMAIN items
      BY <1>6, <1>7, <2>1, <3>2 DEF LinkInv, RepairChildrenCountUp, CountedUp
    <3> QED BY <1>3, <2>1, <3>1, <3>2
  <2> QED BY <2>1 DEF RepairChildrenCountUp, CountedUp
<1>10. \A j \in DOMAIN items' : Backed(items'[j], j)
  BY <1>3, <1>5, <1>6
<1> QED BY <1>8, <1>9, <1>10 DEF LinkInv

(* Consistent queues start a history, and every call keeps them consistent. *)
THEOREM LinksHold == Spec => []LinkInv
<1>1. Init => LinkInv
  BY SeedsConsistent DEF Init, LinkInv, ChildrenLinked, RepairChildrenCountUp
<1>2. IInv /\ LinkInv /\ [Next]_items => LinkInv'
  <2> SUFFICES ASSUME IInv, LinkInv, [Next]_items PROVE LinkInv'
    OBVIOUS
  <2>1. CASE UNCHANGED items
    BY <2>1 DEF LinkInv, ChildrenLinked, RepairChildrenCountUp, LinkedUp,
       CountedUp, Backed, Evident
  <2>2. CASE Next
    BY <2>2, EveryCallGood, ReplacesKeeps, AddsKeeps
  <2> QED BY <2>1, <2>2
<1> QED BY <1>1, <1>2, Invariance, PTL DEF Spec

(* A spawn writes the parent's list and the queue: they never come apart.   *)
THEOREM ChildrenStayLinked == Spec => []ChildrenLinked
<1>1. LinkInv => ChildrenLinked
  BY DEF LinkInv
<1> QED BY <1>1, LinksHold, PTL

(* A repair child counts one generation more than its parent, for ever.     *)
THEOREM GenerationsCountUp == Spec => []RepairChildrenCountUp
<1>1. LinkInv => RepairChildrenCountUp
  BY DEF LinkInv
<1> QED BY <1>1, LinksHold, PTL

(* What gating lets run, loop control does not stop, and it allows what the *)
(* post-execution decision asks for: no item's count passes its generation. *)
THEOREM LimitsStayAgreed == Spec => []LimitsAgree
<1>1. IInv /\ LinkInv => LimitsAgree
  <2> SUFFICES ASSUME IInv, LinkInv, NEW i \in DOMAIN items
               PROVE  /\ (\E approval \in BOOLEAN :
                              GatingDecision(i, approval) = "runnable") =>
                             LoopAction(i) # "block_reentry"
                      /\ PostExecutionDecision(i) = "review_required" =>
                             LoopAction(i) = "allow_reentry"
    BY DEF LimitsAgree
  <2>1. /\ items[i].count <= items[i].gen
        /\ items[i].count \in Nat /\ items[i].gen \in Nat
        /\ MaxGeneration \in Nat
    BY ItemType, QueueConstants DEF LinkInv, Backed, WorkItem
  <2>2. ASSUME NEW approval \in BOOLEAN, GatingDecision(i, approval) = "runnable"
        PROVE  LoopAction(i) # "block_reentry"
    <3>1. ~(items[i].gen > MaxGeneration)
      BY <2>2 DEF GatingDecision
    <3> QED BY <2>1, <3>1 DEF LoopAction
  <2>3. ASSUME PostExecutionDecision(i) = "review_required"
        PROVE  LoopAction(i) = "allow_reentry"
    <3>1. ~(items[i].gen >= MaxGeneration)
      BY <2>3 DEF PostExecutionDecision
    <3> QED BY <2>1, <3>1 DEF LoopAction
  <2> QED BY <2>2, <2>3
<1> QED BY <1>1, LinksHold, Invariance, PTL

(* No order of the calls reports a status without what it rests on.         *)
THEOREM EvidenceStays == Spec => []StatusHasEvidence
<1>1. LinkInv => StatusHasEvidence
  BY DEF LinkInv, StatusHasEvidence, Backed
<1> QED BY <1>1, LinksHold, PTL

----------------------------------------------------------------------------
(* What no step may do                                                      *)

(* Whatever call is made, every item stays and keeps its links.             *)
LEMMA EveryItemKept ==
    ASSUME IInv, LinkInv, [Next]_items, NEW j \in DOMAIN items
    PROVE  j \in DOMAIN items' /\ Kept(items'[j], items[j])
<1>1. CASE UNCHANGED items
  BY <1>1 DEF Kept
<1>2. ASSUME NEW i \in DOMAIN items, Replaces(i)
      PROVE  j \in DOMAIN items' /\ Kept(items'[j], items[j])
  <2>1. PICK w : Good(w, i) /\ Update(i, w)
    BY <1>2 DEF Replaces
  <2>2. j \in DOMAIN items' /\ items'[j] = IF j = i THEN w ELSE items[j]
    BY <2>1 DEF Update, IInv, TypeOK, IsQueue
  <2> QED BY <2>1, <2>2 DEF Good, Kept
<1>3. ASSUME NEW i \in DOMAIN items, Adds(i)
      PROVE  j \in DOMAIN items' /\ Kept(items'[j], items[j])
  <2>1. PICK w, child, kind :
          LET c == Child(i, kind)
          IN  /\ kind \in Kind /\ Good(w, i) /\ Fresh(child, i, kind)
              /\ c \notin DOMAIN items
              /\ DOMAIN items' = DOMAIN items \cup {c}
              /\ items'[c] = child
              /\ items'[i] = [w EXCEPT !.children = @ \cup {c}]
              /\ \A k \in DOMAIN items : k # i => items'[k] = items[k]
    BY <1>3, AddsEffect
  <2>2. CASE j = i
    <3>1. /\ items'[i].exec = w.exec /\ items'[i].trigger = w.trigger
          /\ items'[i].invocation = w.invocation /\ items'[i].answers = w.answers
          /\ items'[i].handoff = w.handoff /\ items'[i].reentry = w.reentry
          /\ items'[i].continuation = w.continuation /\ items'[i].retry = w.retry
          /\ items'[i].recovery = w.recovery /\ items'[i].runs = w.runs
      BY <2>1, ItemType, BackedUnlisted DEF Good, Placed
    <3> QED BY <2>1, <2>2, <3>1 DEF Good, Kept
  <2>3. CASE j # i
    BY <2>1, <2>3 DEF Kept
  <2> QED BY <2>2, <2>3
<1> QED BY <1>1, <1>2, <1>3, EveryCallGood

(* However the calls are ordered, none replaces or drops a final link.      *)
THEOREM LinksStayFinal == Spec => LinksAreFinal
<1>1. IInv /\ LinkInv /\ [Next]_items =>
        [\A i \in DOMAIN items : \A link \in FinalLinks :
            items[i][link] # {} =>
                i \in DOMAIN items' /\ items'[i][link] = items[i][link]]_items
  BY EveryItemKept DEF Kept, FinalLinks
<1> QED BY <1>1, Invariance, LinksHold, PTL DEF Spec, LinksAreFinal

(* However the calls are ordered, an answered item is not asked about again.*)
THEOREM AnswersStayFinal == Spec => AnswerIsFinal
<1>1. IInv /\ LinkInv /\ [Next]_items =>
        [\A i \in DOMAIN items : items[i].invocation # {} =>
            items'[i].answers = items[i].answers]_items
  BY EveryItemKept DEF Kept
<1> QED BY <1>1, Invariance, LinksHold, PTL DEF Spec, AnswerIsFinal

(* However the calls are ordered, what enters execution was let through by  *)
(* its own gating decision or put back by a recovery.                       *)
THEOREM OnlyAuthorizedRun == Spec => ExecutionAuthorized
<1>1. IInv /\ LinkInv /\ [Next]_items =>
        [\A i \in DOMAIN items : items'[i].runs > items[i].runs =>
            Recovered(items[i]) \/ LetThrough(items[i], i)]_items
  <2> SUFFICES ASSUME IInv, LinkInv, [Next]_items, NEW i \in DOMAIN items,
                      items'[i].runs > items[i].runs
               PROVE  Recovered(items[i]) \/ LetThrough(items[i], i)
    OBVIOUS
  <2>1. items'[i].runs # items[i].runs
    BY ItemType DEF WorkItem
  <2>2. items[i].status = "runnable" /\ items[i].exec = {}
    BY <2>1, EveryItemKept DEF Kept
  <2> QED BY <2>2 DEF LinkInv, Backed
<1> QED BY <1>1, Invariance, LinksHold, PTL DEF Spec, ExecutionAuthorized
=============================================================================
