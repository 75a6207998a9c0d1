------------------------ MODULE PromptQueueMoveProofs ------------------------
(***************************************************************************)
(* Proofs about where a PromptQueue goes: no item is sent round for ever,  *)
(* where items get stuck, which children a continuation may spawn, and     *)
(* what becomes of items that start new - for any limits, budgets, prior   *)
(* states, outcomes and depths.                                            *)
(***************************************************************************)
EXTENDS PromptQueueLinkProofs

(* No call moves such an item: it is finished, or its retry or its recovery *)
(* put it where the one call that could move it is refused.                 *)
Settled(w) ==
    \/ w.status \in {"complete", "reentry_eligible"}
    \/ w.status = "runnable" /\ w.exec # {}
    \/ w.status = "review_invocation_failed" /\ w.retry # {}
    \/ w.status = "blocked" /\ w.recovery # {}

(* An item with no prompt attached but its own, spawned from none of its    *)
(* own, and never found complete: for an item that was gated, the two       *)
(* prompts the post-execution decision compares then differ.                *)
Undone(w, i) ==
    /\ w.prompt \subseteq {i}
    /\ i \notin w.fromPrompt
    /\ OwnedBy(w.gating, i) => w.fromPrompt # {}
    /\ \A p \in w.post : p.is = "reentry_blocked"
    /\ w.status # "complete"

(* What any call leaves of the item it is made for.                         *)
Moves(w, r, i) ==
    /\ MovesLeft(w) <= MovesLeft(r)
    /\ w.status # r.status => MovesLeft(w) < MovesLeft(r) /\ ~Settled(r)
    /\ Limited(r, i) => Limited(w, i)
    /\ Undone(r, i) => Undone(w, i)

(* What a child starts with.                                                *)
Starts(child, i, kind) ==
    /\ Limited(child, Child(i, kind))
    /\ Undone(items[i], i) => Undone(child, Child(i, kind))

MovesOne(i) == \E w : Moves(w, items[i], i) /\ Update(i, w)

MovesAndAdds(i) ==
    \E w, child, kind :
        /\ kind \in Kind
        /\ DOMAIN w = DOMAIN items[i] /\ Moves(w, items[i], i)
        /\ Starts(child, i, kind)
        /\ Child(i, kind) \notin DOMAIN items
        /\ Spawn(i, w, kind, child)

----------------------------------------------------------------------------
(* Statuses and their ranks                                                 *)

(* The ranks, as a table.                                                   *)
LEMMA Ranks ==
    /\ \A s \in Status : StatusRank[s] \in 0..13
    /\ StatusRank["blocked"] = 0 /\ StatusRank["complete"] = 0
    /\ StatusRank["reentry_eligible"] = 0 /\ StatusRank["reentry_blocked"] = 1
    /\ StatusRank["review_invocation_failed"] = 1
    /\ StatusRank["review_provider_failed"] = 1
    /\ StatusRank["executing"] = 1 /\ StatusRank["runnable"] = 2
    /\ StatusRank["approval_required"] = 3 /\ StatusRank["execution_gated"] = 4
    /\ StatusRank["repair_child_created"] = 5
    /\ StatusRank["repair_prompt_generated"] = 6
    /\ StatusRank["findings_parsed"] = 7 /\ StatusRank["review_complete"] = 8
    /\ StatusRank["review_invocation_succeeded"] = 8
    /\ StatusRank["review_invoking"] = 9 /\ StatusRank["review_triggered"] = 10
    /\ StatusRank["review_required"] = 11 /\ StatusRank["executed_success"] = 12
    /\ StatusRank["executed_failure"] = 12 /\ StatusRank["queued"] = 13
  BY DEF StatusRank, Status, AllowedTransitions

(* Where the allow-list lets the calls' targets be reached from.            *)
LEMMA Sources ==
    ASSUME NEW s \in Status
    PROVE  /\ Legal(s, "review_queued") => s = "queued"
           /\ Legal(s, "executing") => s = "runnable"
           /\ Legal(s, "executed_success") => s = "executing"
           /\ Legal(s, "executed_failure") => s = "executing"
           /\ Legal(s, "complete") => s = "executed_success"
           /\ Legal(s, "reentry_blocked") => s = "executed_failure"
           /\ Legal(s, "reentry_eligible") => s = "executed_failure"
           /\ Legal(s, "review_required") => s = "executed_failure"
           /\ Legal(s, "blocked") =>
                 s \notin {"blocked", "complete", "reentry_eligible", "runnable",
                           "review_invocation_failed"}
  BY DEF Legal, Status, AllowedTransitions

(* Only the statuses at the end of the list have no move left.              *)
LEMMA BlockingFalls ==
    ASSUME NEW s \in Status, Legal(s, "blocked")
    PROVE  StatusRank[s] > 0
  BY DEF Legal, Status, AllowedTransitions, StatusRank

(* What makes a call leave fewer moves: it moves down the list, or it       *)
(* writes one of the three links.                                           *)
Descends(w, r) ==
    /\ w.status \in Status
    /\ r.exec # {} => w.exec # {}
    /\ r.retry # {} => w.retry # {}
    /\ r.recovery # {} => w.recovery # {}
    /\ \/ w.status = r.status
       \/ StatusRank[w.status] < StatusRank[r.status]
       \/ r.exec = {} /\ w.exec # {}
       \/ r.retry = {} /\ w.retry # {}
       \/ r.recovery = {} /\ w.recovery # {}

LEMMA Downhill ==
    ASSUME NEW r \in WorkItem, NEW w, Descends(w, r)
    PROVE  /\ MovesLeft(w) <= MovesLeft(r)
           /\ w.status # r.status => MovesLeft(w) < MovesLeft(r)
<1>1. StatusRank[r.status] \in 0..13 /\ StatusRank[w.status] \in 0..13
  BY Ranks DEF WorkItem, Descends
<1> DEFINE a == StatusRank[r.status]
           b == StatusRank[w.status]
<1>2. a \in 0..13 /\ b \in 0..13 /\ (w.status = r.status => b = a)
  BY <1>1
<1> HIDE DEF a, b
<1>3. MovesLeft(w) = b + Unspent(w.exec) + Unspent(w.retry) + Unspent(w.recovery)
  BY DEF MovesLeft, b
<1>4. MovesLeft(r) = a + Unspent(r.exec) + Unspent(r.retry) + Unspent(r.recovery)
  BY DEF MovesLeft, a
<1>5. w.status # r.status /\ StatusRank[w.status] < StatusRank[r.status] => b < a
  BY DEF a, b
<1> QED BY <1>2, <1>3, <1>4, <1>5 DEF Unspent, Descends

(* What a call that moves one item has to show.                             *)
LEMMA MovesIntro ==
    ASSUME NEW i, NEW r \in WorkItem, NEW w, Descends(w, r),
           w.status # r.status => ~Settled(r),
           Limited(r, i) => Limited(w, i),
           Undone(r, i) => Undone(w, i)
    PROVE  Moves(w, r, i)
  BY Downhill DEF Moves

----------------------------------------------------------------------------
(* Calls that move one item                                                 *)

(* A review moves a queued item on.                                         *)
LEMMA ReviewMoves ==
    ASSUME IInv, NEW i \in DOMAIN items, Review(i) PROVE MovesOne(i)
<1>1. PICK outcome \in {"review_complete", "blocked"} :
        Update(i, [items[i] EXCEPT !.status = outcome])
  BY DEF Review
<1> DEFINE r == items[i]
           w == [items[i] EXCEPT !.status = outcome]
<1>2. r \in WorkItem /\ r.status = "queued"
  BY ItemType, Sources DEF Review, WorkItem
<1> HIDE DEF r
<1>3. Descends(w, r)
  BY <1>1, <1>2, Ranks, BlockingFalls DEF Descends, r, WorkItem, Status, AllowedTransitions
<1>4. w.status # r.status => ~Settled(r)
  BY <1>2 DEF Settled, WorkItem, r
<1>5. (Limited(r, i) => Limited(w, i)) /\ (Undone(r, i) => Undone(w, i))
  BY <1>1, <1>2 DEF r, WorkItem, Limited, Undone
<1>6. Moves(w, r, i)
  BY <1>2, <1>3, <1>4, <1>5, MovesIntro
<1> QED BY <1>1, <1>6 DEF MovesOne, r

(* Findings move only an item whose review is complete.                     *)
LEMMA AttachFindingsMoves ==
    ASSUME IInv, NEW i \in DOMAIN items, AttachFindings(i) PROVE MovesOne(i)
<1>1. PICK verdict \in {"PASS", "FAIL"} :
        Update(i, [items[i] EXCEPT
            !.findings = {verdict},
            !.status = IF @ = "review_complete" THEN "findings_parsed" ELSE @])
  BY DEF AttachFindings
<1> DEFINE r == items[i]
           w == [items[i] EXCEPT
            !.findings = {verdict},
            !.status = IF @ = "review_complete" THEN "findings_parsed" ELSE @]
<1>2. r \in WorkItem /\ TRUE
  BY ItemType
<1> HIDE DEF r
<1>3. Descends(w, r)
  BY <1>1, <1>2, Ranks, BlockingFalls DEF Descends, r, WorkItem, Status, AllowedTransitions
<1>4. w.status # r.status => ~Settled(r)
  BY <1>2 DEF Settled, WorkItem, r
<1>5. (Limited(r, i) => Limited(w, i)) /\ (Undone(r, i) => Undone(w, i))
  BY <1>1, <1>2 DEF r, WorkItem, Limited, Undone
<1>6. Moves(w, r, i)
  BY <1>2, <1>3, <1>4, <1>5, MovesIntro
<1> QED BY <1>1, <1>6 DEF MovesOne, r

(* A prompt is the item's own, and moves it only when findings are parsed.  *)
LEMMA AttachRepairPromptMoves ==
    ASSUME IInv, NEW i \in DOMAIN items, AttachRepairPrompt(i) PROVE MovesOne(i)
<1>1. Update(i, [items[i] EXCEPT
            !.prompt = {i},
            !.status = IF @ = "findings_parsed" THEN "repair_prompt_generated" ELSE @])
  BY DEF AttachRepairPrompt
<1> DEFINE r == items[i]
           w == [items[i] EXCEPT
            !.prompt = {i},
            !.status = IF @ = "findings_parsed" THEN "repair_prompt_generated" ELSE @]
<1>2. r \in WorkItem /\ TRUE
  BY ItemType
<1> HIDE DEF r
<1>3. Descends(w, r)
  BY <1>1, <1>2, Ranks, BlockingFalls DEF Descends, r, WorkItem, Status, AllowedTransitions
<1>4. w.status # r.status => ~Settled(r)
  BY <1>2 DEF Settled, WorkItem, r
<1>5. (Limited(r, i) => Limited(w, i)) /\ (Undone(r, i) => Undone(w, i))
  BY <1>1, <1>2 DEF r, WorkItem, Limited, Undone
<1>6. Moves(w, r, i)
  BY <1>2, <1>3, <1>4, <1>5, MovesIntro
<1> QED BY <1>1, <1>6 DEF MovesOne, r

(* An item enters execution from runnable, and before it has a result.      *)
LEMMA EnterExecutionMoves ==
    ASSUME IInv, NEW i \in DOMAIN items, EnterExecution(i) PROVE MovesOne(i)
<1>1. Update(i, [[items[i] EXCEPT !.runs = @ + 1] EXCEPT !.status = "executing"])
  BY DEF EnterExecution, MoveTo
<1> DEFINE r == items[i]
           w == [[items[i] EXCEPT !.runs = @ + 1] EXCEPT !.status = "executing"]
<1>2. r \in WorkItem /\ r.status = "runnable" /\ r.exec = {}
  BY ItemType, Sources DEF EnterExecution, MoveTo, WorkItem
<1> HIDE DEF r
<1>3. Descends(w, r)
  BY <1>1, <1>2, Ranks, BlockingFalls DEF Descends, r, WorkItem, Status, AllowedTransitions
<1>4. w.status # r.status => ~Settled(r)
  BY <1>2 DEF Settled, WorkItem, r
<1>5. (Limited(r, i) => Limited(w, i)) /\ (Undone(r, i) => Undone(w, i))
  BY <1>1, <1>2 DEF r, WorkItem, Limited, Undone
<1>6. Moves(w, r, i)
  BY <1>2, <1>3, <1>4, <1>5, MovesIntro
<1> QED BY <1>1, <1>6 DEF MovesOne, r

(* An execution is left with its result, which pays for the way up.         *)
LEMMA FinalizeExecutionMoves ==
    ASSUME IInv, NEW i \in DOMAIN items, FinalizeExecution(i) PROVE MovesOne(i)
<1>1. PICK status \in {"success", "failure"} :
        Update(i, [[items[i] EXCEPT
                      !.exec = {[of |-> i, is |-> status,
                                 prompt |-> ExecutedPrompt(items[i])]}]
                 EXCEPT !.status = IF status = "success" THEN "executed_success"
                                   ELSE "executed_failure"])
  BY DEF FinalizeExecution, MoveTo
<1> DEFINE r == items[i]
           w == [[items[i] EXCEPT
                      !.exec = {[of |-> i, is |-> status,
                                 prompt |-> ExecutedPrompt(items[i])]}]
                 EXCEPT !.status = IF status = "success" THEN "executed_success"
                                   ELSE "executed_failure"]
<1>2. r \in WorkItem /\ r.exec = {} /\ r.status = "executing"
  BY ItemType, Sources DEF FinalizeExecution, MoveTo, WorkItem
<1> HIDE DEF r
<1>3. Descends(w, r)
  BY <1>1, <1>2, Ranks, BlockingFalls DEF Descends, r, WorkItem, Status, AllowedTransitions
<1>4. w.status # r.status => ~Settled(r)
  BY <1>2 DEF Settled, WorkItem, r
<1>5. (Limited(r, i) => Limited(w, i)) /\ (Undone(r, i) => Undone(w, i))
  BY <1>1, <1>2 DEF r, WorkItem, Limited, Undone
<1>6. Moves(w, r, i)
  BY <1>2, <1>3, <1>4, <1>5, MovesIntro
<1> QED BY <1>1, <1>6 DEF MovesOne, r

(* A refused invocation blocks, from where the allow-list permits it.       *)
LEMMA RefuseInvocationMoves ==
    ASSUME IInv, NEW i \in DOMAIN items, RefuseInvocation(i) PROVE MovesOne(i)
<1>1. Update(i, [items[i] EXCEPT !.status = "blocked"])
  BY DEF RefuseInvocation, MoveTo
<1> DEFINE r == items[i]
           w == [items[i] EXCEPT !.status = "blocked"]
<1>2. r \in WorkItem /\ Legal(r.status, "blocked")
  BY ItemType DEF RefuseInvocation, MoveTo
<1> HIDE DEF r
<1>3. Descends(w, r)
  BY <1>1, <1>2, Ranks, BlockingFalls DEF Descends, r, WorkItem, Status, AllowedTransitions
<1>4. w.status # r.status => ~Settled(r)
  BY <1>2, Sources DEF Settled, WorkItem, r
<1>5. (Limited(r, i) => Limited(w, i)) /\ (Undone(r, i) => Undone(w, i))
  BY <1>1, <1>2 DEF r, WorkItem, Limited, Undone
<1>6. Moves(w, r, i)
  BY <1>2, <1>3, <1>4, <1>5, MovesIntro
<1> QED BY <1>1, <1>6 DEF MovesOne, r

(* A failed invocation leaves a triggered review.                           *)
LEMMA InvokeFailedMoves ==
    ASSUME IInv, NEW i \in DOMAIN items, InvokeFailed(i) PROVE MovesOne(i)
<1>1. Update(i, [items[i] EXCEPT !.status = "review_invocation_failed"])
  BY DEF InvokeFailed
<1> DEFINE r == items[i]
           w == [items[i] EXCEPT !.status = "review_invocation_failed"]
<1>2. r \in WorkItem /\ r.status = "review_triggered"
  BY ItemType DEF InvokeFailed, MayInvoke
<1> HIDE DEF r
<1>3. Descends(w, r)
  BY <1>1, <1>2, Ranks, BlockingFalls DEF Descends, r, WorkItem, Status, AllowedTransitions
<1>4. w.status # r.status => ~Settled(r)
  BY <1>2 DEF Settled, WorkItem, r
<1>5. (Limited(r, i) => Limited(w, i)) /\ (Undone(r, i) => Undone(w, i))
  BY <1>1, <1>2 DEF r, WorkItem, Limited, Undone
<1>6. Moves(w, r, i)
  BY <1>2, <1>3, <1>4, <1>5, MovesIntro
<1> QED BY <1>1, <1>6 DEF MovesOne, r

(* An answer leaves a triggered review, or a crash leaves it as it was.     *)
LEMMA InvokeAnsweredMoves ==
    ASSUME IInv, NEW i \in DOMAIN items, InvokeAnswered(i) PROVE MovesOne(i)
<1>1. PICK outcome \in Outcomes \cap DOMAIN StatusAfter :
        Update(i, [items[i] EXCEPT
               !.answers    = @ + 1,
               !.status     = StatusAfter[outcome],
               !.invocation = IF outcome \in Linking
                              THEN Decided(i, "success") ELSE @])
  BY DEF InvokeAnswered
<1> DEFINE r == items[i]
           w == [items[i] EXCEPT
               !.answers    = @ + 1,
               !.status     = StatusAfter[outcome],
               !.invocation = IF outcome \in Linking
                              THEN Decided(i, "success") ELSE @]
<1>2. r \in WorkItem /\ r.status = "review_triggered"
  BY ItemType DEF InvokeAnswered, MayInvoke
<1> HIDE DEF r
<1>3. Descends(w, r)
  BY <1>1, <1>2, Ranks, BlockingFalls DEF Descends, r, WorkItem, Status, AllowedTransitions, StatusAfter
<1>4. w.status # r.status => ~Settled(r)
  BY <1>2 DEF Settled, WorkItem, r
<1>5. (Limited(r, i) => Limited(w, i)) /\ (Undone(r, i) => Undone(w, i))
  BY <1>1, <1>2 DEF r, WorkItem, Limited, Undone, StatusAfter
<1>6. Moves(w, r, i)
  BY <1>2, <1>3, <1>4, <1>5, MovesIntro
<1> QED BY <1>1, <1>6 DEF MovesOne, r

(* A handoff follows a review that succeeded.                               *)
LEMMA HandoffMoves ==
    ASSUME IInv, NEW i \in DOMAIN items, Handoff(i) PROVE MovesOne(i)
<1>1. PICK verdict \in {"PASS", "FAIL"} :
        Update(i, [[items[i] EXCEPT !.findings = {verdict},
                                    !.handoff = Decided(i, "completed")]
                 EXCEPT !.status = "findings_parsed"])
  BY DEF Handoff, MoveTo
<1> DEFINE r == items[i]
           w == [[items[i] EXCEPT !.findings = {verdict},
                                    !.handoff = Decided(i, "completed")]
                 EXCEPT !.status = "findings_parsed"]
<1>2. r \in WorkItem /\ r.status = "review_invocation_succeeded"
  BY ItemType DEF Handoff
<1> HIDE DEF r
<1>3. Descends(w, r)
  BY <1>1, <1>2, Ranks, BlockingFalls DEF Descends, r, WorkItem, Status, AllowedTransitions
<1>4. w.status # r.status => ~Settled(r)
  BY <1>2 DEF Settled, WorkItem, r
<1>5. (Limited(r, i) => Limited(w, i)) /\ (Undone(r, i) => Undone(w, i))
  BY <1>1, <1>2 DEF r, WorkItem, Limited, Undone
<1>6. Moves(w, r, i)
  BY <1>2, <1>3, <1>4, <1>5, MovesIntro
<1> QED BY <1>1, <1>6 DEF MovesOne, r

(* Findings re-enter as a repair prompt of the item's own.                  *)
LEMMA ReenterFindingsMoves ==
    ASSUME IInv, NEW i \in DOMAIN items, ReenterFindings(i) PROVE MovesOne(i)
<1>1. Update(i, [[items[i] EXCEPT !.prompt = {i},
                                    !.reentry = Decided(i, "completed")]
                 EXCEPT !.status = "repair_prompt_generated"])
  BY DEF ReenterFindings, MoveTo
<1> DEFINE r == items[i]
           w == [[items[i] EXCEPT !.prompt = {i},
                                    !.reentry = Decided(i, "completed")]
                 EXCEPT !.status = "repair_prompt_generated"]
<1>2. r \in WorkItem /\ r.status = "findings_parsed"
  BY ItemType DEF ReenterFindings
<1> HIDE DEF r
<1>3. Descends(w, r)
  BY <1>1, <1>2, Ranks, BlockingFalls DEF Descends, r, WorkItem, Status, AllowedTransitions
<1>4. w.status # r.status => ~Settled(r)
  BY <1>2 DEF Settled, WorkItem, r
<1>5. (Limited(r, i) => Limited(w, i)) /\ (Undone(r, i) => Undone(w, i))
  BY <1>1, <1>2 DEF r, WorkItem, Limited, Undone
<1>6. Moves(w, r, i)
  BY <1>2, <1>3, <1>4, <1>5, MovesIntro
<1> QED BY <1>1, <1>6 DEF MovesOne, r

(* A retry leads back up, and is decided on once.                           *)
LEMMA ApplyRetryMoves ==
    ASSUME IInv, NEW i \in DOMAIN items, ApplyRetry(i) PROVE MovesOne(i)
<1>1. PICK reason \in RetryRequests, vouched \in BOOLEAN :
        LET d == RetryDecision(i, reason, vouched)
        IN  /\ items[i].retry = {}
            /\ items[i].status # "blocked"
            /\ Update(i, [items[i] EXCEPT
                   !.retry   = Decided(i, d),
                   !.status  = IF d = "retry_allowed" THEN RetryTarget[@] ELSE @,
                   !.retries = IF d = "retry_allowed" THEN @ + 1 ELSE @])
  BY DEF ApplyRetry
<1> DEFINE r == items[i]
           d == RetryDecision(i, reason, vouched)
           w == [items[i] EXCEPT
                   !.retry   = Decided(i, d),
                   !.status  = IF d = "retry_allowed" THEN RetryTarget[@] ELSE @,
                   !.retries = IF d = "retry_allowed" THEN @ + 1 ELSE @]
<1>2. r \in WorkItem /\ r.retry = {} /\ Decided(i, d) # {}
  BY <1>1, ItemType DEF Decided
<1>3. d = "retry_allowed" =>
        /\ r.status \in {"executed_failure", "review_provider_failed",
                         "review_invocation_failed"}
        /\ RetryTarget[r.status] \in {"runnable", "review_triggered"}
  BY DEF RetryDecision, RetryTarget
<1>4. Update(i, w)
  BY <1>1
<1> HIDE DEF r, d
<1>5. Descends(w, r)
  BY <1>2, <1>3 DEF Descends, r, WorkItem, Status, AllowedTransitions
<1>6. w.status # r.status => ~Settled(r)
  BY <1>2, <1>3 DEF Settled, WorkItem, r
<1>7. (Limited(r, i) => Limited(w, i)) /\ (Undone(r, i) => Undone(w, i))
  BY <1>2, <1>3 DEF r, WorkItem, Limited, Undone
<1>8. Moves(w, r, i)
  BY <1>2, <1>5, <1>6, <1>7, MovesIntro
<1> QED BY <1>4, <1>8 DEF MovesOne, r

(* So is a recovery.                                                        *)
LEMMA RecoverMoves ==
    ASSUME IInv, NEW i \in DOMAIN items, Recover(i) PROVE MovesOne(i)
<1>1. PICK prior \in PriorStates \cup {"blocked"} :
        Update(i, [items[i] EXCEPT
               !.status   = prior,
               !.recovery = Decided(i, IF prior = "blocked" THEN "no_action"
                                       ELSE "return_to_prior_state")])
  BY DEF Recover
<1> DEFINE r == items[i]
           v == Decided(i, IF prior = "blocked" THEN "no_action"
                           ELSE "return_to_prior_state")
           w == [items[i] EXCEPT !.status = prior, !.recovery = v]
<1>2. r \in WorkItem /\ r.recovery = {} /\ r.status = "blocked" /\ v # {}
  BY ItemType DEF Recover, Decided
<1>3. prior \in {"queued", "review_queued", "review_triggered", "execution_gated",
                "approval_required", "runnable", "blocked"}
  BY QueueConstants
<1> HIDE DEF r, v
<1>4. Descends(w, r)
  BY <1>2, <1>3 DEF Descends, r, WorkItem, Status, AllowedTransitions
<1>5. ~Settled(r)
  BY <1>2 DEF Settled
<1>6. (Limited(r, i) => Limited(w, i)) /\ (Undone(r, i) => Undone(w, i))
  BY <1>2, <1>3 DEF r, WorkItem, Limited, Undone
<1>7. Moves(w, r, i)
  BY <1>2, <1>4, <1>5, <1>6, MovesIntro
<1> QED BY <1>1, <1>7 DEF MovesOne, r, v

(* Only an item spawned from a prompt is gated.                             *)
LEMMA ApplyGatingMoves ==
    ASSUME IInv, NEW i \in DOMAIN items, ApplyGating(i) PROVE MovesOne(i)
<1>1. PICK approval \in BOOLEAN :
        Update(i, [items[i] EXCEPT
            !.status = GatingDecision(i, approval),
            !.gating = {[of |-> i, is |-> GatingDecision(i, approval),
                         approved |-> approval]}])
  BY DEF ApplyGating
<1> DEFINE r == items[i]
           d == GatingDecision(i, approval)
           v == {[of |-> i, is |-> d, approved |-> approval]}
           w == [items[i] EXCEPT !.status = d, !.gating = v]
<1>2. /\ r \in WorkItem /\ r.fromPrompt # {}
      /\ r.status \in {"repair_child_created", "execution_gated"}
  BY ItemType DEF ApplyGating
<1>3. d \in {"blocked", "approval_required", "runnable"}
  BY DEF GatingDecision
<1>4. Update(i, w)
  BY <1>1
<1> HIDE DEF r, d, v
<1>5. Descends(w, r)
  BY <1>2, <1>3, Ranks DEF Descends, r, WorkItem, Status, AllowedTransitions
<1>6. ~Settled(r)
  BY <1>2 DEF Settled
<1>7. (Limited(r, i) => Limited(w, i)) /\ (Undone(r, i) => Undone(w, i))
  BY <1>2, <1>3 DEF r, WorkItem, Limited, Undone
<1>8. Moves(w, r, i)
  BY <1>2, <1>5, <1>6, <1>7, MovesIntro
<1> QED BY <1>4, <1>8 DEF MovesOne, r

(* The lineage of an undone item never holds: the prompt attached to it and *)
(* the one it was spawned from are compared, and are not the same.          *)
LEMMA UndoneHasNoLineage ==
    ASSUME NEW i \in DOMAIN items, Undone(items[i], i)
    PROVE  ~LineageHolds(i)
  BY DEF LineageHolds, Undone

(* So a post-execution decision finds such an item blocked.                 *)
LEMMA ApplyPostExecutionMoves ==
    ASSUME IInv, NEW i \in DOMAIN items, ApplyPostExecution(i) PROVE MovesOne(i)
<1> DEFINE r == items[i]
           d == PostExecutionDecision(i)
           v == Decided(i, d)
           w == [[items[i] EXCEPT !.post = v] EXCEPT !.status = d]
<1>1. Update(i, w) /\ Legal(r.status, d)
  BY DEF ApplyPostExecution, MoveTo
<1>2. /\ r \in WorkItem
      /\ r.status \in {"executed_success", "executed_failure"}
  BY ItemType DEF ApplyPostExecution
<1>3. /\ d \in {"complete", "review_required", "reentry_blocked"}
      /\ Undone(r, i) => d = "reentry_blocked"
  BY UndoneHasNoLineage DEF PostExecutionDecision
<1>4. \A p \in v : p.is = d
  BY DEF Decided
<1> HIDE DEF r, d, v
<1>5. Descends(w, r)
  BY <1>2, <1>3, Ranks DEF Descends, r, WorkItem, Status, AllowedTransitions
<1>6. ~Settled(r)
  BY <1>2 DEF Settled
<1>7. (Limited(r, i) => Limited(w, i)) /\ (Undone(r, i) => Undone(w, i))
  BY <1>2, <1>3, <1>4 DEF r, WorkItem, Limited, Undone
<1>8. Moves(w, r, i)
  BY <1>2, <1>5, <1>6, <1>7, MovesIntro
<1> QED BY <1>1, <1>8 DEF MovesOne, r

(* Loop control lets an item re-enter only below the limit.                 *)
LEMMA ApplyLoopControlMoves ==
    ASSUME IInv, NEW i \in DOMAIN items, ApplyLoopControl(i) PROVE MovesOne(i)
<1> DEFINE r == items[i]
           a == LoopAction(i)
           v == Decided(i, a)
           d == LoopTarget[a]
           w == [[items[i] EXCEPT !.loopControl = v] EXCEPT !.status = d]
<1>1. Update(i, w) /\ Legal(r.status, d)
  BY DEF ApplyLoopControl, MoveTo
<1>2. r \in WorkItem
  BY ItemType
<1>3. /\ d \in {"reentry_eligible", "review_required", "blocked"}
      /\ a = "allow_reentry" => r.count < MaxGeneration
  BY DEF LoopTarget, LoopAction
<1>4. \A l \in v : l.is = a
  BY DEF Decided
<1> HIDE DEF r, a, d, v
<1>5. Descends(w, r)
  BY <1>1, <1>2, <1>3, Ranks, Sources, BlockingFalls
  DEF Descends, r, WorkItem, Status, AllowedTransitions
<1>6. ~Settled(r)
  BY <1>1, <1>2, <1>3, Sources DEF Settled, WorkItem
<1>7. (Limited(r, i) => Limited(w, i)) /\ (Undone(r, i) => Undone(w, i))
  BY <1>2, <1>3, <1>4 DEF r, WorkItem, Limited, Undone
<1>8. Moves(w, r, i)
  BY <1>2, <1>5, <1>6, <1>7, MovesIntro
<1> QED BY <1>1, <1>8 DEF MovesOne, r

----------------------------------------------------------------------------
(* Calls that add a child                                                   *)

(* What a call that adds a child has to show.                               *)
LEMMA MovesAndAddsIntro ==
    ASSUME NEW i, NEW w, NEW child, NEW kind \in Kind,
           DOMAIN w = DOMAIN items[i], Moves(w, items[i], i),
           Starts(child, i, kind),
           Child(i, kind) \notin DOMAIN items,
           Spawn(i, w, kind, child)
    PROVE  MovesAndAdds(i)
<1> SUFFICES \E w1, child1, kind1 :
        /\ kind1 \in Kind
        /\ DOMAIN w1 = DOMAIN items[i] /\ Moves(w1, items[i], i)
        /\ Starts(child1, i, kind1)
        /\ Child(i, kind1) \notin DOMAIN items
        /\ Spawn(i, w1, kind1, child1)
  BY Zenon DEF MovesAndAdds
<1> WITNESS w, child, kind
<1> QED OBVIOUS

(* A repair child starts from its parent's prompt, and with nothing else.   *)
LEMMA RepairChildStarts ==
    ASSUME IInv, NEW i \in DOMAIN items
    PROVE  Starts(RepairChild(items[i], i), i, "repair")
<1> DEFINE c == Child(i, "repair")
           child == RepairChild(items[i], i)
<1>1. c # i
  BY ItemType, ChildName DEF Kind
<1>2. /\ child.prompt = {} /\ child.fromPrompt = {i} /\ child.gating = {}
      /\ child.post = {} /\ child.status = "queued"
      /\ child.loopControl = {} /\ child.continuation = {}
  BY DEF RepairChild, NewItem
<1> HIDE DEF c, child
<1>3. Limited(child, c) /\ Undone(child, c)
  BY <1>1, <1>2 DEF Limited, Undone, Says, OwnedBy
<1> QED BY <1>3 DEF Starts, c, child

(* The parent of a repair child moves on.                                   *)
LEMMA SpawnRepairChildMoves ==
    ASSUME IInv, LinkInv, NEW i \in DOMAIN items, SpawnRepairChild(i)
    PROVE  MovesAndAdds(i)
<1> DEFINE r == items[i]
           w == [items[i] EXCEPT !.status = "repair_child_created"]
<1>1. Spawn(i, w, "repair", RepairChild(r, i))
  BY DEF SpawnRepairChild
<1>2. r \in WorkItem /\ r.status = "repair_prompt_generated"
  BY ItemType DEF SpawnRepairChild, MaySpawnRepairChild
<1>3. Child(i, "repair") \notin DOMAIN items /\ "repair" \in Kind
  BY Unlisted DEF SpawnRepairChild, MaySpawnRepairChild, Kind
<1>4. Starts(RepairChild(r, i), i, "repair")
  BY RepairChildStarts
<1> HIDE DEF r
<1>5. Descends(w, r) /\ ~Settled(r)
  BY <1>2, Ranks DEF Descends, Settled, r, WorkItem, Status, AllowedTransitions
<1>6. (Limited(r, i) => Limited(w, i)) /\ (Undone(r, i) => Undone(w, i))
  BY <1>2 DEF r, WorkItem, Limited, Undone
<1>7. Moves(w, r, i) /\ DOMAIN w = DOMAIN r
  BY <1>2, <1>5, <1>6, MovesIntro DEF WorkItem, r
<1> HIDE DEF w
<1> QED BY <1>1, <1>3, <1>4, <1>7, MovesAndAddsIntro DEF r

(* A continuation spawns only below the limit.                              *)
LEMMA ContinueLoopMoves ==
    ASSUME IInv, LinkInv, NEW i \in DOMAIN items, ContinueLoop(i)
    PROVE  MovesOne(i) \/ MovesAndAdds(i)
<1> DEFINE r == items[i]
           u == Decided(i, "child_spawned")
           v == Decided(i, "continuation_blocked")
           w == [items[i] EXCEPT !.status = "repair_child_created",
                                 !.continuation = u]
           x == [items[i] EXCEPT !.continuation = v]
<1>1. \/ /\ Spawn(i, w, "repair", RepairChild(r, i)) /\ MaySpawnRepairChild(i)
         /\ Says(r.loopControl, "allow_reentry")
         /\ \A l \in r.loopControl : l.of = i
      \/ Update(i, x)
  BY DEF ContinueLoop
<1>2. r \in WorkItem /\ ~Says(v, "child_spawned")
  BY ItemType DEF Says, Decided
<1>3. CASE Update(i, x)
  <2> HIDE DEF r, v
  <2>1. Descends(x, r) /\ x.status = r.status
    BY <1>2 DEF Descends, r, WorkItem
  <2>2. (Limited(r, i) => Limited(x, i)) /\ (Undone(r, i) => Undone(x, i))
    BY <1>2 DEF r, WorkItem, Limited, Undone
  <2>3. Moves(x, r, i)
    BY <1>2, <2>1, <2>2, MovesIntro
  <2> QED BY <1>3, <2>3 DEF MovesOne, r
<1>4. CASE /\ Spawn(i, w, "repair", RepairChild(r, i)) /\ MaySpawnRepairChild(i)
           /\ Says(r.loopControl, "allow_reentry")
           /\ \A l \in r.loopControl : l.of = i
  <2>1. Child(i, "repair") \notin DOMAIN items /\ "repair" \in Kind
    BY <1>4, Unlisted DEF MaySpawnRepairChild, Kind
  <2>2. Starts(RepairChild(r, i), i, "repair")
    BY RepairChildStarts
  <2>3. r.status = "repair_prompt_generated"
    BY <1>4 DEF MaySpawnRepairChild
  <2> HIDE DEF r, u
  <2>4. Limited(r, i) => r.count < MaxGeneration
    BY <1>4 DEF Limited, Says
  <2>5. Descends(w, r) /\ ~Settled(r)
    BY <1>2, <2>3, Ranks DEF Descends, Settled, r, WorkItem, Status,
       AllowedTransitions
  <2>6. (Limited(r, i) => Limited(w, i)) /\ (Undone(r, i) => Undone(w, i))
    BY <1>2, <2>4 DEF r, WorkItem, Limited, Undone
  <2>7. Moves(w, r, i) /\ DOMAIN w = DOMAIN r
    BY <1>2, <2>5, <2>6, MovesIntro DEF WorkItem, r
  <2> HIDE DEF w
  <2> QED BY <1>4, <2>1, <2>2, <2>7, MovesAndAddsIntro DEF r
<1> QED BY <1>1, <1>3, <1>4

(* A next step moves an item to the status its decision names, and spawns   *)
(* no child for an undone one.                                              *)
LEMMA ApplyNextStepMoves ==
    ASSUME IInv, LinkInv, NEW i \in DOMAIN items, ApplyNextStep(i)
    PROVE  MovesOne(i) \/ MovesAndAdds(i)
<1> DEFINE r == items[i]
<1>1. r \in WorkItem /\ Backed(r, i)
  BY ItemType DEF LinkInv
<1>2. PICK p \in r.post :
          LET w == [items[i] EXCEPT !.status = p.is,
                                    !.nextStep = Decided(i, p.is)]
          IN  /\ Legal(items[i].status, p.is)
              /\ IF p.is \in DOMAIN NextStepKind
                 THEN /\ Child(i, NextStepKind[p.is]) \notin DOMAIN items
                      /\ Spawn(i, w, NextStepKind[p.is], NextStepChild(i))
                 ELSE Update(i, w)
  BY DEF ApplyNextStep
<1> DEFINE d == p.is
           w == [items[i] EXCEPT !.status = d, !.nextStep = Decided(i, d)]
<1>3. /\ d \in {"complete", "review_required", "reentry_blocked",
                "reentry_eligible"}
      /\ Undone(r, i) => d = "reentry_blocked"
  BY <1>1 DEF Backed, Undone
<1>4. \/ /\ d \in DOMAIN NextStepKind
         /\ Child(i, NextStepKind[d]) \notin DOMAIN items
         /\ Spawn(i, w, NextStepKind[d], NextStepChild(i))
      \/ Update(i, w)
  BY <1>2
<1>5. Legal(r.status, d)
  BY <1>2
<1>6. NextStepChild(i).loopControl = {} /\ NextStepChild(i).continuation = {}
  BY DEF NextStepChild, NewItem
<1> HIDE DEF r, d
<1>7. r.status \in {"executed_success", "executed_failure"}
  BY <1>1, <1>3, <1>5, Sources DEF WorkItem
<1>8. Descends(w, r) /\ ~Settled(r)
  BY <1>1, <1>3, <1>7, Ranks DEF Descends, Settled, r, WorkItem, Status,
     AllowedTransitions
<1>9. (Limited(r, i) => Limited(w, i)) /\ (Undone(r, i) => Undone(w, i))
  BY <1>1, <1>3 DEF r, WorkItem, Limited, Undone
<1>10. Moves(w, r, i) /\ DOMAIN w = DOMAIN r
  BY <1>1, <1>8, <1>9, MovesIntro DEF WorkItem, r
<1> HIDE DEF w
<1>11. CASE Update(i, w)
  BY <1>10, <1>11 DEF MovesOne, r
<1>12. CASE /\ d \in DOMAIN NextStepKind
            /\ Child(i, NextStepKind[d]) \notin DOMAIN items
            /\ Spawn(i, w, NextStepKind[d], NextStepChild(i))
  <2>1. NextStepKind[d] \in Kind /\ d # "reentry_blocked"
    BY <1>12 DEF NextStepKind, Kind
  <2>2. Starts(NextStepChild(i), i, NextStepKind[d])
    BY <1>3, <1>6, <2>1 DEF Starts, Limited, Says, r
  <2> QED BY <1>10, <1>12, <2>1, <2>2, MovesAndAddsIntro DEF r
<1> QED BY <1>4, <1>11, <1>12

(* A trigger moves an item that needs a review, and spawns no child for an  *)
(* undone one.                                                              *)
LEMMA ApplyReviewTriggerMoves ==
    ASSUME IInv, LinkInv, NEW i \in DOMAIN items, ApplyReviewTrigger(i)
    PROVE  MovesOne(i) \/ MovesAndAdds(i)
<1> DEFINE r == items[i]
           d == TriggerDecision(i)
           v == Decided(i, d)
           x == [items[i] EXCEPT !.trigger = v]
           y == [x EXCEPT !.status = "blocked"]
           w == [x EXCEPT !.status = "review_triggered"]
<1>1. \/ Update(i, x)
      \/ r.status \in {"review_required", "reentry_blocked"} /\ Update(i, y)
      \/ /\ d = "review_triggered" /\ r.status = "review_required"
         /\ Child(i, "review") \notin DOMAIN items
         /\ Spawn(i, w, "review", ReviewChild(i))
  BY DEF ApplyReviewTrigger, MoveTo
<1>2. r \in WorkItem
  BY ItemType
<1>3. d = "review_triggered" =>
        /\ Says(r.post, "review_required")
        /\ \A l \in r.loopControl : l.of = i
  BY DEF TriggerDecision
<1>4. /\ ReviewChild(i).loopControl = r.loopControl
      /\ ReviewChild(i).continuation = {}
  BY DEF ReviewChild, NewItem
<1>5. Child(i, "review") # i /\ "review" \in Kind
  BY ItemType, ChildName DEF Kind
<1> HIDE DEF r, d, v
<1>6. /\ Limited(r, i) => Limited(x, i) /\ Limited(y, i) /\ Limited(w, i)
      /\ Undone(r, i) => Undone(x, i) /\ Undone(y, i) /\ Undone(w, i)
  BY <1>2 DEF r, WorkItem, Limited, Undone
<1>7. CASE Update(i, x)
  <2>1. Descends(x, r) /\ x.status = r.status
    BY <1>2 DEF Descends, r, WorkItem
  <2>2. Moves(x, r, i)
    BY <1>2, <1>6, <2>1, MovesIntro
  <2> QED BY <1>7, <2>2 DEF MovesOne, r
<1>8. CASE r.status \in {"review_required", "reentry_blocked"} /\ Update(i, y)
  <2>1. Descends(y, r) /\ ~Settled(r)
    BY <1>2, <1>8, Ranks DEF Descends, Settled, r, WorkItem, Status,
       AllowedTransitions
  <2>2. Moves(y, r, i)
    BY <1>2, <1>6, <2>1, MovesIntro
  <2> QED BY <1>8, <2>2 DEF MovesOne, r
<1>9. CASE /\ d = "review_triggered" /\ r.status = "review_required"
           /\ Child(i, "review") \notin DOMAIN items
           /\ Spawn(i, w, "review", ReviewChild(i))
  <2>1. Descends(w, r) /\ ~Settled(r)
    BY <1>2, <1>9, Ranks DEF Descends, Settled, r, WorkItem, Status,
       AllowedTransitions
  <2>2. Moves(w, r, i) /\ DOMAIN w = DOMAIN r
    BY <1>2, <1>6, <2>1, MovesIntro DEF WorkItem, r
  <2>3. ~Undone(r, i)
    BY <1>3, <1>9 DEF Undone, Says
  <2>4. Limited(ReviewChild(i), Child(i, "review"))
    BY <1>3, <1>4, <1>5, <1>9 DEF Limited, Says
  <2>5. Starts(ReviewChild(i), i, "review")
    BY <2>3, <2>4 DEF Starts, r
  <2> HIDE DEF w
  <2> QED BY <1>5, <1>9, <2>2, <2>5, MovesAndAddsIntro DEF r
<1> QED BY <1>1, <1>7, <1>8, <1>9

----------------------------------------------------------------------------
(* What every call does to every item                                       *)

(* Every call moves one item, or moves one and adds a child to it.          *)
LEMMA EveryCallMoves ==
    ASSUME IInv, LinkInv, Next
    PROVE  \E i \in DOMAIN items : MovesOne(i) \/ MovesAndAdds(i)
<1>1. ASSUME NEW i \in DOMAIN items,
             \/ Review(i) \/ AttachFindings(i) \/ AttachRepairPrompt(i)
             \/ SpawnRepairChild(i) \/ ApplyGating(i) \/ EnterExecution(i)
             \/ FinalizeExecution(i) \/ ApplyPostExecution(i)
      PROVE  MovesOne(i) \/ MovesAndAdds(i)
  BY <1>1, ReviewMoves, AttachFindingsMoves, AttachRepairPromptMoves,
     SpawnRepairChildMoves, ApplyGatingMoves, EnterExecutionMoves,
     FinalizeExecutionMoves, ApplyPostExecutionMoves
<1>2. ASSUME NEW i \in DOMAIN items,
             \/ ApplyLoopControl(i) \/ ApplyNextStep(i) \/ ApplyReviewTrigger(i)
             \/ RefuseInvocation(i) \/ InvokeAnswered(i) \/ InvokeFailed(i)
             \/ Handoff(i) \/ ReenterFindings(i) \/ ContinueLoop(i)
             \/ ApplyRetry(i) \/ Recover(i)
      PROVE  MovesOne(i) \/ MovesAndAdds(i)
  BY <1>2, ApplyLoopControlMoves, ApplyNextStepMoves, ApplyReviewTriggerMoves,
     RefuseInvocationMoves, InvokeAnsweredMoves, InvokeFailedMoves, HandoffMoves,
     ReenterFindingsMoves, ContinueLoopMoves, ApplyRetryMoves, RecoverMoves
<1> QED BY <1>1, <1>2 DEF Next

(* A list of children is no matter of the moves, the limits or the prompts. *)
LEMMA MovesUnlisted ==
    ASSUME NEW i, NEW r \in WorkItem, NEW w, DOMAIN w = DOMAIN r, NEW S,
           Moves(w, r, i)
    PROVE  Moves([w EXCEPT !.children = @ \cup S], r, i)
<1> DEFINE x == [w EXCEPT !.children = @ \cup S]
<1>1. /\ x.status = w.status /\ x.exec = w.exec /\ x.retry = w.retry
      /\ x.recovery = w.recovery /\ x.count = w.count
      /\ x.loopControl = w.loopControl /\ x.continuation = w.continuation
      /\ x.prompt = w.prompt /\ x.fromPrompt = w.fromPrompt
      /\ x.gating = w.gating /\ x.post = w.post
  BY DEF WorkItem
<1> HIDE DEF x
<1>2. MovesLeft(x) = MovesLeft(w)
  BY <1>1 DEF MovesLeft
<1>3. (Limited(w, i) => Limited(x, i)) /\ (Undone(w, i) => Undone(x, i))
  BY <1>1 DEF Limited, Undone
<1>4. Moves(x, r, i)
  BY <1>1, <1>2, <1>3 DEF Moves
<1> QED BY <1>4 DEF x

(* What a step makes of the queue: every item in it moves as described, and *)
(* at most one joins it, the child of one that was there.                   *)
LEMMA EveryItemMoves ==
    ASSUME IInv, LinkInv, Next
    PROVE  /\ \A j \in DOMAIN items :
                  j \in DOMAIN items' /\ Moves(items'[j], items[j], j)
           /\ \A j \in DOMAIN items' \ DOMAIN items :
                  \E i \in DOMAIN items :
                      /\ Limited(items'[j], j)
                      /\ Undone(items[i], i) => Undone(items'[j], j)
<1>1. \A j \in DOMAIN items : Moves(items[j], items[j], j)
  BY ItemType, MovesIntro DEF Descends, WorkItem
<1>2. PICK i \in DOMAIN items : MovesOne(i) \/ MovesAndAdds(i)
  BY EveryCallMoves
<1>3. CASE MovesOne(i)
  <2>1. PICK w : Moves(w, items[i], i) /\ Update(i, w)
    BY <1>3 DEF MovesOne
  <2>2. /\ DOMAIN items' = DOMAIN items
        /\ \A j \in DOMAIN items : items'[j] = IF j = i THEN w ELSE items[j]
    BY <2>1 DEF Update, IInv, TypeOK, IsQueue
  <2> QED BY <1>1, <2>1, <2>2
<1>4. CASE MovesAndAdds(i)
  <2>1. PICK w, child, kind :
          /\ kind \in Kind
          /\ DOMAIN w = DOMAIN items[i] /\ Moves(w, items[i], i)
          /\ Starts(child, i, kind)
          /\ Child(i, kind) \notin DOMAIN items
          /\ Spawn(i, w, kind, child)
    BY <1>4 DEF MovesAndAdds
  <2> DEFINE c == Child(i, kind)
             x == [w EXCEPT !.children = @ \cup {c}]
  <2>2. items' = [j \in DOMAIN items \cup {c} |->
                    IF j = c THEN child ELSE IF j = i THEN x ELSE items[j]]
    BY <2>1 DEF Spawn
  <2>3. Moves(x, items[i], i)
    BY <2>1, ItemType, MovesUnlisted
  <2>4. Limited(child, c) /\ (Undone(items[i], i) => Undone(child, c))
    BY <2>1 DEF Starts
  <2>5. c \notin DOMAIN items
    BY <2>1
  <2> HIDE DEF c, x
  <2>6. /\ DOMAIN items' = DOMAIN items \cup {c} /\ items'[c] = child
        /\ \A j \in DOMAIN items : items'[j] = IF j = i THEN x ELSE items[j]
    BY <2>2, <2>5
  <2> QED BY <1>1, <2>3, <2>4, <2>5, <2>6
<1> QED BY <1>2, <1>3, <1>4

----------------------------------------------------------------------------
(* Theorems                                                                 *)

(* The allow-list and the duplicate guards together leave no way round: each*)
(* change of an item's status takes it one of at most 55 moves further, for *)
(* any budgets, limits and prior states a recovery may name.                *)
THEOREM MovesRunOut == Spec => NoWayRound
<1>1. IInv /\ LinkInv /\ [Next]_items =>
        [\A i \in DOMAIN items :
            /\ MovesLeft(items'[i]) <= MovesLeft(items[i])
            /\ items'[i].status # items[i].status =>
                   MovesLeft(items'[i]) < MovesLeft(items[i])]_items
  BY EveryItemMoves DEF Moves
<1> QED BY <1>1, Invariance, LinksHold, PTL DEF Spec, NoWayRound

(* The number of moves an item has left is a natural number below 56, so    *)
(* that running out is coming to rest.                                      *)
THEOREM MovesBounded == Spec => [](\A i \in DOMAIN items : MovesLeft(items[i]) \in 0..55)
<1>1. IInv => \A i \in DOMAIN items : MovesLeft(items[i]) \in 0..55
  <2> SUFFICES ASSUME IInv, NEW i \in DOMAIN items
               PROVE  MovesLeft(items[i]) \in 0..55
    OBVIOUS
  <2>1. StatusRank[items[i].status] \in 0..13
    BY ItemType, Ranks DEF WorkItem
  <2> QED BY <2>1 DEF MovesLeft, Unspent
<1> QED BY <1>1, Invariance, PTL

(* Where an item is stuck: complete, eligible for a re-entry nobody makes,  *)
(* runnable with a result (executed_failure after a retry), failed in its   *)
(* invocation after its one retry, or blocked after its one recovery.  No   *)
(* call changes such an item's status again.                                *)
SettledStays ==
    [][\A i \in DOMAIN items :
          Settled(items[i]) => items'[i].status = items[i].status]_items

(* Retried failures never run and recovered blocks never clear, whichever   *)
(* calls are made afterwards.                                               *)
THEOREM StuckForEver == Spec => SettledStays
<1>1. IInv /\ LinkInv /\ [Next]_items =>
        [\A i \in DOMAIN items :
            Settled(items[i]) => items'[i].status = items[i].status]_items
  BY EveryItemMoves DEF Moves
<1> QED BY <1>1, Invariance, LinksHold, PTL DEF Spec, SettledStays

(* Every child a continuation spawns is within the generation limit, since  *)
(* the loop-control decision it needs is one of the same item; what goes    *)
(* beyond the limit are the children of spawn_repair_child_in_queue.        *)
ContinuedWithinLimit ==
    \A i \in DOMAIN items :
        Says(items[i].continuation, "child_spawned") =>
            items[i].count < MaxGeneration

THEOREM ContinuationsWithinLimit == Spec => []ContinuedWithinLimit
<1> DEFINE LimitInv == \A i \in DOMAIN items : Limited(items[i], i)
<1>1. Init => LimitInv
  BY SeedsConsistent DEF Init
<1>2. IInv /\ LinkInv /\ LimitInv /\ [Next]_items => LimitInv'
  <2> SUFFICES ASSUME IInv, LinkInv, LimitInv, [Next]_items,
                      NEW j \in DOMAIN items'
               PROVE  Limited(items'[j], j)
    OBVIOUS
  <2>1. CASE UNCHANGED items
    BY <2>1
  <2>2. CASE Next /\ j \in DOMAIN items
    BY <2>2, EveryItemMoves DEF Moves
  <2>3. CASE Next /\ j \notin DOMAIN items
    BY <2>3, EveryItemMoves
  <2> QED BY <2>1, <2>2, <2>3
<1>3. LimitInv => ContinuedWithinLimit
  BY DEF Limited, ContinuedWithinLimit
<1> HIDE DEF LimitInv
<1> QED BY <1>1, <1>2, <1>3, Invariance, LinksHold, PTL DEF Spec

(* Items that start new, as make_work_item builds them, are never complete: *)
(* the prompt an item is gated for is its parent's, the one attached to it  *)
(* its own, and the post-execution policy wants them to be the same.  Every *)
(* decision it makes on such a queue is reentry_blocked, so no review is    *)
(* ever triggered by one either.                                            *)
NothingCompletes ==
    \A i \in DOMAIN items :
        /\ items[i].status # "complete"
        /\ \A p \in items[i].post : p.is = "reentry_blocked"

THEOREM NewItemsNeverComplete ==
    ASSUME \A q \in Seeds : \A i \in DOMAIN q :
               q[i] \in {NewItem("low"), NewItem("high")}
    PROVE  Spec => []NothingCompletes
<1> DEFINE UndoneInv == \A i \in DOMAIN items : Undone(items[i], i)
<1>1. Init => UndoneInv
  <2> SUFFICES ASSUME Init, NEW i \in DOMAIN items PROVE Undone(items[i], i)
    OBVIOUS
  <2>1. PICK risk \in {"low", "high"} : items[i] = NewItem(risk)
    BY DEF Init
  <2>2. /\ items[i].prompt = {} /\ items[i].fromPrompt = {}
        /\ items[i].gating = {} /\ items[i].post = {}
        /\ items[i].status = "queued"
    BY <2>1 DEF NewItem
  <2> QED BY <2>2 DEF Undone, OwnedBy
<1>2. IInv /\ LinkInv /\ UndoneInv /\ [Next]_items => UndoneInv'
  <2> SUFFICES ASSUME IInv, LinkInv, UndoneInv, [Next]_items,
                      NEW j \in DOMAIN items'
               PROVE  Undone(items'[j], j)
    OBVIOUS
  <2>1. CASE UNCHANGED items
    BY <2>1
  <2>2. CASE Next /\ j \in DOMAIN items
    BY <2>2, EveryItemMoves DEF Moves
  <2>3. CASE Next /\ j \notin DOMAIN items
    BY <2>3, EveryItemMoves
  <2> QED BY <2>1, <2>2, <2>3
<1>3. UndoneInv => NothingCompletes
  BY DEF Undone, NothingCompletes
<1> HIDE DEF UndoneInv
<1> QED BY <1>1, <1>2, <1>3, Invariance, LinksHold, PTL DEF Spec
==============================================================================
