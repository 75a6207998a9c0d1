--------------------------- MODULE QueueLoopProofs ---------------------------
(***************************************************************************)
(* Proofs about QueueLoop, for any set of processes, any number of steps   *)
(* and any bounds.                                                         *)
(***************************************************************************)
EXTENDS QueueLoop, TLAPS

(* Every type the variables have is kept by every command line. *)
LEMMA ApplyTransitionType ==
    ASSUME NEW q \in QueueState, NEW b \in BOOLEAN, NEW t \in 0..MaxTicks,
           HasNextStep(q)
    PROVE  ApplyTransition(q, b, t) \in QueueState
  BY LoopConstants DEF QueueState, HasNextStep, ApplyTransition, StepResult,
     Ref, Steps

(* Rewriting an exhausted queue as completed keeps its type.                *)
LEMMA CompletedCopyType ==
    ASSUME NEW q \in QueueState PROVE CompletedCopy(q) \in QueueState
  BY DEF QueueState, CompletedCopy

(* Whether a verdict blocks is a truth value.                               *)
LEMMA BlocksType == ASSUME NEW v PROVE Blocks(v) \in BOOLEAN
  BY LoopConstants DEF Blocks, TransitionAction

(* The state of a new queue is well typed (make_queue_state).               *)
LEMMA NewQueueType == NewQueue \in QueueState
  BY LoopConstants DEF NewQueue, QueueState

(* The queue states and checkpoints that are read have a type too. *)
LEMMA LastRefType ==
    ASSUME NEW q \in QueueState, q.results # <<>>
    PROVE  LastRef(q) \in Ref
<1>1. q.results \in Seq(StepResult)
  BY DEF QueueState
<1>2. Len(q.results) \in 1..Len(q.results)
  BY <1>1
<1>3. q.results[Len(q.results)] \in StepResult
  BY <1>1, <1>2
<1> QED BY <1>3 DEF LastRef, StepResult

(* What a run inside a replay computes is a queue state.                    *)
LEMMA ReplayOutcomesType ==
    ASSUME NEW q \in QueueState, NEW o \in ReplayOutcomes(q), now \in 0..MaxTicks
    PROVE  o \in QueueState
<1>1. CASE HasNextStep(q)
  <2>1. PICK v \in Verdict : o = ApplyTransition(q, Blocks(v), now)
    BY <1>1 DEF ReplayOutcomes
  <2>2. Blocks(v) \in BOOLEAN
    BY BlocksType
  <2> QED BY <1>1, <2>1, <2>2, ApplyTransitionType
<1>2. CASE ~HasNextStep(q)
  BY <1>2, CompletedCopyType DEF ReplayOutcomes
<1> QED BY <1>1, <1>2

(* Counting an execution or a loss keeps the histories typed. *)
LEMMA CountType ==
    ASSUME TypeOK, NEW s
    PROVE  /\ CountExecution(s) => executed' \in [Steps -> Nat]
           /\ MayLose(s) /\ Lose(s) => lost' \in [Steps -> 0..MaxLost]
  BY LoopConstants DEF TypeOK, CountExecution, MayLose, Lose

(* No step of any process changes the type of a variable. *)
LEMMA TypeOKStep == TypeOK /\ [Next]_vars => TypeOK'
<1> SUFFICES ASSUME TypeOK, [Next]_vars PROVE TypeOK'
  OBVIOUS
<1> USE LoopConstants
<1>1. ASSUME NEW r \in Runner, Load(r) PROVE TypeOK'
  BY <1>1 DEF TypeOK, Load, Read, Goto, Labels
<1>2. ASSUME NEW r \in Runner, LoadForResume(r) PROVE TypeOK'
  <2>1. ckpt.index \in -1..TotalSteps
    BY <1>2 DEF TypeOK, LoadForResume, CheckpointAdmitted
  <2> QED BY <1>2, <2>1 DEF TypeOK, LoadForResume, Read, Goto, Labels
<1>3. ASSUME NEW r \in Runner, ExecuteStep(r) PROVE TypeOK'
  <2>1. PICK v \in Verdict : next' =
            [next EXCEPT ![r] = ApplyTransition(base[r], Blocks(v), now)]
    BY <1>3 DEF ExecuteStep
  <2>2. base[r] \in QueueState /\ HasNextStep(base[r]) /\ now \in 0..MaxTicks
    BY <1>3 DEF ExecuteStep, TypeOK
  <2>3. next' \in [Runner -> QueueState]
    BY <2>1, <2>2, ApplyTransitionType, BlocksType DEF TypeOK
  <2>4. executed' \in [Steps -> Nat]
    BY <1>3, CountType DEF ExecuteStep
  <2> QED BY <1>3, <2>3, <2>4 DEF TypeOK, ExecuteStep, Goto, Labels
<1>4. ASSUME NEW r \in Runner, Reconfirm(r) PROVE TypeOK'
  <2>1. CompletedCopy(base[r]) \in QueueState
    BY CompletedCopyType DEF TypeOK
  <2> QED BY <1>4, <2>1 DEF TypeOK, Reconfirm, Goto, Labels
<1>5. ASSUME NEW r \in Runner, ExecutionFails(r) PROVE TypeOK'
  <2>1. executed' \in [Steps -> Nat]
    BY <1>5, CountType DEF ExecutionFails
  <2>2. lost' \in [Steps -> 0..MaxLost]
    BY <1>5, CountType DEF ExecutionFails
  <2> QED BY <1>5, <2>1, <2>2 DEF TypeOK, ExecutionFails, Goto, Labels
<1>6. ASSUME NEW r \in Runner, Reject(r) PROVE TypeOK'
  BY <1>6 DEF TypeOK, Reject, Goto, Labels
<1>7. ASSUME NEW r \in Runner, OpenForWrite(r) PROVE TypeOK'
  BY <1>7 DEF TypeOK, OpenForWrite, Goto, Labels
<1>8. ASSUME NEW r \in Runner, FinishWrite(r) PROVE TypeOK'
  BY <1>8 DEF TypeOK, FinishWrite, Goto, Labels
<1>9. ASSUME NEW r \in Runner, WriteElsewhere(r) \/ Crash(r) PROVE TypeOK'
  <2>1. lost' \in [Steps -> 0..MaxLost]
    BY <1>9, CountType DEF WriteElsewhere, Crash, TypeOK
  <2> QED BY <1>9, <2>1 DEF TypeOK, WriteElsewhere, Crash, Goto, Labels
<1>10. ASSUME NEW r \in Runner, LoadForReplay(r) PROVE TypeOK'
  BY <1>10 DEF TypeOK, LoadForReplay, Read, Goto, Labels
<1>11. ASSUME NEW q, CountReplay(q)
       PROVE  executed' \in [Steps -> Nat] /\ lost' \in [Steps -> 0..MaxLost]
  BY <1>11, CountType DEF CountReplay, TypeOK
<1>12. ASSUME NEW r \in Runner, ReplayFirst(r) PROVE TypeOK'
  <2>1. PICK q \in ReplayOutcomes(base[r]) : next' = [next EXCEPT ![r] = q]
    BY <1>12 DEF ReplayFirst
  <2>2. q \in QueueState
    BY <2>1, ReplayOutcomesType DEF TypeOK
  <2>3. next' \in [Runner -> QueueState]
    BY <2>1, <2>2 DEF TypeOK
  <2> QED BY <1>12, <1>11, <2>3 DEF TypeOK, ReplayFirst, Goto, Labels
<1>13. ASSUME NEW r \in Runner, ReplaySecond(r) PROVE TypeOK'
  BY <1>13, <1>11 DEF TypeOK, ReplaySecond, Goto, Labels
<1>14. ASSUME NEW r \in Runner, ReplayRaises(r) PROVE TypeOK'
  BY <1>14, <1>11 DEF TypeOK, ReplayRaises, Goto, Labels
<1>15. CASE TakeCheckpoint
  <2>1. LastRef(durable) \in Ref
    BY <1>15, LastRefType DEF TakeCheckpoint, TypeOK
  <2>2. durable.index - 1 \in 0..TotalSteps - 1
    BY <1>15 DEF TakeCheckpoint, TypeOK, QueueState
  <2> QED BY <1>15, <2>1, <2>2 DEF TypeOK, TakeCheckpoint
<1>16. CASE Tick
  BY <1>16 DEF TypeOK, Tick
<1>17. CASE UNCHANGED vars
  BY <1>17 DEF TypeOK, vars
<1> QED
  BY <1>1, <1>2, <1>3, <1>4, <1>5, <1>6, <1>7, <1>8, <1>9, <1>10, <1>12,
     <1>13, <1>14, <1>15, <1>16, <1>17 DEF Next, Run, Replay

(* Spec keeps the type invariant: what the queue file and the processes of  *)
(* the three command lines hold is always a prompt_queue_state artifact.    *)
THEOREM TypeCorrect == Spec => []TypeOK
<1>1. Init => TypeOK
  <2> SUFFICES ASSUME Init PROVE TypeOK
    OBVIOUS
  <2>1. durable \in QueueState /\ base \in [Runner -> QueueState]
        /\ next \in [Runner -> QueueState]
    BY NewQueueType DEF Init
  <2>2. held \in [Runner -> -1..TotalSteps] /\ pc \in [Runner -> Labels]
    BY LoopConstants DEF Init, Labels
  <2>3. executed \in [Steps -> Nat] /\ lost \in [Steps -> 0..MaxLost]
        /\ now \in 0..MaxTicks
    BY LoopConstants DEF Init
  <2> QED BY <2>1, <2>2, <2>3 DEF Init, TypeOK
<1> QED BY <1>1, TypeOKStep, PTL DEF Spec

----------------------------------------------------------------------------
(* What a step makes of a well-formed queue                                 *)

(* A settled step extends the results by one, and the queue stays a gap-free*)
(* run of results.                                                          *)
LEMMA ApplyTransitionExtends ==
    ASSUME NEW q \in QueueState, WellFormed(q), HasNextStep(q),
           NEW b \in BOOLEAN, NEW t \in 0..MaxTicks
    PROVE  LET n == ApplyTransition(q, b, t)
           IN  /\ WellFormed(n)
               /\ n.index = q.index + 1
               /\ SubSeq(n.results, 1, q.index) = q.results
<1> USE LoopConstants
<1> DEFINE n == ApplyTransition(q, b, t)
           result == [status |-> IF b THEN "blocked" ELSE "completed",
                      ref    |-> [step |-> q.index + 1, at |-> t]]
<1>1. /\ q.index \in 0..TotalSteps /\ q.index < TotalSteps
      /\ q.results \in Seq(StepResult) /\ Len(q.results) = q.index
      /\ q.status \notin {"blocked", "completed"} /\ q.active
  BY DEF QueueState, HasNextStep, WellFormed
<1>2. result \in StepResult
  BY <1>1 DEF StepResult, Ref, Steps
<1>3. /\ n.results = Append(q.results, result)
      /\ n.index = q.index + 1
      /\ n.status = IF b THEN "blocked"
                    ELSE IF q.index + 1 = TotalSteps THEN "completed" ELSE "running"
      /\ n.active = ~(~b /\ q.index + 1 = TotalSteps)
  BY <1>1 DEF ApplyTransition
<1> HIDE DEF n
<1>4. /\ Len(n.results) = q.index + 1
      /\ n.results[q.index + 1] = result
      /\ \A i \in 1..q.index : n.results[i] = q.results[i]
  BY <1>1, <1>2, <1>3
<1>5. SubSeq(n.results, 1, q.index) = q.results
  <2>1. n.results \in Seq(StepResult)
    BY <1>1, <1>2, <1>3
  <2> QED BY <2>1, <1>1, <1>4
<1>6. \A i \in 1..q.index : q.results[i].ref.step = i /\ q.results[i].status # "blocked"
  BY <1>1 DEF WellFormed
<1>7. WellFormed(n)
  <2>1. \A i \in 1..n.index : n.results[i].ref.step = i
    BY <1>1, <1>3, <1>4, <1>6
  <2>2. \A i \in 1..n.index : n.results[i].status = "blocked" =>
                                i = n.index /\ n.status = "blocked"
    BY <1>1, <1>3, <1>4, <1>6
  <2>3. n.status = "blocked" => n.index > 0 /\ n.results[n.index].status = "blocked"
    BY <1>1, <1>3, <1>4
  <2>4. n.status = "completed" <=> n.index = TotalSteps /\ n.status # "blocked"
    BY <1>1, <1>3
  <2>5. n.status = "pending" <=> n.index = 0
    BY <1>1, <1>3
  <2>6. n.active <=> n.status # "completed"
    BY <1>3
  <2>7. Len(n.results) = n.index
    BY <1>3, <1>4
  <2> QED BY <2>1, <2>2, <2>3, <2>4, <2>5, <2>6, <2>7 DEF WellFormed
<1> QED BY <1>3, <1>5, <1>7 DEF n

(* A queue whose results are valid and that has no next step is completed   *)
(* already: rewriting it as completed changes nothing.                      *)
LEMMA CompletedCopySame ==
    ASSUME NEW q \in QueueState, WellFormed(q), LoopInputsValid(q), ~HasNextStep(q)
    PROVE  CompletedCopy(q) = q
<1>1. q.status # "blocked"
  <2> SUFFICES ASSUME q.status = "blocked" PROVE FALSE
    OBVIOUS
  <2>1. q.index > 0 /\ q.results[q.index].status = "blocked" /\ Len(q.results) = q.index
    BY DEF WellFormed
  <2>2. q.index \in 1..Len(q.results)
    BY <2>1, LoopConstants DEF QueueState
  <2>3. q.results[q.index].status = "completed"
    BY <2>2 DEF LoopInputsValid, AllCompleted
  <2> QED BY <2>1, <2>3
<1>2. q.status = "completed" /\ q.active = FALSE
  BY <1>1, LoopConstants DEF WellFormed, HasNextStep, QueueState
<1> QED BY <1>2 DEF CompletedCopy, QueueState

(* A new queue is well formed.                                              *)
LEMMA NewQueueWellFormed == WellFormed(NewQueue)
  BY LoopConstants DEF WellFormed, NewQueue

----------------------------------------------------------------------------
(* Every queue state is a gap-free run of results                           *)

(* A process that replays has read a state the loop accepts: CompletedCopy  *)
(* is then no change.                                                       *)
ReplayHolds ==
    \A r \in Runner :
        pc[r] \in {"replay_first", "replay_second"} => LoopInputsValid(base[r])

ProgressInv == TypeOK /\ StateProgression /\ ReplayHolds

(* What either run of a replay computes is well formed.                     *)
LEMMA ReplayOutcomesWellFormed ==
    ASSUME NEW q \in QueueState, WellFormed(q), LoopInputsValid(q),
           now \in 0..MaxTicks, NEW o \in ReplayOutcomes(q)
    PROVE  WellFormed(o)
<1>1. CASE HasNextStep(q)
  <2>1. PICK v \in Verdict : o = ApplyTransition(q, Blocks(v), now)
    BY <1>1 DEF ReplayOutcomes
  <2> QED BY <1>1, <2>1, BlocksType, ApplyTransitionExtends
<1>2. CASE ~HasNextStep(q)
  BY <1>2, CompletedCopySame DEF ReplayOutcomes
<1> QED BY <1>1, <1>2

(* The inductive step, process by process.                                  *)
LEMMA ProgressStep == ProgressInv /\ [Next]_vars => StateProgression' /\ ReplayHolds'
<1> SUFFICES ASSUME ProgressInv, [Next]_vars
             PROVE  StateProgression' /\ ReplayHolds'
  OBVIOUS
<1>0. TypeOK /\ StateProgression /\ ReplayHolds
  BY DEF ProgressInv
<1>1. ASSUME NEW r \in Runner, Load(r) PROVE StateProgression' /\ ReplayHolds'
  BY <1>0, <1>1 DEF TypeOK, StateProgression, ReplayHolds, Load, Read, Goto
<1>2. ASSUME NEW r \in Runner, LoadForResume(r) PROVE StateProgression' /\ ReplayHolds'
  BY <1>0, <1>2 DEF TypeOK, StateProgression, ReplayHolds, LoadForResume, Read, Goto
<1>3. ASSUME NEW r \in Runner, LoadForReplay(r) PROVE StateProgression' /\ ReplayHolds'
  BY <1>0, <1>3 DEF TypeOK, StateProgression, ReplayHolds, LoadForReplay, Read,
     Goto, CheckpointAdmitted
<1>4. ASSUME NEW r \in Runner, ExecuteStep(r) PROVE StateProgression' /\ ReplayHolds'
  <2>1. PICK v \in Verdict : next' =
            [next EXCEPT ![r] = ApplyTransition(base[r], Blocks(v), now)]
    BY <1>4 DEF ExecuteStep
  <2>2. WellFormed(ApplyTransition(base[r], Blocks(v), now))
    BY <1>0, <1>4, BlocksType, ApplyTransitionExtends
    DEF ExecuteStep, TypeOK, StateProgression
  <2>3. \A p \in Runner : WellFormed(next'[p])
    BY <1>0, <2>1, <2>2 DEF TypeOK, StateProgression
  <2> QED BY <1>0, <1>4, <2>3 DEF ExecuteStep, TypeOK, StateProgression,
          ReplayHolds, Goto
<1>5. ASSUME NEW r \in Runner, Reconfirm(r) PROVE StateProgression' /\ ReplayHolds'
  <2>1. CompletedCopy(base[r]) = base[r]
    BY <1>0, <1>5, CompletedCopySame DEF Reconfirm, TypeOK, StateProgression
  <2>2. \A p \in Runner : WellFormed(next'[p])
    BY <1>0, <1>5, <2>1 DEF Reconfirm, TypeOK, StateProgression
  <2> QED BY <1>0, <1>5, <2>2 DEF Reconfirm, TypeOK, StateProgression,
          ReplayHolds, Goto
<1>6. ASSUME NEW r \in Runner,
             ExecutionFails(r) \/ Reject(r) \/ OpenForWrite(r)
             \/ WriteElsewhere(r) \/ Crash(r)
      PROVE  StateProgression' /\ ReplayHolds'
  BY <1>0, <1>6 DEF ExecutionFails, Reject, OpenForWrite, WriteElsewhere, Crash,
     TypeOK, StateProgression, ReplayHolds, Goto
<1>7. ASSUME NEW r \in Runner, FinishWrite(r) PROVE StateProgression' /\ ReplayHolds'
  BY <1>0, <1>7 DEF FinishWrite, TypeOK, StateProgression, ReplayHolds, Goto
<1>8. ASSUME NEW r \in Runner, ReplayFirst(r) PROVE StateProgression' /\ ReplayHolds'
  <2>1. PICK q \in ReplayOutcomes(base[r]) : next' = [next EXCEPT ![r] = q]
    BY <1>8 DEF ReplayFirst
  <2>2. WellFormed(q)
    BY <1>0, <1>8, ReplayOutcomesWellFormed
    DEF ReplayFirst, TypeOK, StateProgression, ReplayHolds
  <2>3. \A p \in Runner : WellFormed(next'[p])
    BY <1>0, <2>1, <2>2 DEF TypeOK, StateProgression
  <2> QED BY <1>0, <1>8, <2>3 DEF ReplayFirst, TypeOK, StateProgression,
          ReplayHolds, Goto
<1>9. ASSUME NEW r \in Runner, ReplaySecond(r) \/ ReplayRaises(r)
      PROVE  StateProgression' /\ ReplayHolds'
  BY <1>0, <1>9 DEF ReplaySecond, ReplayRaises, TypeOK, StateProgression,
     ReplayHolds, Goto
<1>10. CASE TakeCheckpoint \/ Tick \/ UNCHANGED vars
  BY <1>0, <1>10 DEF TakeCheckpoint, Tick, vars, StateProgression, ReplayHolds
<1> QED
  BY <1>1, <1>2, <1>3, <1>4, <1>5, <1>6, <1>7, <1>8, <1>9, <1>10 DEF Next, Run, Replay

(* A new queue is well formed and no process holds anything.                *)
LEMMA ProgressInit == Init => StateProgression /\ ReplayHolds
  BY NewQueueWellFormed DEF Init, StateProgression, ReplayHolds

(* However many processes run, resume, replay, crash and tear the file,     *)
(* every queue state read, computed or stored is a gap-free run of results. *)
THEOREM Progression == Spec => [](StateProgression /\ ReplayHolds)
<1>1. TypeOK /\ StateProgression /\ ReplayHolds /\ [Next]_vars
      => (StateProgression /\ ReplayHolds)'
  BY ProgressStep DEF ProgressInv
<1> QED BY <1>1, ProgressInit, TypeCorrect, PTL DEF Spec

----------------------------------------------------------------------------
(* What is recorded was executed                                            *)

Covered(q) == \A s \in Steps : s <= q.index => executed[s] > 0

CoverInv ==
    Covered(durable) /\ \A r \in Runner : Covered(base[r]) /\ Covered(next[r])

(* Counters of executions never go down.                                    *)
LEMMA CoverStep ==
    ProgressInv /\ CoverInv /\ [Next]_vars => CoverInv'
<1> SUFFICES ASSUME ProgressInv, CoverInv, [Next]_vars PROVE CoverInv'
  OBVIOUS
<1>0. TypeOK /\ StateProgression /\ ReplayHolds
  BY DEF ProgressInv
<1>e. executed' \in [Steps -> Nat]
  BY <1>0, TypeOKStep DEF TypeOK
<1>a. ASSUME \A s \in Steps : executed'[s] >= executed[s],
             NEW q \in QueueState, Covered(q)
      PROVE  \A s \in Steps : s <= q.index => executed'[s] > 0
  <2> SUFFICES ASSUME NEW s \in Steps, s <= q.index PROVE executed'[s] > 0
    OBVIOUS
  <2>1. executed[s] > 0 /\ executed'[s] >= executed[s]
    BY <1>a DEF Covered
  <2>2. executed[s] \in Nat /\ executed'[s] \in Nat
    BY <1>0, <1>e DEF TypeOK
  <2> QED BY <2>1, <2>2
<1>b. ASSUME NEW s \in Steps, CountExecution(s)
      PROVE  /\ \A t \in Steps : executed'[t] >= executed[t]
             /\ executed'[s] > 0
  BY <1>0, <1>b DEF CountExecution, TypeOK
<1>c. ASSUME NEW r \in Runner, CountReplay(base[r])
      PROVE  \A t \in Steps : executed'[t] >= executed[t]
  <2>1. CASE HasNextStep(base[r])
    <3>1. base[r].index + 1 \in Steps
      BY <1>0, <2>1, LoopConstants DEF TypeOK, QueueState, HasNextStep, Steps
    <3> QED BY <1>b, <1>c, <2>1, <3>1 DEF CountReplay
  <2>2. CASE ~HasNextStep(base[r])
    BY <1>0, <1>c, <2>2 DEF CountReplay, TypeOK
  <2> QED BY <2>1, <2>2
<1>d. ASSUME NEW r \in Runner, HasNextStep(base[r]), CountExecution(StepOf(r)),
             NEW b \in BOOLEAN
      PROVE  \A s \in Steps : s <= ApplyTransition(base[r], b, now).index =>
                                  executed'[s] > 0
  <2>1. base[r] \in QueueState /\ base[r].index + 1 \in Steps
    BY <1>0, <1>d, LoopConstants DEF TypeOK, QueueState, HasNextStep, Steps
  <2>2. ApplyTransition(base[r], b, now).index = base[r].index + 1
    BY DEF ApplyTransition
  <2>3. Covered(base[r])
    BY DEF CoverInv
  <2>4. /\ \A t \in Steps : executed'[t] >= executed[t]
        /\ executed'[base[r].index + 1] > 0
    BY <1>b, <1>d, <2>1 DEF StepOf
  <2>5. base[r].index \in Int /\ \A s \in Steps : s \in Int
    BY <2>1 DEF QueueState, Steps
  <2>6. \A s \in Steps : s <= base[r].index => executed'[s] > 0
    BY <1>a, <2>1, <2>3, <2>4
  <2> QED BY <2>2, <2>4, <2>5, <2>6
<1>1. ASSUME NEW r \in Runner,
             Load(r) \/ LoadForResume(r) \/ LoadForReplay(r)
      PROVE  CoverInv'
  BY <1>0, <1>1 DEF TypeOK, CoverInv, Covered, Load, LoadForResume,
     LoadForReplay, Read
<1>2. ASSUME NEW r \in Runner, ExecuteStep(r) PROVE CoverInv'
  <2>1. PICK v \in Verdict : next' =
            [next EXCEPT ![r] = ApplyTransition(base[r], Blocks(v), now)]
    BY <1>2 DEF ExecuteStep
  <2>2. HasNextStep(base[r]) /\ CountExecution(StepOf(r)) /\ StepOf(r) \in Steps
        /\ UNCHANGED <<durable, base>>
    BY <1>0, <1>2, LoopConstants
    DEF ExecuteStep, TypeOK, QueueState, HasNextStep, StepOf, Steps
  <2>3. \A s \in Steps : s <= next'[r].index => executed'[s] > 0
    BY <1>0, <1>d, <2>1, <2>2, BlocksType DEF TypeOK
  <2>4. \A t \in Steps : executed'[t] >= executed[t]
    BY <1>b, <2>2
  <2>5. \A p \in Runner, s \in Steps : s <= next'[p].index => executed'[s] > 0
    <3> SUFFICES ASSUME NEW p \in Runner
                 PROVE  \A s \in Steps : s <= next'[p].index => executed'[s] > 0
      OBVIOUS
    <3>1. CASE p = r
      BY <2>3, <3>1
    <3>2. CASE p # r
      <4>1. next'[p] = next[p] /\ next[p] \in QueueState /\ Covered(next[p])
        BY <1>0, <2>1, <3>2 DEF TypeOK, CoverInv
      <4> QED BY <1>a, <2>4, <4>1
    <3> QED BY <3>1, <3>2
  <2>6. /\ \A s \in Steps : s <= durable.index => executed'[s] > 0
        /\ \A p \in Runner, s \in Steps : s <= base[p].index => executed'[s] > 0
    BY <1>0, <1>a, <2>4 DEF TypeOK, CoverInv
  <2> QED BY <2>2, <2>5, <2>6 DEF CoverInv, Covered
<1>3. ASSUME NEW r \in Runner, Reconfirm(r) PROVE CoverInv'
  <2>1. next' = [next EXCEPT ![r] = CompletedCopy(base[r])]
        /\ UNCHANGED <<durable, base, executed>>
    BY <1>3 DEF Reconfirm
  <2>2. CompletedCopy(base[r]).index = base[r].index
    BY <1>0 DEF CompletedCopy, TypeOK, QueueState
  <2> QED BY <1>0, <2>1, <2>2 DEF TypeOK, CoverInv, Covered
<1>4. ASSUME NEW r \in Runner, ExecutionFails(r) PROVE CoverInv'
  <2>1. CountExecution(StepOf(r)) /\ StepOf(r) \in Steps
        /\ UNCHANGED <<durable, base, next>>
    BY <1>0, <1>4, LoopConstants
    DEF ExecutionFails, TypeOK, QueueState, HasNextStep, StepOf, Steps
  <2>2. \A t \in Steps : executed'[t] >= executed[t]
    BY <1>b, <2>1
  <2> QED BY <1>0, <1>a, <2>1, <2>2 DEF TypeOK, CoverInv, Covered
<1>5. ASSUME NEW r \in Runner,
             Reject(r) \/ OpenForWrite(r) \/ WriteElsewhere(r) \/ Crash(r)
      PROVE  CoverInv'
  BY <1>5 DEF Reject, OpenForWrite, WriteElsewhere, Crash, CoverInv, Covered
<1>6. ASSUME NEW r \in Runner, FinishWrite(r) PROVE CoverInv'
  BY <1>6 DEF FinishWrite, CoverInv, Covered
<1>7. ASSUME NEW r \in Runner, ReplayFirst(r) PROVE CoverInv'
  <2>1. PICK q \in ReplayOutcomes(base[r]) : next' = [next EXCEPT ![r] = q]
    BY <1>7 DEF ReplayFirst
  <2>2. CountReplay(base[r]) /\ UNCHANGED <<durable, base>>
    BY <1>7 DEF ReplayFirst
  <2>3. \A t \in Steps : executed'[t] >= executed[t]
    BY <1>c, <2>2
  <2>4. \A s \in Steps : s <= q.index => executed'[s] > 0
    <3>1. CASE HasNextStep(base[r])
      <4>1. PICK v \in Verdict : q = ApplyTransition(base[r], Blocks(v), now)
        BY <2>1, <3>1 DEF ReplayOutcomes
      <4>2. CountExecution(StepOf(r))
        BY <2>2, <3>1 DEF CountReplay, StepOf
      <4> QED BY <1>d, <3>1, <4>1, <4>2, BlocksType
    <3>2. CASE ~HasNextStep(base[r])
      <4>1. q.index = base[r].index
        BY <1>0, <2>1, <3>2 DEF ReplayOutcomes, CompletedCopy, TypeOK, QueueState
      <4>2. \A s \in Steps : s <= base[r].index => executed'[s] > 0
        BY <1>0, <1>a, <2>3 DEF TypeOK, CoverInv
      <4> QED BY <4>1, <4>2
    <3> QED BY <3>1, <3>2
  <2>5. \A p \in Runner, s \in Steps : s <= next'[p].index => executed'[s] > 0
    <3> SUFFICES ASSUME NEW p \in Runner
                 PROVE  \A s \in Steps : s <= next'[p].index => executed'[s] > 0
      OBVIOUS
    <3>1. CASE p = r
      BY <1>0, <2>1, <2>4, <3>1 DEF TypeOK
    <3>2. CASE p # r
      <4>1. next'[p] = next[p] /\ next[p] \in QueueState /\ Covered(next[p])
        BY <1>0, <2>1, <3>2 DEF TypeOK, CoverInv
      <4> QED BY <1>a, <2>3, <4>1
    <3> QED BY <3>1, <3>2
  <2>6. /\ \A s \in Steps : s <= durable.index => executed'[s] > 0
        /\ \A p \in Runner, s \in Steps : s <= base[p].index => executed'[s] > 0
    BY <1>0, <1>a, <2>3 DEF TypeOK, CoverInv
  <2> QED BY <2>2, <2>5, <2>6 DEF CoverInv, Covered
<1>8. ASSUME NEW r \in Runner, ReplaySecond(r) \/ ReplayRaises(r) PROVE CoverInv'
  <2>1. CountReplay(base[r]) /\ UNCHANGED <<durable, base, next>>
    BY <1>8 DEF ReplaySecond, ReplayRaises
  <2>2. \A t \in Steps : executed'[t] >= executed[t]
    BY <1>c, <2>1
  <2> QED BY <1>0, <1>a, <2>1, <2>2 DEF TypeOK, CoverInv, Covered
<1>9. CASE TakeCheckpoint \/ Tick \/ UNCHANGED vars
  BY <1>9 DEF TakeCheckpoint, Tick, vars, CoverInv, Covered
<1> QED
  BY <1>1, <1>2, <1>3, <1>4, <1>5, <1>6, <1>7, <1>8, <1>9 DEF Next, Run, Replay

(* Nothing is recorded before anything ran.                                  *)
LEMMA CoverInit == Init => CoverInv
  BY LoopConstants DEF Init, CoverInv, Covered, NewQueue, Steps

(* No file ever holds a result of a step nobody executed, whichever process *)
(* overwrote which.                                                         *)
THEOREM RecordedExecuted == Spec => []RecordedStepsWereExecuted
<1>1. TypeOK /\ StateProgression /\ ReplayHolds /\ CoverInv /\ [Next]_vars => CoverInv'
  BY CoverStep DEF ProgressInv
<1>2. CoverInv => RecordedStepsWereExecuted
  BY DEF CoverInv, Covered, RecordedStepsWereExecuted
<1> QED BY <1>1, <1>2, CoverInit, TypeCorrect, Progression, PTL DEF Spec

----------------------------------------------------------------------------
(* Checkpoints                                                              *)

(* A checkpoint names the decision of the step it was built after.          *)
CheckpointNames == ckpt # NoCheckpoint => ckpt.ref.step = ckpt.index + 1

(* A checkpoint keeps naming the step it was written at, and an admitted    *)
(* one names the step that comes next in the file.                          *)
LEMMA CheckpointStep ==
    TypeOK /\ StateProgression /\ CheckpointNames /\ [Next]_vars => CheckpointNames'
<1> SUFFICES ASSUME TypeOK, StateProgression, CheckpointNames, [Next]_vars
             PROVE  CheckpointNames'
  OBVIOUS
<1>1. CASE TakeCheckpoint
  <2>1. /\ ckpt' = [index |-> durable.index - 1, ref |-> LastRef(durable)]
        /\ durable.index > 0
    BY <1>1 DEF TakeCheckpoint
  <2>2. durable.index \in Nat /\ Len(durable.results) = durable.index
    BY LoopConstants DEF TypeOK, QueueState, StateProgression, WellFormed
  <2>3. LastRef(durable).step = durable.index
    BY <2>1, <2>2 DEF LastRef, StateProgression, WellFormed
  <2> QED BY <2>1, <2>2, <2>3 DEF CheckpointNames
<1>2. ASSUME NEW r \in Runner, ckpt' # ckpt
      PROVE  ~( \/ Run(r) \/ LoadForResume(r) \/ WriteElsewhere(r) \/ Crash(r)
                \/ LoadForReplay(r) \/ Replay(r))
  BY <1>2 DEF Run, Replay, Load, LoadForResume, LoadForReplay, Read, ExecuteStep,
     Reconfirm, ExecutionFails, Reject, OpenForWrite, FinishWrite,
     WriteElsewhere, Crash, ReplayFirst, ReplaySecond, ReplayRaises
<1>3. CASE ~TakeCheckpoint
  <2>1. ckpt' = ckpt
    BY <1>2, <1>3 DEF Next, Tick, vars
  <2> QED BY <2>1 DEF CheckpointNames
<1> QED BY <1>1, <1>3

(* A stale checkpoint never resumes or replays a queue that has moved on,   *)
(* however many processes move it.                                          *)
THEOREM FreshCheckpoints == Spec => []OnlyFreshCheckpointsAdmitted
<1>1. Init => CheckpointNames
  BY DEF Init, CheckpointNames
<1>2. TypeOK /\ CheckpointNames => OnlyFreshCheckpointsAdmitted
  <2> SUFFICES ASSUME TypeOK, CheckpointNames, CheckpointAdmitted(ckpt, durable)
               PROVE  ckpt.index = durable.index - 1
    BY DEF OnlyFreshCheckpointsAdmitted
  <2>1. ckpt # NoCheckpoint /\ LastRef(durable) = ckpt.ref
        /\ LoopInputsValid(durable) /\ durable.results # <<>>
    BY DEF CheckpointAdmitted
  <2>2. durable.results \in Seq(StepResult) /\ Len(durable.results) = durable.index
    BY <2>1 DEF TypeOK, QueueState, LoopInputsValid
  <2>3. Len(durable.results) \in 1..Len(durable.results)
    BY <2>1, <2>2
  <2>4. LastRef(durable).step = durable.index
    BY <2>1, <2>2, <2>3 DEF LastRef, LoopInputsValid
  <2>5. ckpt.index \in Int
    BY <2>1 DEF TypeOK
  <2> QED BY <2>1, <2>2, <2>4, <2>5 DEF CheckpointNames
<1> QED BY <1>1, <1>2, CheckpointStep, TypeCorrect, Progression, PTL DEF Spec

----------------------------------------------------------------------------
(* Replays                                                                  *)

(* What a replay computed first is its base one step further, decided in    *)
(* some second, or its base again if no step is left.                       *)
OneStepOn(n, q) ==
    IF HasNextStep(q)
    THEN \E b \in BOOLEAN, t \in 0..MaxTicks : n = ApplyTransition(q, b, t)
    ELSE n = CompletedCopy(q)

ReplayInv ==
    \A r \in Runner : pc[r] = "replay_second" => OneStepOn(next[r], base[r])

(* The decision a step ends with carries the second it was made in.         *)
LEMMA DecidedAt ==
    ASSUME NEW q \in QueueState, NEW b \in BOOLEAN, NEW t \in 0..MaxTicks
    PROVE  LastRef(ApplyTransition(q, b, t)).at = t
<1> DEFINE result == [status |-> IF b THEN "blocked" ELSE "completed",
                      ref    |-> [step |-> q.index + 1, at |-> t]]
           results == Append(q.results, result)
<1>1. ApplyTransition(q, b, t).results = results
  BY DEF ApplyTransition
<1>2. q.results \in Seq(StepResult)
  BY DEF QueueState
<1>3. results[Len(results)] = result
  BY <1>2
<1> QED BY <1>1, <1>3 DEF LastRef

(* Of two runs on one queue that end in one status, the second agrees with  *)
(* the first exactly if the first was decided in the second it is now, or   *)
(* no step is left.                                                         *)
LEMMA SameOutcome ==
    ASSUME NEW q \in QueueState, NEW n, OneStepOn(n, q),
           NEW o \in ReplayOutcomes(q), o.status = n.status, now \in 0..MaxTicks
    PROVE  o = n <=> ~HasNextStep(q) \/ LastRef(n).at = now
<1>1. CASE HasNextStep(q)
  <2>1. PICK v \in Verdict : o = ApplyTransition(q, Blocks(v), now)
    BY <1>1 DEF ReplayOutcomes
  <2>2. PICK b \in BOOLEAN, t \in 0..MaxTicks : n = ApplyTransition(q, b, t)
    BY <1>1 DEF OneStepOn
  <2>3. Blocks(v) \in BOOLEAN
    BY BlocksType
  <2>4. /\ o.status = "blocked" <=> Blocks(v)
        /\ n.status = "blocked" <=> b
    BY <2>1, <2>2, <2>3 DEF ApplyTransition
  <2>5. Blocks(v) = b
    BY <2>2, <2>3, <2>4
  <2>6. LastRef(o).at = now /\ LastRef(n).at = t
    BY <2>1, <2>2, <2>3, DecidedAt
  <2> QED BY <1>1, <2>1, <2>2, <2>5, <2>6
<1>2. CASE ~HasNextStep(q)
  BY <1>2 DEF ReplayOutcomes, OneStepOn
<1> QED BY <1>1, <1>2

(* Nothing but its own first run touches what a replay compares with.       *)
LEMMA ReplayStep == TypeOK /\ ReplayInv /\ [Next]_vars => ReplayInv'
<1> SUFFICES ASSUME TypeOK, ReplayInv, [Next]_vars,
                    NEW p \in Runner, pc'[p] = "replay_second"
             PROVE  OneStepOn(next'[p], base'[p])
  BY DEF ReplayInv, OneStepOn, HasNextStep, ApplyTransition, CompletedCopy
<1>a. ASSUME pc'[p] = pc[p], next'[p] = next[p], base'[p] = base[p]
      PROVE  OneStepOn(next'[p], base'[p])
  BY <1>a DEF ReplayInv
<1>1. ASSUME NEW r \in Runner,
             Load(r) \/ LoadForResume(r) \/ LoadForReplay(r)
      PROVE  OneStepOn(next'[p], base'[p])
  BY <1>a, <1>1 DEF Load, LoadForResume, LoadForReplay, Read, Goto, TypeOK
<1>2. ASSUME NEW r \in Runner, ExecuteStep(r) \/ Reconfirm(r)
      PROVE  OneStepOn(next'[p], base'[p])
  <2>1. PICK q : next' = [next EXCEPT ![r] = q]
    BY <1>2 DEF ExecuteStep, Reconfirm
  <2>2. pc' = [pc EXCEPT ![r] = "stepped"] /\ UNCHANGED base
    BY <1>2 DEF ExecuteStep, Reconfirm, Goto
  <2> QED BY <1>a, <2>1, <2>2 DEF TypeOK
<1>3. ASSUME NEW r \in Runner,
             ExecutionFails(r) \/ Reject(r) \/ OpenForWrite(r) \/ FinishWrite(r)
             \/ WriteElsewhere(r) \/ Crash(r) \/ ReplaySecond(r)
             \/ ReplayRaises(r)
      PROVE  OneStepOn(next'[p], base'[p])
  BY <1>a, <1>3 DEF ExecutionFails, Reject, OpenForWrite, FinishWrite,
     WriteElsewhere, Crash, ReplaySecond, ReplayRaises, Goto, TypeOK
<1>4. ASSUME NEW r \in Runner, ReplayFirst(r)
      PROVE  OneStepOn(next'[p], base'[p])
  <2>1. PICK q \in ReplayOutcomes(base[r]) : next' = [next EXCEPT ![r] = q]
    BY <1>4 DEF ReplayFirst
  <2>2. pc' = [pc EXCEPT ![r] = "replay_second"] /\ UNCHANGED base
    BY <1>4 DEF ReplayFirst, Goto
  <2>3. CASE p # r
    BY <1>a, <2>1, <2>2, <2>3 DEF TypeOK
  <2>4. CASE p = r /\ HasNextStep(base[r])
    <3>1. PICK v \in Verdict : q = ApplyTransition(base[r], Blocks(v), now)
      BY <2>1, <2>4 DEF ReplayOutcomes
    <3> QED BY <2>1, <2>2, <2>4, <3>1, BlocksType DEF OneStepOn, TypeOK
  <2>5. CASE p = r /\ ~HasNextStep(base[r])
    BY <2>1, <2>2, <2>5 DEF OneStepOn, ReplayOutcomes, TypeOK
  <2> QED BY <2>3, <2>4, <2>5
<1>5. CASE TakeCheckpoint \/ Tick \/ UNCHANGED vars
  BY <1>a, <1>5 DEF TakeCheckpoint, Tick, vars
<1> QED
  BY <1>1, <1>2, <1>3, <1>4, <1>5 DEF Next, Run, Replay

(* A replay finds a match if and only if both its runs are decided in one   *)
(* second (or no step is left), whatever other processes do between them.   *)
THEOREM ReplaysMatch == Spec => ReplayParityMatches
<1>1. Init => ReplayInv
  BY DEF Init, ReplayInv
<1>2. TypeOK /\ ReplayInv /\ [Next]_vars =>
      [parity' # parity =>
          \E r \in Runner :
              /\ pc[r] = "replay_second"
              /\ parity' = "match" <=>
                     ~HasNextStep(base[r]) \/ LastRef(next[r]).at = now]_vars
  <2> SUFFICES ASSUME TypeOK, ReplayInv, [Next]_vars, parity' # parity
               PROVE  \E r \in Runner :
                          /\ pc[r] = "replay_second"
                          /\ parity' = "match" <=>
                                 ~HasNextStep(base[r]) \/ LastRef(next[r]).at = now
    OBVIOUS
  <2>1. PICK r \in Runner : ReplaySecond(r)
    BY DEF Next, Run, Replay, Load, LoadForResume, LoadForReplay, Read,
       ExecuteStep, Reconfirm, ExecutionFails, Reject, OpenForWrite, FinishWrite,
       WriteElsewhere, Crash, ReplayFirst, ReplayRaises, TakeCheckpoint, Tick,
       vars
  <2>2. PICK q \in ReplayOutcomes(base[r]) :
            /\ q.status = next[r].status
            /\ parity' = IF q = next[r] THEN "match" ELSE "mismatch"
    BY <2>1 DEF ReplaySecond
  <2>3. pc[r] = "replay_second" /\ OneStepOn(next[r], base[r])
    BY <2>1 DEF ReplaySecond, ReplayInv
  <2>4. q = next[r] <=> ~HasNextStep(base[r]) \/ LastRef(next[r]).at = now
    BY <2>2, <2>3, SameOutcome DEF TypeOK
  <2>5. parity' = "match" <=> q = next[r]
    BY <2>2
  <2> QED BY <2>3, <2>4, <2>5
<1> QED BY <1>1, <1>2, ReplayStep, TypeCorrect, PTL DEF Spec, ReplayParityMatches

----------------------------------------------------------------------------
(* One process at a time                                                    *)

OneRunner == \A a, b \in Runner : a = b

(* What a process has read is what the file holds until it is written; what *)
(* it has computed is one step further, or the same if there is none.       *)
CallInv ==
    \A r \in Runner :
        /\ pc[r] # "idle" => base[r] = durable
        /\ pc[r] \in {"stepped", "writing"} =>
               IF HasNextStep(base[r])
               THEN \E b \in BOOLEAN, t \in 0..MaxTicks :
                        next[r] = ApplyTransition(base[r], b, t)
               ELSE next[r] = base[r]

(* With one process, nothing changes the file behind a call's back.         *)
LEMMA CallStep ==
    ASSUME OneRunner
    PROVE  ProgressInv /\ CallInv /\ [Next]_vars => CallInv'
<1> SUFFICES ASSUME ProgressInv, CallInv, [Next]_vars PROVE CallInv'
  OBVIOUS
<1>0. TypeOK /\ StateProgression
  BY DEF ProgressInv
<1>o. \A a, b \in Runner : a = b
  BY DEF OneRunner
<1>1. ASSUME NEW r \in Runner,
             Load(r) \/ LoadForResume(r) \/ LoadForReplay(r)
      PROVE  CallInv'
  BY <1>0, <1>o, <1>1 DEF Load, LoadForResume, LoadForReplay, Read, Goto,
     TypeOK, CallInv
<1>2. ASSUME NEW r \in Runner, ExecuteStep(r) PROVE CallInv'
  <2>1. PICK v \in Verdict : next' =
            [next EXCEPT ![r] = ApplyTransition(base[r], Blocks(v), now)]
    BY <1>2 DEF ExecuteStep
  <2>2. next'[r] = ApplyTransition(base[r], Blocks(v), now)
    BY <1>0, <2>1 DEF TypeOK
  <2>3. Blocks(v) \in BOOLEAN /\ now \in 0..MaxTicks
    BY <1>0, BlocksType DEF TypeOK
  <2>4. HasNextStep(base[r]) /\ base[r] = durable
        /\ UNCHANGED <<base, durable>>
    BY <1>2 DEF ExecuteStep, CallInv
  <2> QED BY <1>o, <2>2, <2>3, <2>4 DEF CallInv
<1>3. ASSUME NEW r \in Runner, Reconfirm(r) PROVE CallInv'
  <2>1. /\ next' = [next EXCEPT ![r] = CompletedCopy(base[r])]
        /\ ~HasNextStep(base[r]) /\ LoopInputsValid(base[r])
        /\ base[r] = durable /\ UNCHANGED <<base, durable>>
    BY <1>3 DEF Reconfirm, CallInv
  <2>2. next'[r] = base[r]
    BY <1>0, <2>1, CompletedCopySame DEF TypeOK, StateProgression
  <2> QED BY <1>o, <2>1, <2>2 DEF CallInv
<1>4. ASSUME NEW r \in Runner,
             ExecutionFails(r) \/ Reject(r) \/ FinishWrite(r)
             \/ WriteElsewhere(r) \/ Crash(r) \/ ReplaySecond(r)
             \/ ReplayRaises(r)
      PROVE  CallInv'
  <2>1. pc'[r] = "idle"
    BY <1>0, <1>4 DEF ExecutionFails, Reject, FinishWrite, WriteElsewhere, Crash,
       ReplaySecond, ReplayRaises, Goto, TypeOK
  <2> QED BY <1>o, <2>1 DEF CallInv
<1>5. ASSUME NEW r \in Runner, OpenForWrite(r) PROVE CallInv'
  BY <1>0, <1>o, <1>5 DEF OpenForWrite, Goto, TypeOK, CallInv
<1>6. ASSUME NEW r \in Runner, ReplayFirst(r) PROVE CallInv'
  BY <1>0, <1>o, <1>6 DEF ReplayFirst, Goto, TypeOK, CallInv
<1>7. CASE TakeCheckpoint \/ Tick \/ UNCHANGED vars
  BY <1>7 DEF TakeCheckpoint, Tick, vars, CallInv
<1> QED
  BY <1>1, <1>2, <1>3, <1>4, <1>5, <1>6, <1>7 DEF Next, Run, Replay

(* No call is under way before the first one.                               *)
LEMMA CallInit == Init => CallInv
  BY DEF Init, CallInv

(* With one process at a time, what a call holds is the file it read and    *)
(* one step of it, until its own write.                                     *)
THEOREM OneCall ==
    ASSUME OneRunner PROVE Spec => []CallInv
<1>1. TypeOK /\ StateProgression /\ ReplayHolds /\ CallInv /\ [Next]_vars => CallInv'
  BY CallStep DEF ProgressInv
<1> QED BY <1>1, CallInit, TypeCorrect, Progression, PTL DEF Spec

(* The file changes when a write ends, and then by one step or not at all.  *)
LEMMA FileStep ==
    ASSUME ProgressInv, CallInv, [Next]_vars, durable' # durable
    PROVE  \E r \in Runner, b \in BOOLEAN, t \in 0..MaxTicks :
               /\ FinishWrite(r)
               /\ pc[r] = "writing" /\ base[r] = durable
               /\ HasNextStep(durable)
               /\ durable' = ApplyTransition(durable, b, t)
<1>1. PICK r \in Runner : FinishWrite(r)
  BY DEF Next, Run, Replay, Load, LoadForResume, LoadForReplay, Read, ExecuteStep,
     Reconfirm, ExecutionFails, Reject, OpenForWrite, WriteElsewhere, Crash,
     ReplayFirst, ReplaySecond, ReplayRaises, TakeCheckpoint, Tick, vars
<1>2. pc[r] = "writing" /\ durable' = next[r] /\ base[r] = durable
  BY <1>1 DEF FinishWrite, CallInv
<1>3. HasNextStep(durable)
  BY <1>2 DEF CallInv
<1> QED BY <1>1, <1>2, <1>3 DEF CallInv

(* One process at a time only ever appends results, one by one.             *)
THEOREM OnlyAppended ==
    ASSUME OneRunner PROVE Spec => ResultsOnlyAppended
<1>1. TypeOK /\ StateProgression /\ ReplayHolds /\ CallInv /\ [Next]_vars =>
      [\/ durable' = durable
       \/ /\ durable'.index = durable.index + 1
          /\ SubSeq(durable'.results, 1, durable.index) = durable.results]_vars
  <2> SUFFICES ASSUME ProgressInv, CallInv, [Next]_vars, durable' # durable
               PROVE  /\ durable'.index = durable.index + 1
                      /\ SubSeq(durable'.results, 1, durable.index) = durable.results
    BY DEF ProgressInv
  <2>1. PICK b \in BOOLEAN, t \in 0..MaxTicks :
            HasNextStep(durable) /\ durable' = ApplyTransition(durable, b, t)
    BY FileStep
  <2> QED BY <2>1, ApplyTransitionExtends
          DEF ProgressInv, TypeOK, StateProgression
<1> QED BY <1>1, TypeCorrect, Progression, OneCall, PTL DEF Spec, ResultsOnlyAppended

(* One process at a time settles step after step, as SequentialQueue does:  *)
(* crashes, losses and torn writes are stutters.                            *)
THEOREM Refinement ==
    ASSUME OneRunner PROVE Spec => ImplementsSequentialQueue
<1>1. Init => Abstract!Init
  BY DEF Init, NewQueue, Abstract!Init
<1>2. TypeOK /\ StateProgression /\ ReplayHolds /\ CallInv /\ [Next]_vars =>
      [Abstract!Next]_(Abstract!vars)
  <2> SUFFICES ASSUME ProgressInv, CallInv, [Next]_vars, durable' # durable
               PROVE  Abstract!Next
    BY DEF ProgressInv, Abstract!vars
  <2>1. PICK b \in BOOLEAN, t \in 0..MaxTicks :
            HasNextStep(durable) /\ durable' = ApplyTransition(durable, b, t)
    BY FileStep
  <2>2. /\ durable'.index = durable.index + 1
        /\ durable'.status = IF b THEN "blocked"
                             ELSE IF durable.index + 1 = TotalSteps
                                  THEN "completed" ELSE "running"
    BY <2>1 DEF ApplyTransition
  <2>3. durable.status \notin {"blocked", "completed"}
    BY <2>1 DEF HasNextStep
  <2>4. Abstract!Settle(b)
    BY <2>2, <2>3 DEF Abstract!Settle
  <2> QED BY <2>4 DEF Abstract!Next
<1> QED
  BY <1>1, <1>2, TypeCorrect, Progression, OneCall, PTL
  DEF Spec, ImplementsSequentialQueue, Abstract!Spec

(* Step s was executed and the result is in nobody's file yet.              *)
InHand(s) == \E r \in Runner : Unsaved(r) /\ StepOf(r) = s

(* Lost and recorded executions are counted; what is left to see is what    *)
(* each step of a process does to the execution in its hands.               *)
LEMMA AccountStep ==
    ASSUME OneRunner
    PROVE  ProgressInv /\ CallInv /\ ExecutionsAccountedFor /\ [Next]_vars
           => ExecutionsAccountedFor'
<1> SUFFICES ASSUME ProgressInv, CallInv, ExecutionsAccountedFor, [Next]_vars
             PROVE  ExecutionsAccountedFor'
  OBVIOUS
<1>0. TypeOK /\ StateProgression
  BY DEF ProgressInv
<1>o. \A a, b \in Runner : a = b
  BY DEF OneRunner
<1>t. /\ \A s \in Steps : executed[s] \in Nat /\ lost[s] \in Nat
      /\ executed \in [Steps -> Nat] /\ lost \in [Steps -> 0..MaxLost]
  BY <1>0, LoopConstants DEF TypeOK
<1>a. \A s \in Steps :
          executed[s] = (IF s <= durable.index THEN 1 ELSE 0)
                      + (IF InHand(s) THEN 1 ELSE 0) + lost[s]
  BY DEF ExecutionsAccountedFor, InHand
<1>b. ASSUME \A s \in Steps :
                 executed'[s] = (IF s <= durable'.index THEN 1 ELSE 0)
                              + (IF InHand(s)' THEN 1 ELSE 0) + lost'[s]
      PROVE  ExecutionsAccountedFor'
  BY <1>b DEF ExecutionsAccountedFor, InHand
<1>c. ASSUME NEW r \in Runner, HasNextStep(base[r])
      PROVE  StepOf(r) \in Steps
  BY <1>0, <1>c, LoopConstants DEF TypeOK, QueueState, HasNextStep, StepOf, Steps
(* Nothing in hand before or after, and nothing counted.                    *)
<1>d. ASSUME NEW r \in Runner, ~Unsaved(r), ~Unsaved(r)',
             UNCHANGED <<durable, executed, lost>>
      PROVE  ExecutionsAccountedFor'
  <2>1. \A s \in Steps : ~InHand(s)
    BY <1>o, <1>d DEF InHand
  <2>2. \A s \in Steps : ~InHand(s)'
    BY <1>o, <1>d DEF InHand
  <2> QED BY <1>a, <1>b, <1>d, <2>1, <2>2
(* Nothing in hand before or after, and an execution counted as lost.       *)
<1>e. ASSUME NEW r \in Runner, ~Unsaved(r), ~Unsaved(r)', HasNextStep(base[r]),
             CountExecution(StepOf(r)), Lose(StepOf(r)), UNCHANGED durable
      PROVE  ExecutionsAccountedFor'
  <2>1. \A s \in Steps : ~InHand(s)
    BY <1>o, <1>e DEF InHand
  <2>2. \A s \in Steps : ~InHand(s)'
    BY <1>o, <1>e DEF InHand
  <2>3. \A s \in Steps :
            IF s = StepOf(r)
            THEN executed'[s] = executed[s] + 1 /\ lost'[s] = lost[s] + 1
            ELSE executed'[s] = executed[s] /\ lost'[s] = lost[s]
    BY <1>t, <1>e, <1>c DEF CountExecution, Lose
  <2> QED BY <1>a, <1>b, <1>t, <1>e, <2>1, <2>2, <2>3
<1>1. ASSUME NEW r \in Runner,
             Load(r) \/ LoadForResume(r) \/ LoadForReplay(r)
      PROVE  ExecutionsAccountedFor'
  <2>1. ~Unsaved(r) /\ ~Unsaved(r)' /\ UNCHANGED <<durable, executed, lost>>
    BY <1>0, <1>1 DEF Load, LoadForResume, LoadForReplay, Read, Goto, Unsaved, TypeOK
  <2> QED BY <1>d, <2>1
<1>2. ASSUME NEW r \in Runner, ExecuteStep(r) PROVE ExecutionsAccountedFor'
  <2>1. /\ HasNextStep(base[r]) /\ CountExecution(StepOf(r))
        /\ UNCHANGED <<durable, base, lost>>
        /\ pc[r] = "loaded" /\ pc'[r] = "stepped"
    BY <1>0, <1>2 DEF ExecuteStep, Goto, TypeOK
  <2>2. ~Unsaved(r) /\ Unsaved(r)' /\ StepOf(r)' = StepOf(r)
    BY <2>1 DEF Unsaved, StepOf, HasNextStep
  <2>3. \A s \in Steps : ~InHand(s)
    BY <1>o, <2>2 DEF InHand
  <2>4. \A s \in Steps : InHand(s)' <=> s = StepOf(r)
    BY <1>o, <2>2 DEF InHand
  <2>5. \A s \in Steps :
            executed'[s] = IF s = StepOf(r) THEN executed[s] + 1 ELSE executed[s]
    BY <1>t, <2>1, <1>c DEF CountExecution
  <2> QED BY <1>a, <1>b, <1>t, <2>1, <2>3, <2>4, <2>5
<1>3. ASSUME NEW r \in Runner, Reconfirm(r) PROVE ExecutionsAccountedFor'
  <2>1. ~Unsaved(r) /\ ~Unsaved(r)' /\ UNCHANGED <<durable, executed, lost>>
    BY <1>0, <1>3 DEF Reconfirm, Goto, Unsaved, HasNextStep, TypeOK
  <2> QED BY <1>d, <2>1
<1>4. ASSUME NEW r \in Runner, ExecutionFails(r) PROVE ExecutionsAccountedFor'
  <2>1. /\ ~Unsaved(r) /\ ~Unsaved(r)' /\ HasNextStep(base[r])
        /\ CountExecution(StepOf(r)) /\ Lose(StepOf(r)) /\ UNCHANGED durable
    BY <1>0, <1>4 DEF ExecutionFails, Goto, Unsaved, TypeOK
  <2> QED BY <1>e, <2>1
<1>5. ASSUME NEW r \in Runner, Reject(r) PROVE ExecutionsAccountedFor'
  <2>1. ~Unsaved(r) /\ ~Unsaved(r)' /\ UNCHANGED <<durable, executed, lost>>
    BY <1>0, <1>5 DEF Reject, Goto, Unsaved, TypeOK
  <2> QED BY <1>d, <2>1
<1>6. ASSUME NEW r \in Runner, OpenForWrite(r) PROVE ExecutionsAccountedFor'
  <2>1. /\ UNCHANGED <<durable, base, executed, lost>>
        /\ pc[r] = "stepped" /\ pc'[r] = "writing"
    BY <1>0, <1>6 DEF OpenForWrite, Goto, TypeOK
  <2>2. (Unsaved(r)' <=> Unsaved(r)) /\ StepOf(r)' = StepOf(r)
    BY <2>1 DEF Unsaved, StepOf, HasNextStep
  <2>3. \A s \in Steps : InHand(s)' <=> InHand(s)
    BY <1>o, <2>2 DEF InHand
  <2> QED BY <1>a, <1>b, <2>1, <2>3
<1>7. ASSUME NEW r \in Runner, FinishWrite(r) PROVE ExecutionsAccountedFor'
  <2>1. /\ UNCHANGED <<executed, lost>> /\ durable' = next[r]
        /\ pc[r] = "writing" /\ pc'[r] = "idle" /\ base[r] = durable
    BY <1>0, <1>7 DEF FinishWrite, Goto, TypeOK, CallInv
  <2>2. ~Unsaved(r)' /\ (Unsaved(r) <=> HasNextStep(durable))
    BY <2>1 DEF Unsaved
  <2>3. CASE HasNextStep(durable)
    <3>0. PICK b \in BOOLEAN, t \in 0..MaxTicks :
              next[r] = ApplyTransition(durable, b, t)
      BY <2>1, <2>3 DEF CallInv
    <3>1. durable'.index = durable.index + 1
      BY <2>1, <3>0 DEF ApplyTransition
    <3>2. StepOf(r) = durable.index + 1 /\ durable.index \in Nat
      BY <1>0, <2>1, LoopConstants DEF StepOf, TypeOK, QueueState
    <3>3. \A s \in Steps : InHand(s) <=> s = durable.index + 1
      BY <1>o, <2>2, <2>3, <3>2 DEF InHand
    <3>4. \A s \in Steps : ~InHand(s)'
      BY <1>o, <2>2 DEF InHand
    <3>5. \A s \in Steps : s \in Int
      BY DEF Steps
    <3>6. ASSUME NEW s \in Steps
          PROVE  executed'[s] = (IF s <= durable'.index THEN 1 ELSE 0)
                              + (IF InHand(s)' THEN 1 ELSE 0) + lost'[s]
      <4>1. executed'[s] = executed[s] /\ lost'[s] = lost[s] /\ lost[s] \in Nat
        BY <1>t, <2>1
      <4>2. executed[s] = (IF s <= durable.index THEN 1 ELSE 0)
                        + (IF s = durable.index + 1 THEN 1 ELSE 0) + lost[s]
        BY <1>a, <3>3, Zenon
      <4>3. executed'[s] = (IF s <= durable'.index THEN 1 ELSE 0) + 0 + lost'[s]
        BY <3>1, <3>2, <3>5, <4>1, <4>2
      <4> QED BY <3>4, <4>3, Zenon
    <3> QED BY <1>b, <3>6, Zenon
  <2>4. CASE ~HasNextStep(durable)
    <3>1. durable' = durable
      BY <2>1, <2>4 DEF CallInv
    <3> QED BY <1>d, <2>1, <2>2, <2>4, <3>1
  <2> QED BY <2>3, <2>4
<1>8. ASSUME NEW r \in Runner, WriteElsewhere(r) \/ Crash(r)
      PROVE  ExecutionsAccountedFor'
  <2>1. ~Unsaved(r)' /\ UNCHANGED <<durable, executed>>
    BY <1>0, <1>8 DEF WriteElsewhere, Crash, Goto, Unsaved, TypeOK
  <2>2. CASE ~Unsaved(r)
    BY <1>8, <1>d, <2>1, <2>2 DEF WriteElsewhere, Crash
  <2>3. CASE Unsaved(r)
    <3>1. Lose(StepOf(r)) /\ StepOf(r) \in Steps
      BY <1>8, <1>c, <2>3 DEF WriteElsewhere, Crash, Unsaved
    <3>2. \A s \in Steps : InHand(s) <=> s = StepOf(r)
      BY <1>o, <2>3 DEF InHand
    <3>3. \A s \in Steps : ~InHand(s)'
      BY <1>o, <2>1 DEF InHand
    <3>4. \A s \in Steps :
              lost'[s] = IF s = StepOf(r) THEN lost[s] + 1 ELSE lost[s]
      BY <1>t, <3>1 DEF Lose
    <3> QED BY <1>a, <1>b, <1>t, <2>1, <3>2, <3>3, <3>4
  <2> QED BY <2>2, <2>3
<1>9. ASSUME NEW r \in Runner, ReplayFirst(r) \/ ReplaySecond(r) \/ ReplayRaises(r)
      PROVE  ExecutionsAccountedFor'
  <2>1. ~Unsaved(r) /\ ~Unsaved(r)' /\ UNCHANGED durable /\ CountReplay(base[r])
    BY <1>0, <1>9 DEF ReplayFirst, ReplaySecond, ReplayRaises, Goto, Unsaved, TypeOK
  <2>2. CASE HasNextStep(base[r])
    BY <1>e, <2>1, <2>2 DEF CountReplay, StepOf
  <2>3. CASE ~HasNextStep(base[r])
    BY <1>d, <2>1, <2>3 DEF CountReplay
  <2> QED BY <2>2, <2>3
<1>10. CASE TakeCheckpoint \/ Tick \/ UNCHANGED vars
  <2>1. UNCHANGED <<durable, pc, base, executed, lost>>
    BY <1>10 DEF TakeCheckpoint, Tick, vars
  <2> QED BY <2>1 DEF ExecutionsAccountedFor, Unsaved, StepOf, HasNextStep
<1> QED
  BY <1>1, <1>2, <1>3, <1>4, <1>5, <1>6, <1>7, <1>8, <1>9, <1>10 DEF Next, Run, Replay

(* With one process at a time, executions are the recorded one, the one in  *)
(* hand and the lost ones: nothing runs twice without a reason.             *)
THEOREM Accounted ==
    ASSUME OneRunner PROVE Spec => []ExecutionsAccountedFor
<1>1. Init => ExecutionsAccountedFor
  BY DEF Init, ExecutionsAccountedFor, Unsaved, NewQueue, Steps
<1>2. TypeOK /\ StateProgression /\ ReplayHolds /\ CallInv
      /\ ExecutionsAccountedFor /\ [Next]_vars => ExecutionsAccountedFor'
  BY AccountStep DEF ProgressInv
<1> QED BY <1>1, <1>2, TypeCorrect, Progression, OneCall, PTL DEF Spec
==============================================================================
