---------------------------- MODULE BundleRunProofs ----------------------------
(***************************************************************************)
(* Proofs about BundleRun, for any number of steps, any required reviews   *)
(* and findings, any executor, and with or without overlapping commands.   *)
(***************************************************************************)
EXTENDS BundleRun, FiniteSetTheorems, TLAPS

(* Every bundle state in a file or in the hands of a process. *)
Held == saved \cup {run.mem} \cup {i.state : i \in ingest}

(* In every one of them, completed steps are the first ones and have their  *)
(* results.                                                                 *)
HeldInOrder == \A m \in Held : IsPrefix(m)

(* A checkpoint is satisfied in a state only if its review was saved, or is *)
(* about to be.                                                             *)
ReviewsSaved ==
    /\ \A m \in saved \cup {run.mem} : m.satisfied \subseteq reviewed
    /\ \A i \in ingest : i.state.satisfied \subseteq reviewed \cup {i.review}

(* The step in hand follows the completed ones; no review holds it, it has  *)
(* no result until its own is saved, and the findings the run started with  *)
(* are fixed.                                                               *)
StepInHand ==
    /\ run.at \in {"executing", "answered", "recording"} =>
           /\ run.step \in Step
           /\ 1..(run.step - 1) \subseteq run.mem.completed
    /\ run.at \in {"executing", "answered"} =>
           /\ stepFile[run.step] = "running"
           /\ \A c \in Checkpoint : ~Holds(c, run.mem, run.step)
    /\ run.at = "recording" => HasResult(run.step)

(* A finding the run started with is still open in its copy, or its gate    *)
(* record is on disk and the copy has it no more.                           *)
FixesKept ==
    /\ foundOpen \subseteq (gateRecords \ run.mem.open) \cup OpenBlocking(run.mem)
    /\ StepsWaitForFixes

IInv ==
    /\ TypeOK
    /\ HeldInOrder
    /\ CompletedHaveResults
    /\ ReviewsSaved
    /\ StepInHand
    /\ StepsWaitForReviews
    /\ FixesKept

----------------------------------------------------------------------------
(* Types                                                                    *)

(* A file that holds one state holds at most one. *)
LEMMA OneState == ASSUME NEW m PROVE Cardinality({m}) <= 1
  BY FS_Singleton

(* A state that no file holds has no steps.                                 *)
LEMMA NoState == Cardinality({}) <= 1
  BY FS_EmptySet

(* Numbers of steps, and of executions. *)
LEMMA Numbers ==
    /\ TotalSteps \in Nat
    /\ MaxExecutions \in Nat
    /\ Step \subseteq 0..TotalSteps
    /\ \A n \in 0..MaxExecutions : n < MaxExecutions => n + 1 \in 0..MaxExecutions
<1>1. TotalSteps \in Nat /\ MaxExecutions \in Nat
  BY BundleConstants
<1> QED BY <1>1 DEF Step

(* The state of a new bundle, a completed step and a blocked step.          *)
LEMMA StateTypes ==
    /\ NewState \in BundleStates
    /\ \A m \in BundleStates, s \in Step :
           /\ MarkStepComplete(m, s) \in BundleStates
           /\ BlockStep(m, s) \in BundleStates
    /\ \A m \in BundleStates : [m EXCEPT !.done = TRUE] \in BundleStates
    /\ \A m \in BundleStates :
           \A f : [m EXCEPT !.open = @ \ {f}] \in BundleStates
    /\ \A m \in BundleStates, c \in Checkpoint, findings \in SUBSET Fix :
           [m EXCEPT !.satisfied = @ \cup {c}, !.open = @ \cup findings]
               \in BundleStates
<1>1. NewState \in BundleStates
  BY DEF NewState, BundleStates
<1>2. ASSUME NEW m \in BundleStates, NEW s \in Step
      PROVE  /\ MarkStepComplete(m, s) \in BundleStates
             /\ BlockStep(m, s) \in BundleStates
  BY <1>2 DEF BundleStates, MarkStepComplete, BlockStep
<1>3. ASSUME NEW m \in BundleStates
      PROVE  [m EXCEPT !.done = TRUE] \in BundleStates
  BY <1>3 DEF BundleStates
<1>4. ASSUME NEW m \in BundleStates, NEW f
      PROVE  [m EXCEPT !.open = @ \ {f}] \in BundleStates
  BY <1>4 DEF BundleStates
<1>5. ASSUME NEW m \in BundleStates, NEW c \in Checkpoint,
             NEW findings \in SUBSET Fix
      PROVE  [m EXCEPT !.satisfied = @ \cup {c}, !.open = @ \cup findings]
                 \in BundleStates
  BY <1>5 DEF BundleStates
<1> QED BY <1>1, <1>2, <1>3, <1>4, <1>5

(* A run that has ended is a run.                                           *)
LEMMA NoRunType == NoRun \in Runs
<1>1. 0 \in 0..TotalSteps
  BY BundleConstants
<1>2. NewState \in BundleStates
  BY StateTypes
<1> QED BY <1>1, <1>2 DEF NoRun, Runs, Labels

(* What the runner makes of an answer is a status with which a slice ends.  *)
LEMMA SliceStatusType ==
    ASSUME NEW a PROVE SliceStatus(a) \in {"success", "failed", "blocked"}
  BY DEF SliceStatus

(* No step of either command changes the type of a variable. *)
LEMMA TypeOKStep == TypeOK /\ StepInHand /\ [Next]_vars => TypeOK'
<1> SUFFICES ASSUME TypeOK, StepInHand, [Next]_vars PROVE TypeOK'
  OBVIOUS
<1> USE DEF TypeOK
<1>a. NoRun \in Runs /\ Cardinality({}) <= 1 /\ \A m : Cardinality({m}) <= 1
  BY NoRunType, NoState, OneState
<1>1. CASE StartRun
  <2>1. PICK m \in IF saved = {} THEN {NewState} ELSE saved :
        \E executeFixes \in BOOLEAN :
            /\ Save(m)
            /\ run' = [at |-> IF executeFixes /\ m.open # {}
                             THEN "fixing" ELSE "stepping",
                       mem |-> m, step |-> 0, got |-> "none"]
            /\ foundOpen' = {f \in m.open : f.blocking}
    BY <1>1 DEF StartRun
  <2>2. m \in BundleStates
    BY <2>1, StateTypes
  <2>3. saved' \subseteq BundleStates /\ Cardinality(saved') <= 1
    BY <1>a, <2>1, <2>2 DEF Save
  <2>4. run' \in Runs
    BY <2>1, <2>2, BundleConstants DEF Runs, Labels
  <2>5. foundOpen' \subseteq Fix
    BY <2>1, <2>2 DEF BundleStates
  <2> QED BY <1>1, <2>3, <2>4, <2>5 DEF StartRun
<1>2. CASE ExecuteFix
  <2>1. PICK f \in run.mem.open :
            /\ gateRecords' = gateRecords \cup {f}
            /\ run' = [run EXCEPT !.mem = [run.mem EXCEPT !.open = @ \ {f}]]
    BY <1>2 DEF ExecuteFix, GoOn, Runs
  <2>2. f \in Fix /\ run.mem \in BundleStates
    BY <2>1 DEF Runs, BundleStates
  <2>3. run' \in Runs
    BY <2>1, <2>2, StateTypes DEF Runs
  <2> QED BY <1>2, <2>1, <2>2, <2>3 DEF ExecuteFix, GoOn
<1>3. CASE RefuseFix
  BY <1>3, <1>a DEF RefuseFix, EndRun
<1>4. CASE SaveFixes
  BY <1>4, <1>a DEF SaveFixes, Save, GoOn, Runs, Labels
<1>5. CASE StopAtStep
  BY <1>5, <1>a DEF StopAtStep, EndRun
<1>6. CASE BeginSlice
  <2>1. PICK s \in Step :
            /\ stepFile' = [stepFile EXCEPT ![s] = "running"]
            /\ run' = [run EXCEPT !.at = "executing", !.step = s]
    BY <1>6 DEF BeginSlice, GoOn, NextStep
  <2>2. stepFile' \in [Step -> Status \cup {"absent"}]
    BY <2>1 DEF Status
  <2>3. run' \in Runs
    BY <2>1, Numbers DEF Runs, Labels
  <2> QED BY <1>6, <2>2, <2>3 DEF BeginSlice, GoOn
<1>7. CASE ResumeSlice
  <2>1. PICK s \in Step :
            /\ stepFile' = [stepFile EXCEPT ![s] =
                               IF @ = "success" THEN @ ELSE "blocked"]
            /\ run' = [run EXCEPT !.at = "recording", !.step = s,
                                 !.got = "blocked"]
    BY <1>7 DEF ResumeSlice, GoOn, NextStep
  <2>2. stepFile' \in [Step -> Status \cup {"absent"}]
    BY <2>1 DEF Status
  <2>3. run' \in Runs
    BY <2>1, Numbers DEF Runs, Labels, Status
  <2> QED BY <1>7, <2>2, <2>3 DEF ResumeSlice, GoOn
<1>8. CASE CallExecutor
  <2>1. PICK answer \in Outcome :
            run' = [run EXCEPT !.at = "answered", !.got = answer]
    BY <1>8 DEF CallExecutor, GoOn
  <2>2. run' \in Runs
    BY <2>1 DEF Runs, Labels
  <2>3. executed' \in [Step -> 0..MaxExecutions]
    BY <1>8, Numbers DEF CallExecutor
  <2> QED BY <1>8, <2>2, <2>3 DEF CallExecutor, GoOn
<1>9. CASE SaveSlice
  <2>1. SliceStatus(run.got) \in Status
    BY SliceStatusType DEF Status
  <2>2. run' \in Runs
    BY <1>9, <2>1 DEF SaveSlice, GoOn, Runs, Labels
  <2> QED BY <1>9, <2>1, <2>2 DEF SaveSlice, GoOn
<1>10. CASE RecordFailure
  <2>1. BlockStep(run.mem, run.step) \in BundleStates
    BY <1>10, StateTypes DEF RecordFailure, StepInHand, Runs
  <2> QED BY <1>10, <1>a, <2>1 DEF RecordFailure, Save, EndRun
<1>11. CASE RecordSuccess
  <2>1. MarkStepComplete(run.mem, run.step) \in BundleStates
    BY <1>11, StateTypes DEF RecordSuccess, StepInHand, Runs
  <2>2. run' \in Runs
    BY <1>11, <2>1, BundleConstants DEF RecordSuccess, GoOn, Runs, Labels
  <2> QED BY <1>11, <1>a, <2>1, <2>2 DEF RecordSuccess, Save, GoOn
<1>12. CASE CompleteBundle
  <2>1. [run.mem EXCEPT !.done = TRUE] \in BundleStates
    BY StateTypes DEF Runs
  <2> QED BY <1>12, <1>a, <2>1 DEF CompleteBundle, Save, EndRun
<1>13. CASE StopRun
  BY <1>13, <1>a DEF StopRun, EndRun
<1>14. CASE LoadForIngest
  <2>1. PICK m \in saved, c \in Checkpoint :
        \E findings \in SUBSET {f \in Fix : f.review = c} :
            ingest' = {[state |-> [m EXCEPT !.satisfied = @ \cup {c},
                                            !.open = @ \cup findings],
                        review |-> c]}
    BY <1>14 DEF LoadForIngest
  <2>a. PICK findings \in SUBSET Fix :
            ingest' = {[state |-> [m EXCEPT !.satisfied = @ \cup {c},
                                            !.open = @ \cup findings],
                        review |-> c]}
    BY <2>1
  <2>b. [m EXCEPT !.satisfied = @ \cup {c}, !.open = @ \cup findings]
            \in BundleStates
    BY StateTypes
  <2>2. ingest' \subseteq Ingests
    BY <2>a, <2>b DEF Ingests
  <2>3. Cardinality(ingest') <= 1
    BY <2>1, <1>a
  <2> QED BY <1>14, <2>2, <2>3 DEF LoadForIngest
<1>15. CASE SaveIngested
  BY <1>15, <1>a DEF SaveIngested, Save, Ingests
<1>16. CASE StopIngest
  BY <1>16, <1>a DEF StopIngest
<1>17. CASE UNCHANGED vars
  BY <1>17 DEF vars
<1> QED
  BY <1>1, <1>2, <1>3, <1>4, <1>5, <1>6, <1>7, <1>8, <1>9, <1>10, <1>11,
     <1>12, <1>13, <1>14, <1>15, <1>16, <1>17 DEF Next

----------------------------------------------------------------------------
(* Steps and their results                                                  *)

(* What the files hold of a step is never taken back: only a step without   *)
(* result is begun or executed, whoever saved or overwrote the state.       *)
LEMMA ResultsStep ==
    ASSUME TypeOK, StepInHand, [Next]_vars, NEW s \in Step, HasResult(s)
    PROVE  /\ HasResult(s)'
           /\ stepFile'[s] = "success" <=> stepFile[s] = "success"
           /\ executed'[s] = executed[s]
<1> USE DEF TypeOK, HasResult
<1>1. CASE BeginSlice
  <2>1. PICK t \in Step :
            /\ stepFile[t] \in {"absent", "running"}
            /\ stepFile' = [stepFile EXCEPT ![t] = "running"]
    BY <1>1 DEF BeginSlice, NextStep
  <2> QED BY <1>1, <2>1 DEF BeginSlice
<1>2. CASE ResumeSlice
  <2>1. PICK t \in Step :
            stepFile' = [stepFile EXCEPT ![t] =
                            IF @ = "success" THEN @ ELSE "blocked"]
    BY <1>2 DEF ResumeSlice, NextStep
  <2> QED BY <1>2, <2>1 DEF ResumeSlice
<1>3. CASE CallExecutor
  <2>1. run.step # s
    BY <1>3 DEF CallExecutor, StepInHand
  <2> QED BY <1>3, <2>1 DEF CallExecutor
<1>4. CASE SaveSlice
  <2>1. run.step # s
    BY <1>4 DEF SaveSlice, StepInHand
  <2> QED BY <1>4, <2>1 DEF SaveSlice
<1>5. CASE UNCHANGED <<stepFile, executed>>
  BY <1>5
<1> QED
  BY <1>1, <1>2, <1>3, <1>4, <1>5
  DEF Next, vars, StartRun, ExecuteFix, RefuseFix, SaveFixes, StopAtStep,
      RecordFailure, RecordSuccess, CompleteBundle, StopRun, LoadForIngest,
      SaveIngested, StopIngest

(* Whatever the two commands overwrite of each other, the completed steps   *)
(* of a state are those of an earlier one, plus the step in hand when a run *)
(* records it.                                                              *)
LEMMA HeldCompleted ==
    ASSUME TypeOK, [Next]_vars, NEW m \in Held'
    PROVE  \/ m.completed = {}
           \/ \E old \in Held : m.completed = old.completed
           \/ /\ run.at = "recording"
              /\ m.completed = run.mem.completed \cup {run.step}
<1> USE DEF TypeOK, Held
<1>a. NoRun.mem.completed = {} /\ NewState.completed = {}
  BY DEF NoRun, NewState
<1>1. CASE StartRun
  BY <1>1, <1>a DEF StartRun, Save
<1>2. CASE ExecuteFix
  <2>1. \E f \in run.mem.open :
            run' = [run EXCEPT !.mem = [run.mem EXCEPT !.open = @ \ {f}]]
    BY <1>2 DEF ExecuteFix, GoOn, Runs
  <2>2. run'.mem.completed = run.mem.completed
    BY <2>1 DEF Runs, BundleStates
  <2> QED BY <1>2, <2>2 DEF ExecuteFix
<1>3. CASE RefuseFix \/ StopAtStep \/ StopRun
  BY <1>3, <1>a DEF RefuseFix, StopAtStep, StopRun, EndRun
<1>4. CASE SaveFixes
  BY <1>4 DEF SaveFixes, Save, GoOn, Runs
<1>5. CASE BeginSlice \/ ResumeSlice \/ CallExecutor \/ SaveSlice
  <2>1. run'.mem = run.mem
    BY <1>5 DEF BeginSlice, ResumeSlice, CallExecutor, SaveSlice, GoOn, Runs
  <2> QED BY <1>5, <2>1 DEF BeginSlice, ResumeSlice, CallExecutor, SaveSlice
<1>6. CASE RecordFailure
  <2>1. BlockStep(run.mem, run.step).completed = run.mem.completed
    BY DEF BlockStep, Runs, BundleStates
  <2> QED BY <1>6, <1>a, <2>1 DEF RecordFailure, Save, EndRun
<1>7. CASE RecordSuccess
  <2>1. MarkStepComplete(run.mem, run.step).completed
            = run.mem.completed \cup {run.step}
    BY DEF MarkStepComplete, Runs, BundleStates
  <2> QED BY <1>7, <2>1 DEF RecordSuccess, Save, GoOn
<1>8. CASE CompleteBundle
  <2>1. [run.mem EXCEPT !.done = TRUE].completed = run.mem.completed
    BY DEF Runs, BundleStates
  <2> QED BY <1>8, <1>a, <2>1 DEF CompleteBundle, Save, EndRun
<1>9. CASE LoadForIngest
  <2>1. PICK old \in saved, c \in Checkpoint, findings \in SUBSET Fix :
            ingest' = {[state |-> [old EXCEPT !.satisfied = @ \cup {c},
                                              !.open = @ \cup findings],
                        review |-> c]}
    BY <1>9 DEF LoadForIngest
  <2>2. [old EXCEPT !.satisfied = @ \cup {c}, !.open = @ \cup findings].completed
            = old.completed
    BY DEF BundleStates
  <2>3. PICK new, r : /\ ingest' = {[state |-> new, review |-> r]}
                      /\ new.completed = old.completed
    BY <2>1, <2>2
  <2> QED BY <1>9, <2>3 DEF LoadForIngest
<1>10. CASE SaveIngested
  BY <1>10 DEF SaveIngested, Save
<1>11. CASE StopIngest
  BY <1>11 DEF StopIngest
<1>12. CASE UNCHANGED vars
  BY <1>12 DEF vars
<1> QED
  BY <1>1, <1>2, <1>3, <1>4, <1>5, <1>6, <1>7, <1>8, <1>9, <1>10, <1>11,
     <1>12 DEF Next

(* Every state that is held has type and order.                             *)
LEMMA HeldTyped ==
    ASSUME TypeOK, NEW m \in Held PROVE m.completed \subseteq Step
  BY DEF TypeOK, Held, Runs, Ingests, BundleStates

(* No step breaks the order of the completed steps in any state held.       *)
LEMMA HeldInOrderStep ==
    ASSUME TypeOK, StepInHand, HeldInOrder, [Next]_vars PROVE HeldInOrder'
<1> SUFFICES ASSUME NEW m \in Held', NEW s \in m.completed
             PROVE  1..s \subseteq m.completed
  BY DEF HeldInOrder, IsPrefix
<1>1. CASE \E old \in Held : m.completed = old.completed
  BY <1>1 DEF HeldInOrder, IsPrefix
<1>2. CASE /\ run.at = "recording"
           /\ m.completed = run.mem.completed \cup {run.step}
  <2>1. 1..(run.step - 1) \subseteq run.mem.completed /\ run.step \in Step
    BY <1>2 DEF StepInHand
  <2>2. 1..run.step \subseteq m.completed
    BY <1>2, <2>1, Numbers DEF Step
  <2>3. \A t \in run.mem.completed : 1..t \subseteq run.mem.completed
    BY DEF HeldInOrder, IsPrefix, Held
  <2> QED BY <1>2, <2>2, <2>3
<1> QED BY <1>1, <1>2, HeldCompleted

(* No step records a step as completed without its result.                  *)
LEMMA HeldHaveResultsStep ==
    ASSUME TypeOK, StepInHand, CompletedHaveResults, [Next]_vars
    PROVE  CompletedHaveResults'
<1> SUFFICES ASSUME NEW m \in Held', NEW s \in m.completed
             PROVE  HasResult(s)'
  BY DEF CompletedHaveResults, Held
<1>1. CASE \E old \in Held : m.completed = old.completed
  BY <1>1, HeldTyped, ResultsStep DEF CompletedHaveResults, Held
<1>2. CASE /\ run.at = "recording"
           /\ m.completed = run.mem.completed \cup {run.step}
  <2>1. run.step \in Step /\ HasResult(run.step)
    BY <1>2 DEF StepInHand
  <2>2. \A t \in run.mem.completed : t \in Step /\ HasResult(t)
    BY HeldTyped DEF CompletedHaveResults, Held
  <2> QED BY <1>2, <2>1, <2>2, ResultsStep
<1> QED BY <1>1, <1>2, HeldCompleted

----------------------------------------------------------------------------
(* Reviews                                                                  *)

(* A checkpoint becomes satisfied only where its review is ingested, and    *)
(* that state reaches the file only when the review does.                   *)
LEMMA ReviewsSavedStep ==
    ASSUME TypeOK, ReviewsSaved, [Next]_vars PROVE ReviewsSaved'
<1> USE DEF TypeOK, ReviewsSaved
<1>a. NoRun.mem.satisfied = {} /\ NewState.satisfied = {}
  BY DEF NoRun, NewState
<1>1. CASE StartRun
  BY <1>1, <1>a DEF StartRun, Save
<1>2. CASE ExecuteFix
  <2>1. \E f \in run.mem.open :
            run' = [run EXCEPT !.mem = [run.mem EXCEPT !.open = @ \ {f}]]
    BY <1>2 DEF ExecuteFix, GoOn, Runs
  <2>2. run'.mem.satisfied = run.mem.satisfied
    BY <2>1 DEF Runs, BundleStates
  <2> QED BY <1>2, <2>2 DEF ExecuteFix
<1>3. CASE RefuseFix \/ StopAtStep \/ StopRun
  BY <1>3, <1>a DEF RefuseFix, StopAtStep, StopRun, EndRun
<1>4. CASE SaveFixes
  BY <1>4 DEF SaveFixes, Save, GoOn, Runs
<1>5. CASE BeginSlice \/ ResumeSlice \/ CallExecutor \/ SaveSlice
  <2>1. run'.mem = run.mem
    BY <1>5 DEF BeginSlice, ResumeSlice, CallExecutor, SaveSlice, GoOn, Runs
  <2> QED BY <1>5, <2>1 DEF BeginSlice, ResumeSlice, CallExecutor, SaveSlice
<1>6. CASE RecordFailure
  <2>1. BlockStep(run.mem, run.step).satisfied = run.mem.satisfied
    BY DEF BlockStep, Runs, BundleStates
  <2> QED BY <1>6, <1>a, <2>1 DEF RecordFailure, Save, EndRun
<1>7. CASE RecordSuccess
  <2>1. MarkStepComplete(run.mem, run.step).satisfied = run.mem.satisfied
    BY DEF MarkStepComplete, Runs, BundleStates
  <2> QED BY <1>7, <2>1 DEF RecordSuccess, Save, GoOn
<1>8. CASE CompleteBundle
  <2>1. [run.mem EXCEPT !.done = TRUE].satisfied = run.mem.satisfied
    BY DEF Runs, BundleStates
  <2> QED BY <1>8, <1>a, <2>1 DEF CompleteBundle, Save, EndRun
<1>9. CASE LoadForIngest
  <2>1. PICK old \in saved, c \in Checkpoint, findings \in SUBSET Fix :
            ingest' = {[state |-> [old EXCEPT !.satisfied = @ \cup {c},
                                              !.open = @ \cup findings],
                        review |-> c]}
    BY <1>9 DEF LoadForIngest
  <2>2. [old EXCEPT !.satisfied = @ \cup {c}, !.open = @ \cup findings]
            .satisfied = old.satisfied \cup {c}
    BY DEF BundleStates
  <2>3. PICK new : /\ ingest' = {[state |-> new, review |-> c]}
                   /\ new.satisfied = old.satisfied \cup {c}
    BY <2>1, <2>2
  <2>4. \A i \in ingest' : i.state = new /\ i.review = c
    BY <2>3
  <2>5. old.satisfied \subseteq reviewed
    OBVIOUS
  <2> QED BY <1>9, <2>3, <2>4, <2>5 DEF LoadForIngest
<1>10. CASE SaveIngested
  BY <1>10 DEF SaveIngested, Save
<1>11. CASE StopIngest
  BY <1>11 DEF StopIngest
<1>12. CASE UNCHANGED vars
  BY <1>12 DEF vars
<1> QED
  BY <1>1, <1>2, <1>3, <1>4, <1>5, <1>6, <1>7, <1>8, <1>9, <1>10, <1>11,
     <1>12 DEF Next

(* A step is executed when no blocking review holds it in the run's copy,   *)
(* and what the copy has satisfied was saved.                               *)
LEMMA StepsWaitForReviewsStep ==
    ASSUME TypeOK, StepInHand, ReviewsSaved, StepsWaitForReviews, [Next]_vars
    PROVE  StepsWaitForReviews'
<1> USE DEF StepsWaitForReviews
<1>1. reviewed \subseteq reviewed'
  BY DEF Next, vars, StartRun, ExecuteFix, RefuseFix, SaveFixes, StopAtStep,
      BeginSlice, ResumeSlice, CallExecutor, SaveSlice, RecordFailure,
      RecordSuccess, CompleteBundle, StopRun, LoadForIngest, SaveIngested,
      StopIngest
<1>2. CASE CallExecutor
  <2>1. SUFFICES ASSUME NEW c \in Checkpoint, c.blocking,
                        \/ c.type = "pre_bundle_review"
                        \/ /\ c.type = "checkpoint_review"
                           /\ c.step < run.step
                 PROVE  c \in run.mem.satisfied
    BY <1>1, <1>2 DEF CallExecutor, TypeOK, ReviewsSaved
  <2>2. ~Holds(c, run.mem, run.step)
    BY <1>2 DEF CallExecutor, StepInHand
  <2>3. CASE c.type = "pre_bundle_review"
    BY <2>1, <2>2, <2>3 DEF Holds
  <2>4. CASE c.type = "checkpoint_review" /\ c.step < run.step
    <3>1. c.step \in Step /\ run.step \in Step
      BY <1>2, BundleConstants DEF CallExecutor, StepInHand
    <3>2. c.step \in 1..(run.step - 1)
      BY <2>4, <3>1, Numbers DEF Step
    <3>3. c.step \in run.mem.completed
      BY <1>2, <3>2 DEF CallExecutor, StepInHand
    <3>4. run.step > c.step
      BY <2>4, <3>1, Numbers DEF Step
    <3> QED BY <2>1, <2>2, <2>4, <3>3, <3>4 DEF Holds
  <2> QED BY <2>1, <2>3, <2>4
<1>3. CASE UNCHANGED executed
  BY <1>1, <1>3
<1> QED
  BY <1>2, <1>3 DEF Next, vars, StartRun, ExecuteFix, RefuseFix, SaveFixes,
     StopAtStep, BeginSlice, ResumeSlice, SaveSlice, RecordFailure,
     RecordSuccess, CompleteBundle, StopRun, LoadForIngest, SaveIngested,
     StopIngest

----------------------------------------------------------------------------
(* The step in hand, and findings                                           *)

(* The step a run executes is the next one of the state it holds.           *)
LEMMA StepInHandStep ==
    ASSUME TypeOK, StepInHand, [Next]_vars PROVE StepInHand'
<1> USE DEF TypeOK, StepInHand, HasResult
<1>1. CASE BeginSlice
  <2>1. PICK s \in Step :
            /\ MayAdvance(run.mem, s)
            /\ stepFile' = [stepFile EXCEPT ![s] = "running"]
            /\ run' = [run EXCEPT !.at = "executing", !.step = s]
    BY <1>1 DEF BeginSlice, GoOn, NextStep
  <2>2. run'.mem = run.mem /\ run'.step = s /\ run'.at = "executing"
    BY <2>1 DEF Runs
  <2> QED BY <2>1, <2>2 DEF MayAdvance, Holds
<1>2. CASE ResumeSlice
  <2>1. PICK s \in Step :
            /\ MayAdvance(run.mem, s)
            /\ stepFile[s] \in {"success", "failed", "blocked"}
            /\ stepFile' = [stepFile EXCEPT ![s] =
                               IF @ = "success" THEN @ ELSE "blocked"]
            /\ run' = [run EXCEPT !.at = "recording", !.step = s,
                                 !.got = "blocked"]
    BY <1>2 DEF ResumeSlice, GoOn, NextStep
  <2>2. run'.mem = run.mem /\ run'.step = s /\ run'.at = "recording"
    BY <2>1 DEF Runs
  <2> QED BY <2>1, <2>2 DEF MayAdvance
<1>3. CASE CallExecutor
  <2>1. run'.mem = run.mem /\ run'.step = run.step /\ run'.at = "answered"
    BY <1>3 DEF CallExecutor, GoOn, Runs
  <2> QED BY <1>3, <2>1 DEF CallExecutor, Holds
<1>4. CASE SaveSlice
  <2>1. run'.mem = run.mem /\ run'.step = run.step /\ run'.at = "recording"
    BY <1>4 DEF SaveSlice, GoOn, Runs
  <2>2. SliceStatus(run.got) \in {"success", "failed", "blocked"}
    BY SliceStatusType
  <2> QED BY <1>4, <2>1, <2>2 DEF SaveSlice
<1>5. CASE UNCHANGED <<run, stepFile>>
  BY <1>5 DEF Holds
<1>6. CASE run'.at \in {"idle", "fixing", "stepping"}
  BY <1>6
<1> QED
  <2>1. CASE StartRun
    BY <1>6, <2>1 DEF StartRun
  <2>2. CASE ExecuteFix \/ SaveFixes
    BY <1>6, <2>2 DEF ExecuteFix, SaveFixes, GoOn, Runs
  <2>3. CASE RefuseFix \/ StopAtStep \/ RecordFailure \/ CompleteBundle
             \/ StopRun
    BY <1>6, <2>3 DEF RefuseFix, StopAtStep, RecordFailure, CompleteBundle,
       StopRun, EndRun, NoRun
  <2>4. CASE RecordSuccess
    BY <1>6, <2>4 DEF RecordSuccess, GoOn
  <2>5. CASE LoadForIngest \/ SaveIngested \/ StopIngest \/ UNCHANGED vars
    BY <1>5, <2>5 DEF LoadForIngest, SaveIngested, StopIngest, vars
  <2> QED BY <1>1, <1>2, <1>3, <1>4, <2>1, <2>2, <2>3, <2>4, <2>5 DEF Next

(* A finding leaves the run's copy of the open ones when its gate record is *)
(* on disk, and a step begins when no blocking one is left in the copy.     *)
LEMMA FixesKeptStep ==
    ASSUME TypeOK, FixesKept, [Next]_vars PROVE FixesKept'
<1> USE DEF TypeOK, FixesKept, StepsWaitForFixes, OpenBlocking
<1>1. CASE StartRun
  BY <1>1 DEF StartRun
<1>2. CASE ExecuteFix
  <2>1. PICK f \in run.mem.open :
            /\ gateRecords' = gateRecords \cup {f}
            /\ run' = [run EXCEPT !.mem = [run.mem EXCEPT !.open = @ \ {f}]]
            /\ foundOpen' = foundOpen
    BY <1>2 DEF ExecuteFix, GoOn, Runs
  <2>2. run'.mem.open = run.mem.open \ {f} /\ run'.at = run.at
    BY <2>1 DEF Runs, BundleStates
  <2> QED BY <2>1, <2>2
<1>3. CASE RefuseFix \/ StopAtStep \/ RecordFailure \/ CompleteBundle \/ StopRun
  BY <1>3 DEF RefuseFix, StopAtStep, RecordFailure, CompleteBundle, StopRun,
     EndRun, NoRun
<1>4. CASE SaveFixes
  BY <1>4 DEF SaveFixes, GoOn, Runs
<1>5. CASE BeginSlice
  <2>1. OpenBlocking(run.mem) = {} /\ run'.mem = run.mem
    BY <1>5 DEF BeginSlice, MayAdvance, GoOn, Runs
  <2> QED BY <1>5, <2>1 DEF BeginSlice, GoOn
<1>6. CASE ResumeSlice \/ CallExecutor \/ SaveSlice
  <2>1. /\ run'.mem = run.mem
        /\ run'.at \in {"answered", "recording"}
        /\ run'.at = "answered" => run.at = "executing"
    <3>1. CASE ResumeSlice
      BY <3>1 DEF ResumeSlice, GoOn, Runs
    <3>2. CASE CallExecutor
      BY <3>2 DEF CallExecutor, GoOn, Runs
    <3>3. CASE SaveSlice
      BY <3>3 DEF SaveSlice, GoOn, Runs
    <3> QED BY <1>6, <3>1, <3>2, <3>3
  <2>2. foundOpen' = foundOpen /\ gateRecords' = gateRecords
    BY <1>6 DEF ResumeSlice, CallExecutor, SaveSlice, GoOn
  <2> QED BY <2>1, <2>2
<1>7. CASE RecordSuccess
  <2>1. MarkStepComplete(run.mem, run.step).open = run.mem.open
    BY DEF MarkStepComplete, Runs, BundleStates
  <2> QED BY <1>7, <2>1 DEF RecordSuccess, GoOn
<1>8. CASE LoadForIngest \/ SaveIngested \/ StopIngest \/ UNCHANGED vars
  BY <1>8 DEF LoadForIngest, SaveIngested, StopIngest, vars
<1> QED
  BY <1>1, <1>2, <1>3, <1>4, <1>5, <1>6, <1>7, <1>8 DEF Next

----------------------------------------------------------------------------
(* The theorems                                                             *)

(* The invariant holds before the first run.                                *)
LEMMA IInvInit == Init => IInv
<1> SUFFICES ASSUME Init PROVE IInv
  OBVIOUS
<1>1. TypeOK
  BY NoRunType, NoState, Numbers DEF Init, TypeOK, Status
<1>2. Held = {NewState}
  BY DEF Init, Held, NoRun
<1>3. HeldInOrder /\ CompletedHaveResults
  BY <1>2 DEF HeldInOrder, CompletedHaveResults, Held, IsPrefix, NewState
<1>4. ReviewsSaved /\ StepInHand /\ StepsWaitForReviews /\ FixesKept
  BY Numbers DEF Init, NoRun, NewState, ReviewsSaved, StepInHand,
     StepsWaitForReviews, FixesKept, StepsWaitForFixes
<1> QED BY <1>1, <1>3, <1>4 DEF IInv

(* Every step of a run or of an ingestion keeps the invariant.              *)
LEMMA IInvStep == IInv /\ [Next]_vars => IInv'
  BY TypeOKStep, HeldInOrderStep, HeldHaveResultsStep, ReviewsSavedStep,
     StepInHandStep, StepsWaitForReviewsStep, FixesKeptStep DEF IInv

(* The inductive invariant: completed steps are the first ones, have their  *)
(* results, and nothing in hand is held by a review or a finding.           *)
THEOREM Invariance == Spec => []IInv
  BY IInvInit, IInvStep, PTL DEF Spec

(* A run and an ingesting command, however they interleave and stop, keep   *)
(* the state file, the step files and what they have in hand well typed.    *)
THEOREM TypeCorrect == Spec => []TypeOK
<1>1. IInv => TypeOK
  BY DEF IInv
<1> QED BY <1>1, Invariance, PTL

(* "completed_step_ids are inconsistent with bundle step order" is never    *)
(* raised on a state the two commands wrote.                                *)
THEOREM StepsInOrder == Spec => []CompletedInOrder
<1>1. IInv => CompletedInOrder
  BY DEF IInv, HeldInOrder, Held, CompletedInOrder
<1> QED BY <1>1, Invariance, PTL

(* No step is executed before the review of a blocking checkpoint that      *)
(* precedes it was saved.                                                   *)
THEOREM ReviewsFirst == Spec => []StepsWaitForReviews
<1>1. IInv => StepsWaitForReviews
  BY DEF IInv
<1> QED BY <1>1, Invariance, PTL

(* No run executes a step before every blocking finding it started with has *)
(* a gate record and is resolved in the run's own copy of the state.        *)
THEOREM FixesFirst == Spec => []StepsWaitForFixes
<1>1. IInv => StepsWaitForFixes
  BY DEF IInv, FixesKept
<1> QED BY <1>1, Invariance, PTL

(* A completed step has a step file with a result.                          *)
THEOREM ResultsThere == Spec => []CompletedHaveResults
<1>1. IInv => CompletedHaveResults
  BY DEF IInv
<1> QED BY <1>1, Invariance, PTL

(* A step whose result is on disk is never executed again, and its result   *)
(* does not turn.                                                           *)
THEOREM ResultsFinal == Spec => ResultsNotRepeated
<1>1. IInv /\ [Next]_vars =>
          [\A s \in Step :
              HasResult(s) =>
                  /\ HasResult(s)'
                  /\ stepFile'[s] = "success" <=> stepFile[s] = "success"
                  /\ executed'[s] = executed[s]]_vars
  BY ResultsStep DEF IInv
<1> QED BY <1>1, Invariance, PTL DEF Spec, ResultsNotRepeated

----------------------------------------------------------------------------
(* What a bundle state says holds together, also after an overwrite         *)

(* No step is both completed and blocked, a completed step was not ahead of *)
(* a required review, and a bundle is done only with all its steps and      *)
(* final reviews.                                                           *)
Sound(m) ==
    /\ m.completed \cap m.blocked = {}
    /\ \A s \in m.completed, c \in Checkpoint :
           /\ c.blocking
           /\ \/ c.type = "pre_bundle_review"
              \/ c.type = "checkpoint_review" /\ c.step < s
           => c \in m.satisfied
    /\ m.done =>
           /\ Step \subseteq m.completed
           /\ \A c \in Checkpoint :
                  c.type = "post_bundle_review" /\ c.blocking => c \in m.satisfied

SoundInv == \A m \in Held : Sound(m)

(* The step in hand may still advance, as far as the run's copy goes.       *)
MayRecord ==
    run.at \in {"executing", "answered", "recording"} =>
        /\ run.step \in Step
        /\ run.step \notin run.mem.completed
        /\ run.step \notin run.mem.blocked
        /\ \A c \in Checkpoint : ~Holds(c, run.mem, run.step)

(* Where a bundle state comes from that a step leaves in a file or in the   *)
(* hands of a process.                                                      *)
LEMMA HeldFrom ==
    ASSUME TypeOK, [Next]_vars, NEW m \in Held'
    PROVE  \/ m = NewState
           \/ m \in Held
           \/ \E f : m = [run.mem EXCEPT !.open = @ \ {f}]
           \/ /\ run.at = "recording" /\ run.got = "failed"
              /\ m = BlockStep(run.mem, run.step)
           \/ /\ run.at = "recording" /\ run.got # "failed"
              /\ m = MarkStepComplete(run.mem, run.step)
           \/ /\ NextStep(run.mem) = {} /\ MayComplete(run.mem)
              /\ m = [run.mem EXCEPT !.done = TRUE]
           \/ \E old \in saved, c \in Checkpoint, findings \in SUBSET Fix :
                  m = [old EXCEPT !.satisfied = @ \cup {c},
                                  !.open = @ \cup findings]
<1> USE DEF TypeOK, Held
<1>a. NoRun.mem = NewState
  BY DEF NoRun
<1>1. CASE StartRun
  <2>1. PICK new \in IF saved = {} THEN {NewState} ELSE saved :
            saved' = {new} /\ run'.mem = new
    BY <1>1 DEF StartRun, Save
  <2> QED BY <1>1, <2>1 DEF StartRun
<1>2. CASE ExecuteFix
  <2>1. \E f \in run.mem.open :
            run' = [run EXCEPT !.mem = [run.mem EXCEPT !.open = @ \ {f}]]
    BY <1>2 DEF ExecuteFix, GoOn, Runs
  <2>2. \E f : run'.mem = [run.mem EXCEPT !.open = @ \ {f}]
    BY <2>1 DEF Runs
  <2> QED BY <1>2, <2>2 DEF ExecuteFix
<1>3. CASE RefuseFix \/ StopAtStep \/ StopRun
  BY <1>3, <1>a DEF RefuseFix, StopAtStep, StopRun, EndRun
<1>4. CASE SaveFixes
  BY <1>4 DEF SaveFixes, Save, GoOn, Runs
<1>5. CASE BeginSlice \/ ResumeSlice \/ CallExecutor \/ SaveSlice
  <2>1. run'.mem = run.mem
    BY <1>5 DEF BeginSlice, ResumeSlice, CallExecutor, SaveSlice, GoOn, Runs
  <2> QED BY <1>5, <2>1 DEF BeginSlice, ResumeSlice, CallExecutor, SaveSlice
<1>6. CASE RecordFailure
  BY <1>6, <1>a DEF RecordFailure, Save, EndRun
<1>7. CASE RecordSuccess
  BY <1>7 DEF RecordSuccess, Save, GoOn
<1>8. CASE CompleteBundle
  BY <1>8, <1>a DEF CompleteBundle, Save, EndRun
<1>9. CASE LoadForIngest
  <2>1. PICK old \in saved, c \in Checkpoint, findings \in SUBSET Fix :
            ingest' = {[state |-> [old EXCEPT !.satisfied = @ \cup {c},
                                              !.open = @ \cup findings],
                        review |-> c]}
    BY <1>9 DEF LoadForIngest
  <2> DEFINE new == [old EXCEPT !.satisfied = @ \cup {c},
                                !.open = @ \cup findings]
  <2>2. ingest' = {[state |-> new, review |-> c]}
    BY <2>1
  <2> HIDE DEF new
  <2>3. m \in Held \/ m = new
    BY <1>9, <2>2 DEF LoadForIngest
  <2> QED BY <2>3 DEF new
<1>10. CASE SaveIngested
  BY <1>10 DEF SaveIngested, Save
<1>11. CASE StopIngest
  BY <1>11 DEF StopIngest
<1>12. CASE UNCHANGED vars
  BY <1>12 DEF vars
<1> QED
  BY <1>1, <1>2, <1>3, <1>4, <1>5, <1>6, <1>7, <1>8, <1>9, <1>10, <1>11,
     <1>12 DEF Next

(* Marking a step complete, or blocking it, keeps a sound state sound when  *)
(* the step follows the completed ones and nothing held it.                 *)
LEMMA RecordingSound ==
    ASSUME TypeOK, StepInHand, MayRecord, SoundInv, run.at = "recording"
    PROVE  /\ Sound(BlockStep(run.mem, run.step))
           /\ Sound(MarkStepComplete(run.mem, run.step))
<1> DEFINE m == run.mem
           s == run.step
<1>1. /\ m \in BundleStates /\ Sound(m)
      /\ s \in Step /\ s \notin m.completed /\ s \notin m.blocked
      /\ 1..(s - 1) \subseteq m.completed
      /\ \A c \in Checkpoint : ~Holds(c, m, s)
  BY DEF TypeOK, Runs, StepInHand, MayRecord, SoundInv, Held
<1>2. \A c \in Checkpoint : c.step \in Step
  BY BundleConstants
<1> HIDE DEF m, s
<1>3. LET b == BlockStep(m, s)
      IN  /\ b.completed = m.completed /\ b.blocked = m.blocked \cup {s}
          /\ b.done = m.done /\ b.satisfied = m.satisfied
  BY <1>1 DEF BlockStep, BundleStates
<1>4. LET b == MarkStepComplete(m, s)
      IN  /\ b.completed = m.completed \cup {s} /\ b.blocked = m.blocked
          /\ b.done = m.done /\ b.satisfied = m.satisfied
  BY <1>1 DEF MarkStepComplete, BundleStates
<1>5. Sound(BlockStep(m, s))
  BY <1>1, <1>3 DEF Sound
<1>6. ASSUME NEW c \in Checkpoint, c.blocking,
             \/ c.type = "pre_bundle_review"
             \/ c.type = "checkpoint_review" /\ c.step < s
      PROVE  c \in m.satisfied
  <2>1. CASE c.type = "pre_bundle_review"
    BY <1>1, <1>6, <2>1 DEF Holds
  <2>2. CASE c.type = "checkpoint_review" /\ c.step < s
    <3>1. c.step \in 1..(s - 1) /\ s > c.step
      BY <1>1, <1>2, <2>2, Numbers DEF Step
    <3> QED BY <1>1, <1>6, <2>2, <3>1 DEF Holds
  <2> QED BY <1>6, <2>1, <2>2
<1>7. Sound(MarkStepComplete(m, s))
  BY <1>1, <1>4, <1>6 DEF Sound
<1> QED BY <1>5, <1>7 DEF m, s

(* Whatever the two commands overwrite of each other, each state they leave *)
(* in a file or in hand is sound.                                           *)
LEMMA SoundStep ==
    ASSUME TypeOK, StepInHand, MayRecord, SoundInv, [Next]_vars PROVE SoundInv'
<1> SUFFICES ASSUME NEW m \in Held' PROVE Sound(m)
  BY DEF SoundInv, Sound
<1>1. run.mem \in BundleStates /\ Sound(run.mem)
  BY DEF TypeOK, Runs, SoundInv, Held
<1>2. CASE m = NewState
  BY <1>2 DEF NewState, Sound
<1>3. CASE m \in Held
  BY <1>3 DEF SoundInv
<1>4. CASE \E f : m = [run.mem EXCEPT !.open = @ \ {f}]
  <2>1. /\ m.completed = run.mem.completed /\ m.blocked = run.mem.blocked
        /\ m.satisfied = run.mem.satisfied /\ m.done = run.mem.done
    BY <1>1, <1>4 DEF BundleStates
  <2> QED BY <1>1, <2>1 DEF Sound
<1>5. CASE /\ run.at = "recording"
           /\ \/ m = BlockStep(run.mem, run.step)
              \/ m = MarkStepComplete(run.mem, run.step)
  BY <1>5, RecordingSound
<1>6. CASE /\ NextStep(run.mem) = {} /\ MayComplete(run.mem)
           /\ m = [run.mem EXCEPT !.done = TRUE]
  <2>1. /\ m.completed = run.mem.completed /\ m.blocked = run.mem.blocked
        /\ m.satisfied = run.mem.satisfied
    BY <1>1, <1>6 DEF BundleStates
  <2> QED BY <1>1, <1>6, <2>1 DEF Sound, MayComplete
<1>7. CASE \E old \in saved, c \in Checkpoint, findings \in SUBSET Fix :
               m = [old EXCEPT !.satisfied = @ \cup {c},
                               !.open = @ \cup findings]
  <2>1. PICK old \in saved, c \in Checkpoint, findings \in SUBSET Fix :
               m = [old EXCEPT !.satisfied = @ \cup {c},
                               !.open = @ \cup findings]
    BY <1>7
  <2>2. old \in BundleStates /\ Sound(old)
    BY DEF TypeOK, SoundInv, Held
  <2>3. /\ m.completed = old.completed /\ m.blocked = old.blocked
        /\ m.satisfied = old.satisfied \cup {c} /\ m.done = old.done
    BY <2>1, <2>2 DEF BundleStates
  <2> QED BY <2>2, <2>3 DEF Sound
<1> QED BY HeldFrom, <1>2, <1>3, <1>4, <1>5, <1>6, <1>7

(* The run's copy does not change while a step is in hand.                  *)
LEMMA MayRecordStep ==
    ASSUME TypeOK, MayRecord, [Next]_vars PROVE MayRecord'
<1> USE DEF TypeOK, MayRecord
<1>1. CASE BeginSlice \/ ResumeSlice
  <2>1. PICK s \in Step :
            /\ MayAdvance(run.mem, s)
            /\ run'.mem = run.mem /\ run'.step = s
    BY <1>1 DEF BeginSlice, ResumeSlice, GoOn, NextStep, Runs
  <2> QED BY <2>1 DEF MayAdvance, Holds
<1>2. CASE CallExecutor \/ SaveSlice
  <2>1. /\ run'.mem = run.mem /\ run'.step = run.step
        /\ run.at \in {"executing", "answered"}
    BY <1>2 DEF CallExecutor, SaveSlice, GoOn, Runs
  <2> QED BY <2>1 DEF Holds
<1>3. CASE UNCHANGED run
  BY <1>3 DEF Holds
<1>4. CASE run'.at \in {"idle", "fixing", "stepping"}
  BY <1>4
<1> QED
  <2>1. CASE StartRun \/ ExecuteFix \/ SaveFixes \/ RecordSuccess
    BY <1>4, <2>1 DEF StartRun, ExecuteFix, SaveFixes, RecordSuccess, GoOn, Runs
  <2>2. CASE RefuseFix \/ StopAtStep \/ RecordFailure \/ CompleteBundle
             \/ StopRun
    BY <1>4, <2>2 DEF RefuseFix, StopAtStep, RecordFailure, CompleteBundle,
       StopRun, EndRun, NoRun
  <2>3. CASE LoadForIngest \/ SaveIngested \/ StopIngest \/ UNCHANGED vars
    BY <1>3, <2>3 DEF LoadForIngest, SaveIngested, StopIngest, vars
  <2> QED BY <1>1, <1>2, <2>1, <2>2, <2>3 DEF Next

(* However runs and ingestions overlap and overwrite each other: a bundle   *)
(* the file calls done has no blocked step, a result for each of its steps, *)
(* and a saved review for every blocking checkpoint before, between or      *)
(* after them (assert_bundle_complete, _enforce_review_checkpoint_gates).   *)
(* A bundle one step of which is blocked is therefore never done.           *)
DoneMeansDone ==
    \A m \in saved : m.done =>
        /\ m.blocked = {}
        /\ \A s \in Step : HasResult(s)
        /\ \A c \in Checkpoint :
               /\ c.blocking
               /\ \/ c.type \in {"pre_bundle_review", "post_bundle_review"}
                  \/ c.step < TotalSteps
               => c \in reviewed

THEOREM DoneBundlesAreDone == Spec => []DoneMeansDone
<1>1. Init => SoundInv /\ MayRecord
  BY DEF Init, SoundInv, MayRecord, Held, NoRun, NewState, Sound
<1>2. IInv /\ SoundInv /\ MayRecord /\ [Next]_vars => SoundInv' /\ MayRecord'
  BY SoundStep, MayRecordStep DEF IInv
<1>3. IInv /\ SoundInv => DoneMeansDone
  <2> SUFFICES ASSUME IInv, SoundInv, NEW m \in saved, m.done
               PROVE  /\ m.blocked = {}
                      /\ \A s \in Step : HasResult(s)
                      /\ \A c \in Checkpoint :
                             /\ c.blocking
                             /\ \/ c.type \in {"pre_bundle_review",
                                               "post_bundle_review"}
                                \/ c.step < TotalSteps
                             => c \in reviewed
    BY DEF DoneMeansDone
  <2>1. Sound(m) /\ m \in BundleStates /\ m.satisfied \subseteq reviewed
    BY DEF SoundInv, Held, IInv, TypeOK, ReviewsSaved
  <2>2. Step \subseteq m.completed
    BY <2>1 DEF Sound
  <2>3. m.blocked = {}
    BY <2>1, <2>2 DEF Sound, BundleStates
  <2>4. \A s \in Step : HasResult(s)
    BY <2>2 DEF IInv, CompletedHaveResults
  <2>5. TotalSteps \in m.completed
    BY <2>2, BundleConstants DEF Step
  <2>6. \A c \in Checkpoint : c.type \in ReviewTypes /\ c.blocking \in BOOLEAN
    BY BundleConstants
  <2>7. \A c \in Checkpoint :
             /\ c.blocking
             /\ \/ c.type \in {"pre_bundle_review", "post_bundle_review"}
                \/ c.step < TotalSteps
             => c \in m.satisfied
    BY <2>1, <2>5, <2>6 DEF Sound, ReviewTypes
  <2> QED BY <2>1, <2>3, <2>4, <2>7
<1> QED BY <1>1, <1>2, <1>3, Invariance, PTL DEF Spec

----------------------------------------------------------------------------
(* What is never lost when the two commands do not overlap                  *)

(* Nothing m holds is missing from n; a finding is, once it is fixed.       *)
Grows(m, n) ==
    /\ m.completed \subseteq n.completed
    /\ m.blocked \subseteq n.blocked
    /\ m.satisfied \subseteq n.satisfied
    /\ m.done => n.done
    /\ m.open \ n.open \subseteq gateRecords

(* The state a command works on has everything the file has.                *)
NothingStale ==
    /\ \A m, n \in saved : m = n
    /\ run.at = "idle" \/ ingest = {}
    /\ run.at # "idle" => \A m \in saved : Grows(m, run.mem)
    /\ \A m \in saved, i \in ingest : Grows(m, i.state)

(* A save replaces the state in the file by one that lost nothing of it:    *)
(* no completed or blocked step, no satisfied checkpoint, no completed      *)
(* bundle, and no finding without its gate record.                          *)
NothingLost ==
    [][\A m \in saved : saved' # {} /\ \A n \in saved' : Grows(m, n)']_vars

(* One state read at a time is as good as the next one.                     *)
LEMMA GrowsSteps ==
    ASSUME NEW m \in BundleStates
    PROVE  /\ Grows(m, m)
           /\ \A s : /\ Grows(m, MarkStepComplete(m, s))
                     /\ Grows(m, BlockStep(m, s))
           /\ Grows(m, [m EXCEPT !.done = TRUE])
           /\ \A c, findings :
                  Grows(m, [m EXCEPT !.satisfied = @ \cup {c},
                                     !.open = @ \cup findings])
  BY DEF BundleStates, Grows, MarkStepComplete, BlockStep

(* Nothing lost in two steps is nothing lost.                               *)
LEMMA GrowsOn ==
    ASSUME NEW m, NEW n, NEW k, Grows(m, n), Grows(n, k) PROVE Grows(m, k)
  BY DEF Grows

(* Gate records stay on disk.                                               *)
LEMMA GateRecordsStay == [Next]_vars => gateRecords \subseteq gateRecords'
  BY DEF Next, vars, StartRun, ExecuteFix, RefuseFix, SaveFixes, StopAtStep,
      BeginSlice, ResumeSlice, CallExecutor, SaveSlice, RecordFailure,
      RecordSuccess, CompleteBundle, StopRun, LoadForIngest, SaveIngested,
      StopIngest

(* When no review is ingested while a run is under way, what a command      *)
(* saves has everything that was in the file.                               *)
LEMMA NothingStaleStep ==
    ASSUME ~Overlap, TypeOK, NothingStale, [Next]_vars
    PROVE  /\ NothingStale'
           /\ \A m \in saved : saved' # {} /\ \A n \in saved' : Grows(m, n)'
<1> USE DEF TypeOK
<1>a. NoRun.at = "idle"
  BY DEF NoRun
<1>b. run.mem \in BundleStates /\ \A m \in saved : m \in BundleStates
  BY DEF Runs
<1>c. ASSUME NEW m, NEW n, Grows(m, n) PROVE Grows(m, n)'
  BY <1>c, GateRecordsStay DEF Grows
<1>d. \A m \in saved : Grows(m, m)'
  BY <1>b, <1>c, GrowsSteps
<1>e. saved' = saved =>
        \A m \in saved : saved' # {} /\ \A n \in saved' : Grows(m, n)'
  BY <1>d DEF NothingStale
<1>f. /\ \A m \in saved, i \in ingest : Grows(m, i.state)'
      /\ run.at # "idle" => \A m \in saved : Grows(m, run.mem)
  BY <1>c DEF NothingStale
<1>1. CASE StartRun
  <2>1. PICK new \in IF saved = {} THEN {NewState} ELSE saved :
            saved' = {new} /\ run'.mem = new
    BY <1>1 DEF StartRun, Save
  <2>2. new \in BundleStates /\ Grows(new, new)'
    BY <2>1, <1>b, <1>c, StateTypes, GrowsSteps
  <2>3. \A m \in saved : m = new
    BY <2>1 DEF NothingStale
  <2>4. ingest' = {}
    BY <1>1 DEF StartRun
  <2> QED BY <2>1, <2>2, <2>3, <2>4 DEF NothingStale
<1>2. CASE ExecuteFix
  <2>1. PICK f \in run.mem.open :
            /\ gateRecords' = gateRecords \cup {f}
            /\ run'.mem = [run.mem EXCEPT !.open = @ \ {f}]
            /\ run'.at = "fixing"
    BY <1>2 DEF ExecuteFix, GoOn, Runs
  <2>2. saved' = saved /\ ingest' = ingest /\ run.at = "fixing"
    BY <1>2 DEF ExecuteFix
  <2>3. /\ run'.mem.completed = run.mem.completed
        /\ run'.mem.blocked = run.mem.blocked
        /\ run'.mem.satisfied = run.mem.satisfied
        /\ run'.mem.done = run.mem.done
        /\ run'.mem.open = run.mem.open \ {f}
    BY <1>b, <2>1 DEF BundleStates
  <2>4. \A m \in saved : Grows(m, run.mem)'
    BY <1>f, <2>1, <2>2, <2>3 DEF Grows
  <2> QED BY <2>1, <2>2, <2>4, <1>e DEF NothingStale
<1>3. CASE RefuseFix \/ StopAtStep \/ StopRun
  <2>1. saved' = saved /\ ingest' = ingest /\ run'.at = "idle"
    BY <1>3, <1>a DEF RefuseFix, StopAtStep, StopRun, EndRun
  <2> QED BY <2>1, <1>c, <1>e, <1>f DEF NothingStale
<1>4. CASE SaveFixes
  <2>1. /\ saved' = {run.mem} /\ run'.mem = run.mem /\ run'.at # "idle"
        /\ ingest' = ingest /\ run.at # "idle"
    BY <1>4 DEF SaveFixes, Save, GoOn, Runs
  <2> QED BY <2>1, <1>b, <1>c, GrowsSteps DEF NothingStale
<1>5. CASE BeginSlice \/ ResumeSlice \/ CallExecutor \/ SaveSlice
  <2>1. /\ run'.mem = run.mem /\ run'.at # "idle" /\ run.at # "idle"
        /\ saved' = saved /\ ingest' = ingest
    BY <1>5 DEF BeginSlice, ResumeSlice, CallExecutor, SaveSlice, GoOn, Runs
  <2> QED BY <2>1, <1>c, <1>e, <1>f DEF NothingStale
<1>6. CASE RecordFailure
  <2>1. /\ saved' = {BlockStep(run.mem, run.step)} /\ run'.at = "idle"
        /\ ingest' = ingest /\ run.at # "idle"
    BY <1>6, <1>a DEF RecordFailure, Save, EndRun
  <2>2. \A m \in saved : Grows(m, BlockStep(run.mem, run.step))
    BY <2>1, <1>b, GrowsSteps, GrowsOn DEF NothingStale
  <2> QED BY <2>1, <2>2, <1>c DEF NothingStale
<1>7. CASE RecordSuccess
  <2> DEFINE n == MarkStepComplete(run.mem, run.step)
  <2>1. /\ saved' = {n} /\ run'.at # "idle" /\ run'.mem = n
        /\ ingest' = ingest /\ run.at # "idle"
    BY <1>7 DEF RecordSuccess, Save, GoOn
  <2>2. \A m \in saved : Grows(m, n)
    BY <2>1, <1>b, GrowsSteps, GrowsOn DEF NothingStale
  <2>3. Grows(n, n)
    BY <1>b DEF Grows, MarkStepComplete, BundleStates
  <2> HIDE DEF n
  <2> QED BY <2>1, <2>2, <2>3, <1>c DEF NothingStale
<1>8. CASE CompleteBundle
  <2> DEFINE n == [run.mem EXCEPT !.done = TRUE]
  <2>1. /\ (saved' = {n} \/ saved' = saved)
        /\ run'.at = "idle" /\ ingest' = ingest /\ run.at # "idle"
    BY <1>8, <1>a DEF CompleteBundle, Save, EndRun
  <2>2. \A m \in saved : Grows(m, n)
    BY <2>1, <1>b, GrowsSteps, GrowsOn DEF NothingStale
  <2> HIDE DEF n
  <2> QED BY <2>1, <2>2, <1>c, <1>e DEF NothingStale
<1>9. CASE LoadForIngest
  <2>1. PICK old \in saved, c \in Checkpoint, findings \in SUBSET Fix :
            ingest' = {[state |-> [old EXCEPT !.satisfied = @ \cup {c},
                                              !.open = @ \cup findings],
                        review |-> c]}
    BY <1>9 DEF LoadForIngest
  <2> DEFINE new == [old EXCEPT !.satisfied = @ \cup {c},
                                !.open = @ \cup findings]
  <2>2. Grows(old, new)
    BY <1>b, GrowsSteps
  <2>3. ingest' = {[state |-> new, review |-> c]}
    BY <2>1
  <2> HIDE DEF new
  <2>4. \A i \in ingest' : i.state = new
    BY <2>3
  <2>5. saved' = saved /\ run' = run /\ run.at = "idle"
    BY <1>9 DEF LoadForIngest
  <2>6. \A m \in saved : m = old
    BY DEF NothingStale
  <2>7. \A m \in saved, i \in ingest' : Grows(m, i.state)
    BY <2>2, <2>4, <2>6
  <2> QED BY <2>5, <2>7, <1>c, <1>e DEF NothingStale
<1>10. CASE SaveIngested
  <2>1. PICK i \in ingest : saved' = {i.state}
    BY <1>10 DEF SaveIngested, Save
  <2>2. run' = run /\ ingest' = {} /\ run.at = "idle"
    BY <1>10, <2>1 DEF SaveIngested, NothingStale
  <2>3. \A m \in saved : Grows(m, i.state)
    BY DEF NothingStale
  <2> QED BY <2>1, <2>2, <2>3, <1>c DEF NothingStale
<1>11. CASE StopIngest
  <2>1. saved' = saved /\ run' = run /\ ingest' = {}
    BY <1>11 DEF StopIngest
  <2> QED BY <2>1, <1>c, <1>e, <1>f DEF NothingStale
<1>12. CASE UNCHANGED vars
  <2>1. saved' = saved /\ run' = run /\ ingest' = ingest
    BY <1>12 DEF vars
  <2> QED BY <2>1, <1>c, <1>e, <1>f DEF NothingStale
<1> QED
  BY <1>1, <1>2, <1>3, <1>4, <1>5, <1>6, <1>7, <1>8, <1>9, <1>10, <1>11,
     <1>12 DEF Next

(* If reviews are only ingested between runs, no save undoes another one -  *)
(* also when runs and ingestions stop half-way.  The overwrites that the    *)
(* other theorems allow for all come from overlapping commands.             *)
THEOREM NothingLostInTurn ==
    ASSUME ~Overlap PROVE Spec => NothingLost
<1>1. Init => NothingStale
  BY DEF Init, NothingStale, NoRun
<1>2. IInv /\ NothingStale /\ [Next]_vars => NothingStale'
  BY NothingStaleStep DEF IInv
<1>3. IInv /\ NothingStale /\ [Next]_vars =>
        [\A m \in saved : saved' # {} /\ \A n \in saved' : Grows(m, n)']_vars
  BY NothingStaleStep DEF IInv
<1> QED BY <1>1, <1>2, <1>3, Invariance, PTL DEF Spec, NothingLost

----------------------------------------------------------------------------
(* What the file says of a step, and what the step's own file says          *)

(* A failure is never taken for success in the run that saw it, nor a       *)
(* success for a failure: a completed step's file does not say "failed", a  *)
(* blocked step's says "failed" or "blocked".  That a step resumed after a  *)
(* crash counts as completed though it had failed (CompletedMeansSuccess is *)
(* false) comes of the resumption alone, which rewrites its file to         *)
(* "blocked".                                                               *)
VerdictsMatchFiles ==
    \A m \in Held :
        /\ \A s \in m.completed : stepFile[s] # "failed"
        /\ \A s \in m.blocked : stepFile[s] \in {"failed", "blocked"}

VerdictInHand ==
    run.at = "recording" => (run.got = "failed" <=> stepFile[run.step] = "failed")

(* A result stays what it is, or a resumed run rewrites it to "blocked".    *)
LEMMA ResultRewrites ==
    ASSUME TypeOK, StepInHand, [Next]_vars, NEW s \in Step, HasResult(s)
    PROVE  \/ stepFile'[s] = stepFile[s]
           \/ stepFile[s] # "success" /\ stepFile'[s] = "blocked"
<1> USE DEF TypeOK, HasResult
<1>1. CASE BeginSlice
  <2>1. PICK t \in Step :
            /\ stepFile[t] \in {"absent", "running"}
            /\ stepFile' = [stepFile EXCEPT ![t] = "running"]
    BY <1>1 DEF BeginSlice, NextStep
  <2> QED BY <2>1
<1>2. CASE ResumeSlice
  <2>1. PICK t \in Step :
            stepFile' = [stepFile EXCEPT ![t] =
                             IF @ = "success" THEN @ ELSE "blocked"]
    BY <1>2 DEF ResumeSlice, NextStep
  <2> QED BY <2>1
<1>3. CASE SaveSlice
  <2>1. /\ stepFile[run.step] = "running"
        /\ stepFile' = [stepFile EXCEPT ![run.step] = SliceStatus(run.got)]
    BY <1>3 DEF SaveSlice, StepInHand
  <2> QED BY <2>1
<1>4. CASE UNCHANGED stepFile
  BY <1>4
<1> QED
  BY <1>1, <1>2, <1>3, <1>4 DEF Next, vars, StartRun, ExecuteFix, RefuseFix,
     SaveFixes, StopAtStep, CallExecutor, RecordFailure, RecordSuccess,
     CompleteBundle, StopRun, LoadForIngest, SaveIngested, StopIngest

LEMMA VerdictInHandStep ==
    ASSUME TypeOK, StepInHand, VerdictInHand, [Next]_vars PROVE VerdictInHand'
<1> USE DEF TypeOK, VerdictInHand
<1>1. CASE ResumeSlice
  <2>1. PICK t \in Step :
            /\ stepFile' = [stepFile EXCEPT ![t] =
                                IF @ = "success" THEN @ ELSE "blocked"]
            /\ run'.step = t /\ run'.got = "blocked"
    BY <1>1 DEF ResumeSlice, NextStep, GoOn, Runs
  <2> QED BY <2>1
<1>2. CASE SaveSlice
  <2>1. /\ run.step \in Step
        /\ stepFile' = [stepFile EXCEPT ![run.step] = SliceStatus(run.got)]
        /\ run'.step = run.step /\ run'.got = SliceStatus(run.got)
    BY <1>2 DEF SaveSlice, StepInHand, GoOn, Runs
  <2> QED BY <2>1
<1>3. CASE run'.at # "recording"
  BY <1>3
<1>4. CASE UNCHANGED <<run, stepFile>>
  BY <1>4
<1> QED
  <2>1. CASE StartRun \/ ExecuteFix \/ SaveFixes \/ RecordSuccess
    BY <1>3, <2>1 DEF StartRun, ExecuteFix, SaveFixes, RecordSuccess, GoOn, Runs
  <2>4. CASE BeginSlice
    BY <1>3, <2>4 DEF BeginSlice, GoOn, Runs
  <2>5. CASE CallExecutor
    BY <1>3, <2>5 DEF CallExecutor, GoOn, Runs
  <2>2. CASE RefuseFix \/ StopAtStep \/ RecordFailure \/ CompleteBundle
             \/ StopRun
    BY <1>3, <2>2 DEF RefuseFix, StopAtStep, RecordFailure, CompleteBundle,
       StopRun, EndRun, NoRun
  <2>3. CASE LoadForIngest \/ SaveIngested \/ StopIngest \/ UNCHANGED vars
    BY <1>4, <2>3 DEF LoadForIngest, SaveIngested, StopIngest, vars
  <2> QED BY <1>1, <1>2, <2>1, <2>2, <2>3, <2>4, <2>5 DEF Next

(* What a verdict says of a step and its file lasts. *)
LEMMA VerdictsStep ==
    ASSUME TypeOK, StepInHand, VerdictInHand, CompletedHaveResults,
           VerdictsMatchFiles, [Next]_vars
    PROVE  VerdictsMatchFiles'
<1> SUFFICES ASSUME NEW m \in Held'
             PROVE  /\ \A s \in m.completed : stepFile'[s] # "failed"
                    /\ \A s \in m.blocked : stepFile'[s] \in {"failed", "blocked"}
  BY DEF VerdictsMatchFiles
<1>1. ASSUME NEW n \in Held
      PROVE  /\ n.completed \subseteq Step /\ n.blocked \subseteq Step
             /\ \A s \in n.completed : stepFile'[s] # "failed"
             /\ \A s \in n.blocked : stepFile'[s] \in {"failed", "blocked"}
  <2>1. n.completed \subseteq Step /\ n.blocked \subseteq Step
    BY DEF Held, TypeOK, Runs, Ingests, BundleStates
  <2>2. \A s \in n.completed : HasResult(s) /\ stepFile[s] # "failed"
    BY DEF Held, CompletedHaveResults, VerdictsMatchFiles
  <2>3. \A s \in n.blocked : HasResult(s) /\ stepFile[s] \in {"failed", "blocked"}
    BY DEF VerdictsMatchFiles, HasResult
  <2> QED BY <2>1, <2>2, <2>3, ResultRewrites
<1>2. run.mem \in Held /\ run.mem \in BundleStates
  BY DEF Held, TypeOK, Runs
<1>3. CASE m = NewState
  BY <1>3 DEF NewState
<1>4. CASE m \in Held
  BY <1>1, <1>4
<1>5. CASE (\E f : m = [run.mem EXCEPT !.open = @ \ {f}])
           \/ m = [run.mem EXCEPT !.done = TRUE]
  <2>1. m.completed = run.mem.completed /\ m.blocked = run.mem.blocked
    BY <1>2, <1>5 DEF BundleStates
  <2> QED BY <1>1, <1>2, <2>1
<1>6. CASE /\ run.at = "recording" /\ run.got = "failed"
           /\ m = BlockStep(run.mem, run.step)
  <2>1. /\ m.completed = run.mem.completed
        /\ m.blocked = run.mem.blocked \cup {run.step}
    BY <1>2, <1>6 DEF BlockStep, BundleStates
  <2>2. run.step \in Step /\ HasResult(run.step) /\ stepFile[run.step] = "failed"
    BY <1>6 DEF StepInHand, VerdictInHand
  <2>3. stepFile'[run.step] \in {"failed", "blocked"}
    BY <2>2, ResultRewrites
  <2> QED BY <1>1, <1>2, <2>1, <2>3
<1>7. CASE /\ run.at = "recording" /\ run.got # "failed"
           /\ m = MarkStepComplete(run.mem, run.step)
  <2>1. /\ m.completed = run.mem.completed \cup {run.step}
        /\ m.blocked = run.mem.blocked
    BY <1>2, <1>7 DEF MarkStepComplete, BundleStates
  <2>2. run.step \in Step /\ HasResult(run.step) /\ stepFile[run.step] # "failed"
    BY <1>7 DEF StepInHand, VerdictInHand
  <2>3. stepFile'[run.step] # "failed"
    BY <2>2, ResultRewrites
  <2> QED BY <1>1, <1>2, <2>1, <2>3
<1>8. CASE \E old \in saved, c \in Checkpoint, findings \in SUBSET Fix :
               m = [old EXCEPT !.satisfied = @ \cup {c},
                               !.open = @ \cup findings]
  <2>1. PICK old \in saved, c \in Checkpoint, findings \in SUBSET Fix :
               m = [old EXCEPT !.satisfied = @ \cup {c},
                               !.open = @ \cup findings]
    BY <1>8
  <2>2. old \in BundleStates /\ old \in Held
    BY DEF TypeOK, Held
  <2>3. m.completed = old.completed /\ m.blocked = old.blocked
    BY <2>1, <2>2 DEF BundleStates
  <2> QED BY <1>1, <2>2, <2>3
<1> QED BY HeldFrom, <1>3, <1>4, <1>5, <1>6, <1>7, <1>8

(* However runs and ingestions overlap, stop and overwrite each other, a    *)
(* completed step's file does not say "failed" and a blocked step's never   *)
(* "success" (execute_bundle_run, execute_sequence_run).                    *)
THEOREM VerdictsKept == Spec => []VerdictsMatchFiles
<1>1. Init => VerdictInHand /\ VerdictsMatchFiles
  BY DEF Init, VerdictInHand, VerdictsMatchFiles, Held, NoRun, NewState
<1>2. IInv /\ VerdictInHand /\ VerdictsMatchFiles /\ [Next]_vars =>
          VerdictInHand' /\ VerdictsMatchFiles'
  BY VerdictInHandStep, VerdictsStep DEF IInv
<1> QED BY <1>1, <1>2, Invariance, PTL DEF Spec

----------------------------------------------------------------------------
(* A bundle whose commands take turns is a queue of steps                   *)

(* What the file says is completed, and what it says is blocked. *)
SavedCompleted == UNION {m.completed : m \in saved}
SavedBlocked == UNION {m.blocked : m \in saved}

(* A bundle seen as a queue of steps, of which a step is settled when its   *)
(* result is saved.                                                         *)
Queue == INSTANCE SequentialQueue WITH
    settled <- Cardinality(SavedCompleted \cup SavedBlocked),
    outcome <- IF SavedBlocked # {} THEN "blocked"
               ELSE IF SavedCompleted = Step THEN "completed" ELSE "open"

ImplementsSequentialQueue == Queue!Spec

(* A blocked step is the one after the completed ones. *)
BlockedIsNext ==
    \A m \in Held : \A s \in m.blocked :
        s \in Step /\ s \notin m.completed /\ 1..(s - 1) \subseteq m.completed

SameSteps(m, n) == m.completed = n.completed /\ m.blocked = n.blocked

(* While nobody else saves, a command's copy names the steps the file names.*)
StepsCurrent ==
    /\ \A m, n \in saved : m = n
    /\ run.at = "idle" \/ ingest = {}
    /\ run.at # "idle" =>
           saved # {} /\ \A m \in saved : SameSteps(m, run.mem)
    /\ \A i \in ingest : saved # {} /\ \A m \in saved : SameSteps(m, i.state)

(* Blocking the step in hand blocks the one after the completed ones. *)
LEMMA BlockedIsNextStep ==
    ASSUME TypeOK, StepInHand, MayRecord, BlockedIsNext, [Next]_vars
    PROVE  BlockedIsNext'
<1> SUFFICES ASSUME NEW m \in Held', NEW s \in m.blocked
             PROVE  s \in Step /\ s \notin m.completed
                    /\ 1..(s - 1) \subseteq m.completed
  BY DEF BlockedIsNext
<1>1. ASSUME NEW n \in Held, s \in n.blocked
      PROVE  s \in Step /\ s \notin n.completed
             /\ 1..(s - 1) \subseteq n.completed
  BY <1>1 DEF BlockedIsNext
<1>2. run.mem \in Held /\ run.mem \in BundleStates
  BY DEF Held, TypeOK, Runs
<1>3. CASE m = NewState
  BY <1>3 DEF NewState
<1>4. CASE m \in Held
  BY <1>1, <1>4
<1>5. CASE (\E f : m = [run.mem EXCEPT !.open = @ \ {f}])
           \/ m = [run.mem EXCEPT !.done = TRUE]
  <2>1. m.completed = run.mem.completed /\ m.blocked = run.mem.blocked
    BY <1>2, <1>5 DEF BundleStates
  <2> QED BY <1>1, <1>2, <2>1
<1>6. CASE run.at = "recording" /\ m = BlockStep(run.mem, run.step)
  <2>1. /\ m.completed = run.mem.completed
        /\ m.blocked = run.mem.blocked \cup {run.step}
    BY <1>2, <1>6 DEF BlockStep, BundleStates
  <2>2. /\ run.step \in Step /\ run.step \notin run.mem.completed
        /\ 1..(run.step - 1) \subseteq run.mem.completed
    BY <1>6 DEF StepInHand, MayRecord
  <2> QED BY <1>1, <1>2, <2>1, <2>2
<1>7. CASE run.at = "recording" /\ m = MarkStepComplete(run.mem, run.step)
  <2>1. /\ m.completed = run.mem.completed \cup {run.step}
        /\ m.blocked = run.mem.blocked
    BY <1>2, <1>7 DEF MarkStepComplete, BundleStates
  <2>2. run.step \notin run.mem.blocked
    BY <1>7 DEF MayRecord
  <2> QED BY <1>1, <1>2, <2>1, <2>2
<1>8. CASE \E old \in saved, c \in Checkpoint, findings \in SUBSET Fix :
               m = [old EXCEPT !.satisfied = @ \cup {c},
                               !.open = @ \cup findings]
  <2>1. PICK old \in saved, c \in Checkpoint, findings \in SUBSET Fix :
               m = [old EXCEPT !.satisfied = @ \cup {c},
                               !.open = @ \cup findings]
    BY <1>8
  <2>2. old \in BundleStates /\ old \in Held
    BY DEF TypeOK, Held
  <2>3. m.completed = old.completed /\ m.blocked = old.blocked
    BY <2>1, <2>2 DEF BundleStates
  <2> QED BY <1>1, <2>2, <2>3
<1> QED BY HeldFrom, <1>3, <1>4, <1>5, <1>6, <1>7, <1>8

(* The step in hand is recorded when no step is blocked: a blocked one      *)
(* would be this one.                                                       *)
LEMMA NoneBlocked ==
    ASSUME TypeOK, StepInHand, MayRecord, BlockedIsNext, run.at = "recording"
    PROVE  run.mem.blocked = {}
<1> SUFFICES ASSUME NEW b \in run.mem.blocked PROVE FALSE
  OBVIOUS
<1>1. /\ b \in Step /\ b \notin run.mem.completed
      /\ 1..(b - 1) \subseteq run.mem.completed
  BY DEF BlockedIsNext, Held
<1>2. /\ run.step \in Step /\ run.step \notin run.mem.completed /\ run.step # b
      /\ 1..(run.step - 1) \subseteq run.mem.completed
  BY DEF StepInHand, MayRecord
<1>3. run.step < b \/ b < run.step
  BY <1>1, <1>2, Numbers DEF Step
<1>4. run.step \in 1..(b - 1) \/ b \in 1..(run.step - 1)
  BY <1>1, <1>2, <1>3, Numbers DEF Step
<1> QED BY <1>1, <1>2, <1>4

(* What a step does to the steps the file names: nothing, or it adds one,   *)
(* completed or blocked, while none is blocked.                             *)
Settles(s) ==
    /\ s \in Step /\ s \notin SavedCompleted /\ SavedBlocked = {}
    /\ \/ SavedCompleted' = SavedCompleted \cup {s} /\ SavedBlocked' = {}
       \/ SavedCompleted' = SavedCompleted /\ SavedBlocked' = {s}

LEMMA StepsCurrentStep ==
    ASSUME ~Overlap, TypeOK, StepInHand, MayRecord, BlockedIsNext, StepsCurrent,
           [Next]_vars
    PROVE  /\ StepsCurrent'
           /\ \/ UNCHANGED <<SavedCompleted, SavedBlocked>>
              \/ \E s \in Step : Settles(s)
<1> USE DEF TypeOK
<1>a. NoRun.at = "idle"
  BY DEF NoRun
<1>b. run.mem \in BundleStates /\ \A m \in saved : m \in BundleStates
  BY DEF Runs
<1>c. ASSUME NEW n, saved = {n}
      PROVE  SavedCompleted = n.completed /\ SavedBlocked = n.blocked
  BY <1>c DEF SavedCompleted, SavedBlocked
<1>d. ASSUME NEW n, saved' = {n}
      PROVE  SavedCompleted' = n.completed /\ SavedBlocked' = n.blocked
  BY <1>d DEF SavedCompleted, SavedBlocked
<1>e. saved' = saved => UNCHANGED <<SavedCompleted, SavedBlocked>>
  BY DEF SavedCompleted, SavedBlocked
<1>f. saved = {} \/ \E n : saved = {n}
  <2> SUFFICES ASSUME NEW n \in saved PROVE \E k : saved = {k}
    OBVIOUS
  <2>1. saved = {n}
    BY DEF StepsCurrent
  <2> QED BY <2>1
<1>g. ASSUME run.at # "idle"
      PROVE  /\ SavedCompleted = run.mem.completed
             /\ SavedBlocked = run.mem.blocked
             /\ ingest = {}
  BY <1>c, <1>f, <1>g DEF StepsCurrent, SameSteps
<1>1. CASE StartRun
  <2>1. PICK new \in IF saved = {} THEN {NewState} ELSE saved :
            saved' = {new} /\ run'.mem = new
    BY <1>1 DEF StartRun, Save
  <2>2. ingest' = {}
    BY <1>1 DEF StartRun
  <2>3. StepsCurrent'
    BY <2>1, <2>2 DEF StepsCurrent, SameSteps
  <2>4. CASE saved = {}
    <3>1. SavedCompleted = {} /\ SavedBlocked = {}
      BY <2>4 DEF SavedCompleted, SavedBlocked
    <3>2. new.completed = {} /\ new.blocked = {}
      BY <2>1, <2>4 DEF NewState
    <3> QED BY <2>1, <2>3, <3>1, <3>2, <1>d
  <2>5. CASE saved # {}
    <3>1. saved = {new}
      BY <2>1, <2>5 DEF StepsCurrent
    <3> QED BY <2>1, <2>3, <3>1, <1>e
  <2> QED BY <2>4, <2>5
<1>2. CASE ExecuteFix
  <2>1. PICK f \in run.mem.open : run'.mem = [run.mem EXCEPT !.open = @ \ {f}]
    BY <1>2 DEF ExecuteFix, GoOn, Runs
  <2>2. saved' = saved /\ ingest' = ingest /\ run.at = "fixing"
    BY <1>2 DEF ExecuteFix
  <2>3. SameSteps(run.mem, run'.mem)
    BY <1>b, <2>1 DEF BundleStates, SameSteps
  <2> QED BY <2>2, <2>3, <1>e, <1>g DEF StepsCurrent, SameSteps
<1>3. CASE RefuseFix \/ StopAtStep \/ StopRun
  <2>1. saved' = saved /\ ingest' = ingest /\ run'.at = "idle"
    BY <1>3, <1>a DEF RefuseFix, StopAtStep, StopRun, EndRun
  <2> QED BY <2>1, <1>e DEF StepsCurrent
<1>4. CASE SaveFixes
  <2>1. /\ saved' = {run.mem} /\ run'.mem = run.mem
        /\ ingest' = ingest /\ run.at # "idle"
    BY <1>4 DEF SaveFixes, Save, GoOn, Runs
  <2>2. UNCHANGED <<SavedCompleted, SavedBlocked>>
    BY <2>1, <1>d, <1>g
  <2> QED BY <2>1, <2>2, <1>g DEF StepsCurrent, SameSteps
<1>5. CASE BeginSlice \/ ResumeSlice \/ CallExecutor \/ SaveSlice
  <2>1. /\ run'.mem = run.mem /\ run.at # "idle"
        /\ saved' = saved /\ ingest' = ingest
    BY <1>5 DEF BeginSlice, ResumeSlice, CallExecutor, SaveSlice, GoOn, Runs
  <2> QED BY <2>1, <1>e, <1>g DEF StepsCurrent
<1>6. CASE RecordFailure
  <2>1. /\ saved' = {BlockStep(run.mem, run.step)} /\ run'.at = "idle"
        /\ ingest' = ingest /\ run.at = "recording"
    BY <1>6, <1>a DEF RecordFailure, Save, EndRun
  <2>2. /\ BlockStep(run.mem, run.step).completed = run.mem.completed
        /\ BlockStep(run.mem, run.step).blocked = run.mem.blocked \cup {run.step}
    BY <1>b DEF BlockStep, BundleStates
  <2>3. run.step \in Step /\ run.step \notin run.mem.completed
    BY <2>1 DEF MayRecord
  <2>4. Settles(run.step)
    BY <2>1, <2>2, <2>3, <1>d, <1>g, NoneBlocked DEF Settles
  <2> QED BY <2>1, <2>3, <2>4, <1>g DEF StepsCurrent
<1>7. CASE RecordSuccess
  <2> DEFINE n == MarkStepComplete(run.mem, run.step)
  <2>1. /\ saved' = {n} /\ run'.mem = n
        /\ ingest' = ingest /\ run.at = "recording"
    BY <1>7 DEF RecordSuccess, Save, GoOn
  <2>2. /\ n.completed = run.mem.completed \cup {run.step}
        /\ n.blocked = run.mem.blocked
    BY <1>b DEF MarkStepComplete, BundleStates
  <2>3. run.step \in Step /\ run.step \notin run.mem.completed
    BY <2>1 DEF MayRecord
  <2> HIDE DEF n
  <2>4. Settles(run.step)
    BY <2>1, <2>2, <2>3, <1>d, <1>g, NoneBlocked DEF Settles
  <2> QED BY <2>1, <2>3, <2>4, <1>g DEF StepsCurrent, SameSteps
<1>8. CASE CompleteBundle
  <2> DEFINE n == [run.mem EXCEPT !.done = TRUE]
  <2>1. /\ (saved' = {n} \/ saved' = saved)
        /\ run'.at = "idle" /\ ingest' = ingest /\ run.at # "idle"
    BY <1>8, <1>a DEF CompleteBundle, Save, EndRun
  <2>2. n.completed = run.mem.completed /\ n.blocked = run.mem.blocked
    BY <1>b DEF BundleStates
  <2> HIDE DEF n
  <2>3. UNCHANGED <<SavedCompleted, SavedBlocked>>
    BY <2>1, <2>2, <1>d, <1>e, <1>g
  <2> QED BY <2>1, <2>3, <1>g DEF StepsCurrent
<1>9. CASE LoadForIngest
  <2>1. PICK old \in saved, c \in Checkpoint, findings \in SUBSET Fix :
            ingest' = {[state |-> [old EXCEPT !.satisfied = @ \cup {c},
                                              !.open = @ \cup findings],
                        review |-> c]}
    BY <1>9 DEF LoadForIngest
  <2> DEFINE new == [old EXCEPT !.satisfied = @ \cup {c},
                                !.open = @ \cup findings]
  <2>2. SameSteps(old, new)
    BY <1>b DEF SameSteps, BundleStates
  <2>3. ingest' = {[state |-> new, review |-> c]}
    BY <2>1
  <2> HIDE DEF new
  <2>4. \A i \in ingest' : i.state = new
    BY <2>3
  <2>5. saved' = saved /\ run' = run /\ run.at = "idle"
    BY <1>9 DEF LoadForIngest
  <2>6. \A m \in saved : m = old
    BY DEF StepsCurrent
  <2> QED BY <2>2, <2>4, <2>5, <2>6, <1>e DEF StepsCurrent
<1>10. CASE SaveIngested
  <2>1. PICK i \in ingest : saved' = {i.state}
    BY <1>10 DEF SaveIngested, Save
  <2>2. run' = run /\ ingest' = {} /\ run.at = "idle"
    BY <1>10, <2>1 DEF SaveIngested, StepsCurrent
  <2>3. PICK m : saved = {m} /\ SameSteps(m, i.state)
    BY <1>f DEF StepsCurrent
  <2>4. UNCHANGED <<SavedCompleted, SavedBlocked>>
    BY <2>1, <2>3, <1>c, <1>d DEF SameSteps
  <2> QED BY <2>1, <2>2, <2>4 DEF StepsCurrent
<1>11. CASE StopIngest
  <2>1. saved' = saved /\ run' = run /\ ingest' = {}
    BY <1>11 DEF StopIngest
  <2> QED BY <2>1, <1>e DEF StepsCurrent
<1>12. CASE UNCHANGED vars
  <2>1. saved' = saved /\ run' = run /\ ingest' = ingest
    BY <1>12 DEF vars
  <2> QED BY <2>1, <1>e DEF StepsCurrent
<1> QED
  BY <1>1, <1>2, <1>3, <1>4, <1>5, <1>6, <1>7, <1>8, <1>9, <1>10, <1>11,
     <1>12 DEF Next

(* Steps are counted up to TotalSteps. *)
LEMMA CountSteps ==
    ASSUME NEW T \in SUBSET Step
    PROVE  /\ IsFiniteSet(T) /\ Cardinality(T) \in Nat
           /\ Cardinality(T) = TotalSteps <=> T = Step
<1>1. IsFiniteSet(Step) /\ Cardinality(Step) = TotalSteps
  BY FS_Interval, BundleConstants DEF Step
<1> QED BY <1>1, FS_Subset, FS_CardinalityType

(* If reviews are only ingested between runs, a bundle implements           *)
(* SequentialQueue: steps are settled one at a time, no result is taken     *)
(* back, the first step that blocks stops the bundle for good; loads,       *)
(* reviews, fixes, executions and stops in between are stutters.            *)
THEOREM BundleIsAQueue ==
    ASSUME ~Overlap PROVE Spec => ImplementsSequentialQueue
<1>1. Init => /\ SoundInv /\ MayRecord /\ BlockedIsNext /\ StepsCurrent
              /\ Queue!Init
  <2> SUFFICES ASSUME Init
               PROVE  /\ SoundInv /\ MayRecord /\ BlockedIsNext /\ StepsCurrent
                      /\ Queue!Init
    OBVIOUS
  <2>1. SoundInv /\ MayRecord /\ BlockedIsNext /\ StepsCurrent
    BY DEF Init, SoundInv, MayRecord, Held, NoRun, NewState, Sound, BlockedIsNext,
       StepsCurrent
  <2>2. SavedCompleted = {} /\ SavedBlocked = {} /\ Step # {}
    BY BundleConstants DEF Init, SavedCompleted, SavedBlocked, Step
  <2>3. Cardinality({}) = 0 /\ SavedCompleted \cup SavedBlocked = {}
    BY <2>2, FS_EmptySet
  <2> QED BY <2>1, <2>2, <2>3 DEF Queue!Init
<1>2. IInv /\ MayRecord /\ BlockedIsNext /\ StepsCurrent /\ [Next]_vars =>
          MayRecord' /\ BlockedIsNext' /\ StepsCurrent'
  BY MayRecordStep, BlockedIsNextStep, StepsCurrentStep DEF IInv
<1>3. ASSUME TypeOK, NEW s \in Step, Settles(s) PROVE Queue!Next
  <2>1. SavedCompleted \in SUBSET Step
    BY <1>3 DEF TypeOK, SavedCompleted, BundleStates
  <2>2. SavedCompleted \cup {s} \in SUBSET Step
    BY <2>1
  <2>3. /\ Cardinality(SavedCompleted \cup {s}) = Cardinality(SavedCompleted) + 1
        /\ Cardinality(SavedCompleted \cup {s}) = TotalSteps
              <=> SavedCompleted \cup {s} = Step
    BY <1>3, <2>1, <2>2, CountSteps, FS_AddElement DEF Settles
  <2>4. CASE SavedCompleted' = SavedCompleted \cup {s} /\ SavedBlocked' = {}
    <3>1. /\ SavedCompleted' \cup SavedBlocked' = SavedCompleted \cup {s}
          /\ SavedCompleted \cup SavedBlocked = SavedCompleted
          /\ SavedBlocked = {} /\ SavedCompleted # Step
      BY <1>3, <2>4 DEF Settles
    <3>2. Queue!Settle(FALSE)
      BY <2>3, <2>4, <3>1 DEF Queue!Settle
    <3> QED BY <3>2 DEF Queue!Next
  <2>5. CASE SavedCompleted' = SavedCompleted /\ SavedBlocked' = {s}
    <3>1. /\ SavedCompleted' \cup SavedBlocked' = SavedCompleted \cup {s}
          /\ SavedCompleted \cup SavedBlocked = SavedCompleted
          /\ SavedBlocked = {} /\ SavedCompleted # Step
      BY <1>3, <2>5 DEF Settles
    <3>2. Queue!Settle(TRUE)
      BY <2>3, <2>5, <3>1 DEF Queue!Settle
    <3> QED BY <3>2 DEF Queue!Next
  <2> QED BY <1>3, <2>4, <2>5 DEF Settles
<1>4. IInv /\ MayRecord /\ BlockedIsNext /\ StepsCurrent /\ [Next]_vars =>
          [Queue!Next]_(Queue!vars)
  <2> SUFFICES ASSUME IInv, MayRecord, BlockedIsNext, StepsCurrent, [Next]_vars
               PROVE  [Queue!Next]_(Queue!vars)
    OBVIOUS
  <2>1. \/ UNCHANGED <<SavedCompleted, SavedBlocked>>
        \/ \E s \in Step : Settles(s)
    BY StepsCurrentStep DEF IInv
  <2>2. CASE UNCHANGED <<SavedCompleted, SavedBlocked>>
    BY <2>2 DEF Queue!vars
  <2>3. CASE \E s \in Step : Settles(s)
    BY <1>3, <2>3 DEF IInv
  <2> QED BY <2>1, <2>2, <2>3
<1> QED
  BY <1>1, <1>2, <1>4, Invariance, PTL
  DEF Spec, ImplementsSequentialQueue, Queue!Spec
===============================================================================
