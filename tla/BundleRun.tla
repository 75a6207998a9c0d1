------------------------------- MODULE BundleRun -------------------------------
(***************************************************************************)
(* A PQX bundle: ordered steps run by execute_bundle_run, reviews ingested *)
(* by a second command, both over one bundle-state file.                   *)
(*                                                                         *)
(* A run loads the state once, works on its copy and saves the copy after  *)
(* every step; each step is a sequence run of one slice with a state file  *)
(* of its own, which a later run resumes.  Ingesting a review loads, adds  *)
(* the checkpoint and its findings, and saves.  Nothing locks the file.    *)
(* Either process may stop between any two of its steps.                   *)
(*                                                                         *)
(* Abstracted: the state is its completed and blocked steps, satisfied     *)
(* checkpoints and open fixes (the rest is derived from these or copied    *)
(* along); a file is written at once (one cut short stops every later      *)
(* command); the order of fixes by priority is any order; execution, judgment *)
(* and triage records are written when all is decided and never read.      *)
(***************************************************************************)
EXTENDS Integers, FiniteSets

CONSTANTS
    TotalSteps,     \* the steps of the bundle are 1..TotalSteps, in order
    Checkpoint,     \* required reviews: [type |-> ..., step |-> ..., blocking |-> ...]
    Fix,            \* findings: [review |-> checkpoint, blocking |-> BOOLEAN]
    Outcome,        \* what the step executor may answer
    Overlap,        \* may a review be ingested while a run is under way?
    MaxExecutions   \* bound: executor calls per step

Step == 1..TotalSteps
ReviewTypes == {"pre_bundle_review", "checkpoint_review", "post_bundle_review"}

ASSUME BundleConstants ==
    /\ TotalSteps \in Nat \ {0}
    /\ Checkpoint \subseteq
           [type : ReviewTypes, step : Step, blocking : BOOLEAN]
    /\ Fix \subseteq [review : Checkpoint, blocking : BOOLEAN]
    /\ Outcome \subseteq {"success", "failed", "blocked", "review_required"}
    /\ Overlap \in BOOLEAN
    /\ MaxExecutions \in Nat

Status == {"running", "success", "failed", "blocked"}
BundleStates ==
    [completed : SUBSET Step, blocked : SUBSET Step, done : BOOLEAN,
     satisfied : SUBSET Checkpoint, open : SUBSET Fix]

VARIABLES
    saved,          \* the bundle-state file: {} or the one state in it
    stepFile,       \* stepFile[s]: status in the step's file, or "absent"
    gateRecords,    \* fixes whose passed gate record is on disk
    run,            \* the run: where it is, its copy, the step in hand
    ingest,         \* the ingesting command: what it is about to save
    executed,       \* history: executor calls per step
    reviewed,       \* history: checkpoints whose review was saved
    foundOpen       \* history: blocking fixes open when the run loaded

vars == <<saved, stepFile, gateRecords, run, ingest, executed, reviewed,
          foundOpen>>

NewState ==
    [completed |-> {}, blocked |-> {}, done |-> FALSE, satisfied |-> {},
     open |-> {}]
NoRun == [at |-> "idle", mem |-> NewState, step |-> 0, got |-> "none"]

Init ==
    /\ saved = {}
    /\ stepFile = [s \in Step |-> "absent"]
    /\ gateRecords = {}
    /\ run = NoRun
    /\ ingest = {}
    /\ executed = [s \in Step |-> 0]
    /\ reviewed = {}
    /\ foundOpen = {}

----------------------------------------------------------------------------
(* pqx_bundle_state                                                         *)

(* Mutant: a gate record an earlier run left on disk is taken for the fix. *)
OpenBlockingUngated(m) == {f \in m.open : f.blocking /\ f \notin gateRecords}
OpenBlocking(m) == {f \in m.open : f.blocking}

(* Mutant: the step after the reviewed one may still run. *)
HoldsLate(c, m, s) ==
    /\ c.blocking
    /\ c \notin m.satisfied
    /\ \/ c.type = "pre_bundle_review"
       \/ /\ c.type = "checkpoint_review"
          /\ c.step \in m.completed
          /\ s > c.step + 1

(* _enforce_review_checkpoint_gates: does checkpoint c keep step s waiting? *)
Holds(c, m, s) ==
    /\ c.blocking
    /\ c \notin m.satisfied
    /\ \/ c.type = "pre_bundle_review"
       \/ /\ c.type = "checkpoint_review"
          /\ c.step \in m.completed
          /\ s > c.step

(* assert_valid_advancement, for a plan of one bundle without dependencies  *)
(* (a plan of one bundle that has some is refused as a whole).              *)
MayAdvance(m, s) ==
    /\ s \notin m.completed
    /\ s \notin m.blocked
    /\ 1..(s - 1) \subseteq m.completed
    /\ \A c \in Checkpoint : ~Holds(c, m, s)
    /\ OpenBlocking(m) = {}

(* Mutant: the list is replaced, not extended. *)
MarkStepCompleteAlone(m, s) == [m EXCEPT !.completed = {s}]

MarkStepComplete(m, s) == [m EXCEPT !.completed = @ \cup {s}]
BlockStep(m, s) == [m EXCEPT !.blocked = @ \cup {s}]

MayComplete(m) ==
    /\ Step \subseteq m.completed
    /\ \A c \in Checkpoint :
           c.type = "post_bundle_review" /\ c.blocking => c \in m.satisfied
    /\ OpenBlocking(m) = {}

IsPrefix(m) == \A s \in m.completed : 1..s \subseteq m.completed

----------------------------------------------------------------------------
(* execute_bundle_run                                                       *)

Save(m) == saved' = {m}
EndRun == run' = NoRun /\ foundOpen' = {}
GoOn(next) == run' = next /\ UNCHANGED foundOpen

(* Load the state, or initialise and save it.  A completed bundle and a     *)
(* state whose completed steps are no prefix are refused.  Fixes are        *)
(* executed first if the caller asks for it.                                *)
StartRun ==
    /\ run.at = "idle"
    /\ Overlap \/ ingest = {}
    /\ \E m \in IF saved = {} THEN {NewState} ELSE saved :
       \E executeFixes \in BOOLEAN :
           /\ ~m.done
           /\ IsPrefix(m)
           /\ Save(m)
           /\ run' = [at |-> IF executeFixes /\ m.open # {}
                             THEN "fixing" ELSE "stepping",
                      mem |-> m, step |-> 0, got |-> "none"]
           /\ foundOpen' = {f \in m.open : f.blocking}
    /\ UNCHANGED <<stepFile, gateRecords, ingest, executed, reviewed>>

(* A pending fix is executed (the fix executor always succeeds), its record *)
(* and its gate record written; the gate passes and resolves the finding,   *)
(* so far only in the run's copy.                                           *)
ExecuteFix ==
    /\ run.at = "fixing"
    /\ \E f \in run.mem.open :
           /\ gateRecords' = gateRecords \cup {f}
           /\ GoOn([run EXCEPT !.mem.open = @ \ {f}])
    /\ UNCHANGED <<saved, stepFile, ingest, executed, reviewed>>

(* No TPA gate artifact for a fix, or an invalid one: the run raises, and   *)
(* what it resolved before is not saved.                                    *)
RefuseFix ==
    /\ run.at = "fixing"
    /\ run.mem.open # {}
    /\ EndRun
    /\ UNCHANGED <<saved, stepFile, gateRecords, ingest, executed, reviewed>>

SaveFixes ==
    /\ run.at = "fixing"
    /\ run.mem.open = {}
    /\ Save(run.mem)
    /\ GoOn([run EXCEPT !.at = "stepping"])
    /\ UNCHANGED <<stepFile, gateRecords, ingest, executed, reviewed>>

(* The first step that is not completed: at most one. *)
NextStep(m) == {s \in Step \ m.completed : \A t \in Step \ m.completed : s <= t}

(* A step that may not advance ends the run as blocked. *)
StopAtStep ==
    /\ run.at = "stepping"
    /\ \E s \in NextStep(run.mem) : ~MayAdvance(run.mem, s)
    /\ EndRun
    /\ UNCHANGED <<saved, stepFile, gateRecords, ingest, executed, reviewed>>

----------------------------------------------------------------------------
(* execute_sequence_run with one slice                                      *)

(* Mutant: the step's file is not resumed. *)
BeginSliceFresh ==
    /\ run.at = "stepping"
    /\ \E s \in NextStep(run.mem) :
           /\ MayAdvance(run.mem, s)
           /\ stepFile' = [stepFile EXCEPT ![s] = "running"]
           /\ GoOn([run EXCEPT !.at = "executing", !.step = s])
    /\ UNCHANGED <<saved, gateRecords, ingest, executed, reviewed>>

(* A new file, or one whose slice has no result yet. *)
BeginSlice ==
    /\ run.at = "stepping"
    /\ \E s \in NextStep(run.mem) :
           /\ MayAdvance(run.mem, s)
           /\ stepFile[s] \in {"absent", "running"}
           /\ stepFile' = [stepFile EXCEPT ![s] = "running"]
           /\ GoOn([run EXCEPT !.at = "executing", !.step = s])
    /\ UNCHANGED <<saved, gateRecords, ingest, executed, reviewed>>

(* A file whose slice has its result: nothing is executed.  The sequence    *)
(* finds no audit record to synthesise from and ends "blocked", whether the *)
(* slice succeeded or failed.                                               *)
ResumeSlice ==
    /\ run.at = "stepping"
    /\ \E s \in NextStep(run.mem) :
           /\ MayAdvance(run.mem, s)
           /\ stepFile[s] \in {"success", "failed", "blocked"}
           /\ stepFile' = [stepFile EXCEPT ![s] =
                              IF @ = "success" THEN @ ELSE "blocked"]
           /\ GoOn([run EXCEPT !.at = "recording", !.step = s,
                                !.got = "blocked"])
    /\ UNCHANGED <<saved, gateRecords, ingest, executed, reviewed>>

CallExecutor ==
    /\ run.at = "executing"
    /\ executed[run.step] < MaxExecutions
    /\ executed' = [executed EXCEPT ![run.step] = @ + 1]
    /\ \E answer \in Outcome :
           GoOn([run EXCEPT !.at = "answered", !.got = answer])
    /\ UNCHANGED <<saved, stepFile, gateRecords, ingest, reviewed>>

(* Mutant: the answer itself is the status. *)
SliceStatusRaw(answer) == answer

SliceStatus(answer) ==
    CASE answer = "success" -> "success"
      [] answer = "failed" -> "failed"
      [] OTHER -> "blocked"

(* Mutant: the result stays in memory. *)
SaveSliceSkipped ==
    /\ run.at = "answered"
    /\ GoOn([run EXCEPT !.at = "recording", !.got = SliceStatus(@)])
    /\ UNCHANGED <<saved, stepFile, gateRecords, ingest, executed, reviewed>>

SaveSlice ==
    /\ run.at = "answered"
    /\ stepFile' = [stepFile EXCEPT ![run.step] = SliceStatus(run.got)]
    /\ GoOn([run EXCEPT !.at = "recording", !.got = SliceStatus(@)])
    /\ UNCHANGED <<saved, gateRecords, ingest, executed, reviewed>>

----------------------------------------------------------------------------
(* execute_bundle_run, continued                                            *)

(* The sequence ended "failed": the step is blocked and the run ends. *)
RecordFailure ==
    /\ run.at = "recording"
    /\ run.got = "failed"
    /\ Save(BlockStep(run.mem, run.step))
    /\ EndRun
    /\ UNCHANGED <<stepFile, gateRecords, ingest, executed, reviewed>>

(* It ended in any other way: the step is complete. *)
RecordSuccess ==
    /\ run.at = "recording"
    /\ run.got # "failed"
    /\ LET m == MarkStepComplete(run.mem, run.step)
       IN  /\ Save(m)
           /\ GoOn([at |-> "stepping", mem |-> m, step |-> 0, got |-> "none"])
    /\ UNCHANGED <<stepFile, gateRecords, ingest, executed, reviewed>>

(* All steps are complete: so is the bundle, unless a review or a fix is    *)
(* missing.                                                                 *)
CompleteBundle ==
    /\ run.at = "stepping"
    /\ NextStep(run.mem) = {}
    /\ IF MayComplete(run.mem)
       THEN Save([run.mem EXCEPT !.done = TRUE])
       ELSE UNCHANGED saved
    /\ EndRun
    /\ UNCHANGED <<stepFile, gateRecords, ingest, executed, reviewed>>

StopRun ==
    /\ run.at # "idle"
    /\ EndRun
    /\ UNCHANGED <<saved, stepFile, gateRecords, ingest, executed, reviewed>>

----------------------------------------------------------------------------
(* run_pqx_bundle.py ingest-findings                                        *)

(* Load the state and add one review: its checkpoint is satisfied and its   *)
(* findings become open fixes.  A second review of a checkpoint is refused. *)
LoadForIngest ==
    /\ ingest = {}
    /\ Overlap \/ run.at = "idle"
    /\ \E m \in saved, c \in Checkpoint :
       \E findings \in SUBSET {f \in Fix : f.review = c} :
           /\ c \notin m.satisfied
           /\ ingest' = {[state |-> [m EXCEPT !.satisfied = @ \cup {c},
                                              !.open = @ \cup findings],
                          review |-> c]}
    /\ UNCHANGED <<saved, stepFile, gateRecords, run, executed, reviewed,
                   foundOpen>>

SaveIngested ==
    /\ \E i \in ingest :
           /\ Save(i.state)
           /\ reviewed' = reviewed \cup {i.review}
    /\ ingest' = {}
    /\ UNCHANGED <<stepFile, gateRecords, run, executed, foundOpen>>

StopIngest ==
    /\ ingest # {}
    /\ ingest' = {}
    /\ UNCHANGED <<saved, stepFile, gateRecords, run, executed, reviewed,
                   foundOpen>>

----------------------------------------------------------------------------
Next ==
    \/ StartRun \/ ExecuteFix \/ RefuseFix \/ SaveFixes \/ StopAtStep
    \/ BeginSlice \/ ResumeSlice \/ CallExecutor \/ SaveSlice
    \/ RecordFailure \/ RecordSuccess \/ CompleteBundle \/ StopRun
    \/ LoadForIngest \/ SaveIngested \/ StopIngest

Spec == Init /\ [][Next]_vars

----------------------------------------------------------------------------
(* Properties                                                               *)

HasResult(s) == stepFile[s] \in {"success", "failed", "blocked"}

Labels ==
    {"idle", "fixing", "stepping", "executing", "answered", "recording"}
Runs ==
    [at : Labels, mem : BundleStates, step : 0..TotalSteps,
     got : Outcome \cup Status \cup {"none"}]
Ingests == [state : BundleStates, review : Checkpoint]

(* Every variable keeps its type; the file and the ingesting command hold   *)
(* at most one state.                                                       *)
TypeOK ==
    /\ saved \subseteq BundleStates /\ Cardinality(saved) <= 1
    /\ stepFile \in [Step -> Status \cup {"absent"}]
    /\ gateRecords \subseteq Fix
    /\ run \in Runs
    /\ ingest \subseteq Ingests
    /\ Cardinality(ingest) <= 1
    /\ executed \in [Step -> 0..MaxExecutions]
    /\ reviewed \subseteq Checkpoint
    /\ foundOpen \subseteq Fix

(* "resume blocked: completed_step_ids are inconsistent with bundle step    *)
(* order" is never raised on a state the two commands wrote: whatever they  *)
(* overwrite of each other, the completed steps are the first ones.         *)
CompletedInOrder == \A m \in saved : IsPrefix(m)

(* Required reviews come first: no step is executed before the review of a  *)
(* blocking checkpoint that precedes it was saved, also when a run that     *)
(* started without the review, or stopped, is followed by others.           *)
StepsWaitForReviews ==
    \A s \in Step, c \in Checkpoint :
        executed[s] > 0 /\ c.blocking =>
            /\ c.type = "pre_bundle_review" => c \in reviewed
            /\ c.type = "checkpoint_review" /\ c.step < s => c \in reviewed

(* Blocking findings come first: a run executes no step before it has fixed *)
(* itself every blocking finding that was open when it loaded the state: a  *)
(* passed gate record on disk is not enough when the run that wrote it      *)
(* raised or stopped before it saved what the record resolved               *)
(* (pqx_fix_gate.md: execution is not resolution).                          *)
StepsWaitForFixes ==
    run.at \in {"executing", "answered"} =>
        foundOpen \subseteq gateRecords \ run.mem.open

(* A step whose result is on disk is never executed again and its result    *)
(* never turns, although the bundle state that should say so was not saved, *)
(* or was overwritten by an ingested review.                                *)
ResultsNotRepeated ==
    [][\A s \in Step :
          HasResult(s) =>
              /\ HasResult(s)'
              /\ stepFile'[s] = "success" <=> stepFile[s] = "success"
              /\ executed'[s] = executed[s]]_vars

(* artifact_index: every completed step, in the file and in the hands of    *)
(* either command, has a step file with a result.                           *)
CompletedHaveResults ==
    \A m \in saved \cup {run.mem} \cup {i.state : i \in ingest} :
        \A s \in m.completed : HasResult(s)

(* pqx_bundle_orchestrator.md: "blocks on first failed/invalid step": a     *)
(* step that is completed was executed with success.                        *)
CompletedMeansSuccess ==
    \A m \in saved : \A s \in m.completed : stepFile[s] = "success"
==============================================================================
