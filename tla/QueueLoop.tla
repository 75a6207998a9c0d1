------------------------------ MODULE QueueLoop ------------------------------
(***************************************************************************)
(* The queue execution loop: `run_queue_once` and the command lines around *)
(* it (run, resume from a checkpoint, replay from a checkpoint).           *)
(*                                                                         *)
(* Every invocation is a short-lived process that reads the queue-state    *)
(* file, executes at most one step, and rewrites the file in place: the    *)
(* write truncates the file and then fills it, so other processes and a    *)
(* crash can see it half written.  No lock is taken.                       *)
(*                                                                         *)
(* Abstracted: the work items inside the state (module PromptQueue), the   *)
(* manifest (a constant: TotalSteps, AllowWarn) and the content of the     *)
(* findings; the execution seam is the set Verdict of what one step's      *)
(* execution, report parsing and step decision can come to.                *)
(***************************************************************************)
EXTENDS Integers, Sequences, FiniteSets

CONSTANTS
    Runner,         \* processes running one of the command lines
    TotalSteps,     \* len(manifest["steps"])
    Verdict,        \* what a step's execution and findings may come to
    AllowWarn,      \* manifest["execution_policy"]["allow_warn"]
    DecisionFiles,  \* are step decisions kept in files named by their id?
    MaxLost,        \* bound: executions of one step whose result is lost
    MaxTicks        \* bound: seconds the wall clock advances

AllVerdicts == {"clean", "warning", "errors", "ambiguous",
                "failure", "refused"}

ASSUME LoopConstants ==
    /\ TotalSteps \in Nat \ {0}
    /\ Verdict \subseteq AllVerdicts
    /\ AllowWarn \in BOOLEAN
    /\ DecisionFiles \in BOOLEAN
    /\ MaxLost \in Nat
    /\ MaxTicks \in Nat

Steps == 1..TotalSteps

VARIABLES
    durable,    \* queue state last written completely to the file
    torn,       \* is the file cut short by a write that has not finished?
    overlap,    \* have two writers had the file open at the same time?
    pc,         \* pc[r]: where runner r is
    base,       \* base[r]: the queue state r read
    next,       \* next[r]: the queue state r computed
    held,       \* held[r]: last_completed_step_index r must pass, -1 if none
    ckpt,       \* the resume checkpoint on disk
    parity,     \* parity_status of the last replay record
    now,        \* wall clock, in the whole seconds decision ids are made of
    executed,   \* history: executed[s] = times step s was executed
    lost        \* history: lost[s] = executions whose result was dropped

vars == <<durable, torn, overlap, pc, base, next, held, ckpt, parity, now,
          executed, lost>>

----------------------------------------------------------------------------
(* Queue states                                                             *)

Ref == [step : Steps, at : 0..MaxTicks]
StepResult == [status : {"completed", "blocked"}, ref : Ref]

NewQueue == [status |-> "pending", index |-> 0, results |-> <<>>,
             active |-> TRUE]

AllCompleted(q) ==
    \A i \in 1..Len(q.results) : q.results[i].status = "completed"

(* The schema rules of prompt_queue_state and the loop's own input checks. *)
LoopInputsValid(q) ==
    /\ q.status = "pending" => q.index = 0 /\ q.results = <<>>
    /\ q.status = "completed" => ~q.active
    /\ Len(q.results) = q.index
    /\ \A i \in 1..Len(q.results) : q.results[i].ref.step = i
    /\ AllCompleted(q)

(* Mutant: the last step is never eligible. *)
HasNextStepButLast(q) ==
    q.status \notin {"blocked", "completed"} /\ q.index + 1 < TotalSteps

HasNextStep(q) ==
    q.status \notin {"blocked", "completed"} /\ q.index < TotalSteps

(* build_queue_transition_decision followed by the loop's fail-closed map:  *)
(* only continue, and request_review when the manifest allows warnings,     *)
(* let the queue go on; retry_allowed is turned into a block.               *)
TransitionAction(v) ==
    IF v = "clean" THEN "continue"
    ELSE IF v = "warning" THEN "request_review"
    ELSE IF v = "errors" THEN "retry_allowed"
    ELSE "block"

Blocks(v) ==
    \/ TransitionAction(v) \in {"block", "retry_allowed"}
    \/ TransitionAction(v) = "request_review" /\ ~AllowWarn

(* Mutant: a blocked step does not advance current_step_index. *)
ApplyTransitionKeepsIndex(q, blocked, at) ==
    LET i      == q.index + 1
        result == [status |-> IF blocked THEN "blocked" ELSE "completed",
                   ref    |-> [step |-> i, at |-> at]]
    IN  IF blocked
        THEN [q EXCEPT !.status = "blocked", !.results = Append(@, result)]
        ELSE [status  |-> IF i = TotalSteps THEN "completed" ELSE "running",
              index   |-> i,
              results |-> Append(q.results, result),
              active  |-> i # TotalSteps]

(* Mutant: the last step completes the queue even when it is blocked. *)
ApplyTransitionLastCompletes(q, blocked, at) ==
    LET i      == q.index + 1
        result == [status |-> IF blocked THEN "blocked" ELSE "completed",
                   ref    |-> [step |-> i, at |-> at]]
    IN  [status  |-> IF i = TotalSteps THEN "completed"
                     ELSE IF blocked THEN "blocked" ELSE "running",
         index   |-> i,
         results |-> Append(q.results, result),
         active  |-> i # TotalSteps]

(* Mutant: the result list is restarted instead of extended. *)
ApplyTransitionDropsHistory(q, blocked, at) ==
    LET i == q.index + 1
    IN  [status  |-> IF blocked THEN "blocked"
                     ELSE IF i = TotalSteps THEN "completed" ELSE "running",
         index   |-> i,
         results |-> <<[status |-> IF blocked THEN "blocked" ELSE "completed",
                        ref |-> [step |-> i, at |-> at]]>>,
         active  |-> blocked \/ i # TotalSteps]

(* Mutant: one execution settles two steps. *)
ApplyTransitionSkips(q, blocked, at) ==
    LET i == IF q.index + 2 <= TotalSteps THEN q.index + 2 ELSE q.index + 1
        s == IF blocked THEN "blocked" ELSE "completed"
    IN  [status  |-> IF blocked THEN "blocked"
                     ELSE IF i = TotalSteps THEN "completed" ELSE "running",
         index   |-> i,
         results |-> [k \in 1..i |-> [status |-> s,
                                      ref |-> [step |-> k, at |-> at]]],
         active  |-> blocked \/ i # TotalSteps]

ApplyTransition(q, blocked, at) ==
    LET i      == q.index + 1
        result == [status |-> IF blocked THEN "blocked" ELSE "completed",
                   ref    |-> [step |-> i, at |-> at]]
        done   == ~blocked /\ i = TotalSteps
    IN  [status  |-> IF blocked THEN "blocked"
                     ELSE IF done THEN "completed" ELSE "running",
         index   |-> i,
         results |-> Append(q.results, result),
         active  |-> q.active /\ ~done]

CompletedCopy(q) == [q EXCEPT !.status = "completed", !.active = FALSE]

----------------------------------------------------------------------------
(* Checkpoints                                                              *)

NoCheckpoint == [index |-> -1]
LastRef(q) == q.results[Len(q.results)].ref

(* Mutant: the last result of the stored state is not compared. *)
CheckpointAdmittedStale(c, q) ==
    c # NoCheckpoint /\ DecisionFiles /\ LoopInputsValid(q) /\ q.results # <<>>

(* _validate_checkpoint_integrity: the decision the checkpoint names must   *)
(* be a file, and must be the last result of the state now in the file.     *)
CheckpointAdmitted(c, q) ==
    /\ c # NoCheckpoint
    /\ DecisionFiles
    /\ LoopInputsValid(q)
    /\ q.results # <<>>
    /\ LastRef(q) = c.ref

Init ==
    /\ durable = NewQueue
    /\ torn = FALSE
    /\ overlap = FALSE
    /\ pc = [r \in Runner |-> "idle"]
    /\ base = [r \in Runner |-> NewQueue]
    /\ next = [r \in Runner |-> NewQueue]
    /\ held = [r \in Runner |-> -1]
    /\ ckpt = NoCheckpoint
    /\ parity = "none"
    /\ now = 0
    /\ executed = [s \in Steps |-> 0]
    /\ lost = [s \in Steps |-> 0]

----------------------------------------------------------------------------
(* Helpers of the actions                                                   *)

Goto(r, label) == pc' = [pc EXCEPT ![r] = label]

StepOf(r) == base[r].index + 1

(* Runner r has executed a step and its result is not in the file yet. *)
Unsaved(r) == pc[r] \in {"stepped", "writing"} /\ HasNextStep(base[r])

CountExecution(s) == executed' = [executed EXCEPT ![s] = @ + 1]
MayLose(s) == lost[s] < MaxLost
Lose(s) == lost' = [lost EXCEPT ![s] = @ + 1]

Read(r, label, floor) ==
    /\ pc[r] = "idle"
    /\ ~torn
    /\ base' = [base EXCEPT ![r] = durable]
    /\ held' = [held EXCEPT ![r] = floor]
    /\ Goto(r, label)
    /\ UNCHANGED <<durable, torn, overlap, next, ckpt, parity, now, executed,
                   lost>>

----------------------------------------------------------------------------
(* run_prompt_queue.py, run_prompt_queue_resume.py                          *)

Load(r) == Read(r, "loaded", -1)

LoadForResume(r) ==
    /\ CheckpointAdmitted(ckpt, durable)
    /\ Read(r, "loaded", ckpt.index)

(* run_queue_once when a step is eligible and its execution is usable. *)
ExecuteStep(r) ==
    /\ pc[r] = "loaded"
    /\ LoopInputsValid(base[r])
    /\ HasNextStep(base[r])
    /\ base[r].active
    /\ \E v \in Verdict \ {"failure", "refused"} :
           next' = [next EXCEPT ![r] = ApplyTransition(base[r], Blocks(v), now)]
    /\ next'[r].index > held[r]
    /\ CountExecution(StepOf(r))
    /\ Goto(r, "stepped")
    /\ UNCHANGED <<durable, torn, overlap, base, held, ckpt, parity, now, lost>>

(* run_queue_once on an exhausted queue: the state is rewritten completed. *)
Reconfirm(r) ==
    /\ pc[r] = "loaded"
    /\ LoopInputsValid(base[r])
    /\ ~HasNextStep(base[r])
    /\ base[r].index = TotalSteps
    /\ next' = [next EXCEPT ![r] = CompletedCopy(base[r])]
    /\ next'[r].index > held[r]
    /\ Goto(r, "stepped")
    /\ UNCHANGED <<durable, torn, overlap, base, held, ckpt, parity, now,
                   executed, lost>>

(* The executor ran but returned no output: the loop raises, nothing is     *)
(* recorded, and the same step stays eligible.                              *)
ExecutionFails(r) ==
    /\ pc[r] = "loaded"
    /\ LoopInputsValid(base[r])
    /\ HasNextStep(base[r])
    /\ base[r].active
    /\ "failure" \in Verdict
    /\ MayLose(StepOf(r))
    /\ CountExecution(StepOf(r))
    /\ Lose(StepOf(r))
    /\ Goto(r, "idle")
    /\ UNCHANGED <<durable, torn, overlap, base, next, held, ckpt, parity, now>>

(* Every QueueLoopError raised before the executor is called. *)
Reject(r) ==
    /\ pc[r] = "loaded"
    /\ \/ ~LoopInputsValid(base[r])
       \/ ~HasNextStep(base[r]) /\ base[r].index # TotalSteps
       \/ HasNextStep(base[r]) /\ (~base[r].active \/ "refused" \in Verdict)
    /\ Goto(r, "idle")
    /\ UNCHANGED <<durable, torn, overlap, base, next, held, ckpt, parity, now,
                   executed, lost>>

(* write_artifact: open("w") truncates, json.dump fills, close ends it. *)
OpenForWrite(r) ==
    /\ pc[r] = "stepped"
    /\ torn' = TRUE
    /\ overlap' = \E w \in Runner \ {r} : pc[w] = "writing"
    /\ Goto(r, "writing")
    /\ UNCHANGED <<durable, base, next, held, ckpt, parity, now, executed, lost>>

FinishWrite(r) ==
    /\ pc[r] = "writing"
    /\ durable' = next[r]
    /\ torn' \in (IF overlap THEN BOOLEAN ELSE {FALSE})
    /\ Goto(r, "idle")
    /\ UNCHANGED <<overlap, base, next, held, ckpt, parity, now, executed, lost>>

(* --output-path names another file: this queue keeps its old state. *)
WriteElsewhere(r) ==
    /\ pc[r] = "stepped"
    /\ IF Unsaved(r)
       THEN MayLose(StepOf(r)) /\ Lose(StepOf(r))
       ELSE UNCHANGED lost
    /\ Goto(r, "idle")
    /\ UNCHANGED <<durable, torn, overlap, base, next, held, ckpt, parity, now,
                   executed>>

Crash(r) ==
    /\ pc[r] # "idle"
    /\ IF Unsaved(r)
       THEN MayLose(StepOf(r)) /\ Lose(StepOf(r))
       ELSE UNCHANGED lost
    /\ Goto(r, "idle")
    /\ UNCHANGED <<durable, torn, overlap, base, next, held, ckpt, parity, now,
                   executed>>

----------------------------------------------------------------------------
(* build_queue_resume_checkpoint                                            *)

(* Mutant: the index of the next step is taken for the last completed one. *)
TakeCheckpointNextIndex ==
    /\ ~torn
    /\ durable.results # <<>>
    /\ durable.index > 0
    /\ ckpt' = [index |-> durable.index, ref |-> LastRef(durable)]
    /\ UNCHANGED <<durable, torn, overlap, pc, base, next, held, parity, now,
                   executed, lost>>

TakeCheckpoint ==
    /\ ~torn
    /\ durable.results # <<>>
    /\ durable.index > 0
    /\ ckpt' = [index |-> durable.index - 1, ref |-> LastRef(durable)]
    /\ UNCHANGED <<durable, torn, overlap, pc, base, next, held, parity, now,
                   executed, lost>>

----------------------------------------------------------------------------
(* replay_queue_from_checkpoint: the loop is run twice on the same state    *)
(* and the two results are compared; neither is written to the queue file.  *)

(* MaxLost leaves room for both of its executions. *)
LoadForReplay(r) ==
    /\ CheckpointAdmitted(ckpt, durable)
    /\ HasNextStep(durable) => lost[durable.index + 1] + 2 <= MaxLost
    /\ Read(r, "replay_first", -1)

(* One of the two runs of run_queue_once inside a replay. *)
ReplayOutcomes(q) ==
    IF HasNextStep(q)
    THEN {ApplyTransition(q, Blocks(v), now) :
            v \in Verdict \ {"failure", "refused"}}
    ELSE {CompletedCopy(q)}

CountReplay(q) ==
    IF HasNextStep(q)
    THEN /\ MayLose(q.index + 1)
         /\ CountExecution(q.index + 1)
         /\ Lose(q.index + 1)
    ELSE UNCHANGED <<executed, lost>>

ReplayFirst(r) ==
    /\ pc[r] = "replay_first"
    /\ \E q \in ReplayOutcomes(base[r]) : next' = [next EXCEPT ![r] = q]
    /\ CountReplay(base[r])
    /\ Goto(r, "replay_second")
    /\ UNCHANGED <<durable, torn, overlap, base, held, ckpt, parity, now>>

(* Mutant: the second run starts from the result of the first. *)
ReplaySecondChained(r) ==
    /\ pc[r] = "replay_second"
    /\ \E q \in ReplayOutcomes(next[r]) :
           parity' = IF q = next[r] THEN "match" ELSE "mismatch"
    /\ CountReplay(base[r])
    /\ Goto(r, "idle")
    /\ UNCHANGED <<durable, torn, overlap, base, next, held, ckpt, now>>

(* The record compares the last result's status and reference, the queue    *)
(* status, the index and the whole sequence of results.  The executor gives *)
(* the same answer to the same step.                                        *)
ReplaySecond(r) ==
    /\ pc[r] = "replay_second"
    /\ \E q \in ReplayOutcomes(base[r]) :
           /\ q.status = next[r].status
           /\ parity' = IF q = next[r] THEN "match" ELSE "mismatch"
    /\ CountReplay(base[r])
    /\ Goto(r, "idle")
    /\ UNCHANGED <<durable, torn, overlap, base, next, held, ckpt, now>>

(* A run inside the replay raises: the step was executed, no record is kept. *)
ReplayRaises(r) ==
    /\ pc[r] \in {"replay_first", "replay_second"}
    /\ HasNextStep(base[r])
    /\ "failure" \in Verdict
    /\ CountReplay(base[r])
    /\ Goto(r, "idle")
    /\ UNCHANGED <<durable, torn, overlap, base, next, held, ckpt, parity, now>>

----------------------------------------------------------------------------
Tick ==
    /\ now < MaxTicks
    /\ now' = now + 1
    /\ UNCHANGED <<durable, torn, overlap, pc, base, next, held, ckpt, parity,
                   executed, lost>>

Replay(r) == ReplayFirst(r) \/ ReplaySecond(r) \/ ReplayRaises(r)

Run(r) ==
    \/ Load(r) \/ ExecuteStep(r) \/ Reconfirm(r) \/ ExecutionFails(r)
    \/ Reject(r) \/ OpenForWrite(r) \/ FinishWrite(r)

Next ==
    \/ \E r \in Runner :
           \/ Run(r) \/ LoadForResume(r) \/ WriteElsewhere(r) \/ Crash(r)
           \/ LoadForReplay(r) \/ Replay(r)
    \/ TakeCheckpoint
    \/ Tick

Spec == Init /\ [][Next]_vars

(* A started process is scheduled until it exits, the command line is       *)
(* invoked again and again (by an operator or a job outside src/), also if  *)
(* others replay in between, and not every invocation is refused, fails or  *)
(* is killed before it has executed.                                        *)
FairSpec ==
    Spec /\ \A r \in Runner :
        /\ WF_vars(Run(r)) /\ WF_vars(Replay(r))
        /\ SF_vars(Load(r)) /\ SF_vars(ExecuteStep(r))

----------------------------------------------------------------------------
(* Properties                                                               *)

Labels == {"idle", "loaded", "stepped", "writing", "replay_first",
           "replay_second"}

QueueState ==
    [status : {"pending", "running", "blocked", "completed"},
     index : 0..TotalSteps, results : Seq(StepResult), active : BOOLEAN]

(* Every variable keeps its type: the states the queue file and the         *)
(* processes hold are prompt_queue_state artifacts.                         *)
TypeOK ==
    /\ durable \in QueueState
    /\ torn \in BOOLEAN
    /\ overlap \in BOOLEAN
    /\ pc \in [Runner -> Labels]
    /\ base \in [Runner -> QueueState]
    /\ next \in [Runner -> QueueState]
    /\ held \in [Runner -> -1..TotalSteps]
    /\ \/ ckpt = NoCheckpoint
       \/ ckpt \in [index : 0..TotalSteps - 1, ref : Ref]
    /\ parity \in {"none", "match", "mismatch"}
    /\ now \in 0..MaxTicks
    /\ executed \in [Steps -> Nat]
    /\ lost \in [Steps -> 0..MaxLost]

WellFormed(q) ==
    /\ Len(q.results) = q.index
    /\ \A i \in 1..q.index : q.results[i].ref.step = i
    /\ \A i \in 1..q.index : q.results[i].status = "blocked" =>
                               i = q.index /\ q.status = "blocked"
    /\ q.status = "blocked" => q.index > 0 /\ q.results[q.index].status = "blocked"
    /\ q.status = "completed" <=> q.index = TotalSteps /\ q.status # "blocked"
    /\ q.status = "pending" <=> q.index = 0
    /\ q.active <=> q.status # "completed"

(* However runs, resumes, replays, crashes and half-finished writes of any  *)
(* number of processes interleave, every queue state that is ever read,     *)
(* computed or stored is a gap-free run of completed results of which only  *)
(* the last may be blocked, and its queue_status says exactly that          *)
(* (_validate_loop_inputs and apply_transition_to_queue_state).             *)
StateProgression ==
    /\ WellFormed(durable)
    /\ \A r \in Runner : WellFormed(base[r]) /\ WellFormed(next[r])

(* No result is ever recorded for a step that was not executed, whichever   *)
(* process wrote it and whatever other processes did meanwhile.             *)
RecordedStepsWereExecuted ==
    \A s \in Steps : s <= durable.index => executed[s] > 0

(* With one process at a time the loop executes a step again only when an   *)
(* earlier execution of it was lost (a crash, a failed execution, a replay, *)
(* an output file elsewhere): executions are the recorded one, the one not  *)
(* saved yet, and the lost ones.                                            *)
ExecutionsAccountedFor ==
    \A s \in Steps :
        executed[s] = (IF s <= durable.index THEN 1 ELSE 0)
                    + (IF \E r \in Runner : Unsaved(r) /\ StepOf(r) = s
                       THEN 1 ELSE 0)
                    + lost[s]

(* A checkpoint is admitted only while the queue still is where it was when *)
(* the checkpoint was built: a stale checkpoint never resumes or replays a  *)
(* queue that has moved on (_validate_checkpoint_integrity).                *)
OnlyFreshCheckpointsAdmitted ==
    CheckpointAdmitted(ckpt, durable) => ckpt.index = durable.index - 1

(* With one process at a time results are only ever appended, one by one:   *)
(* no write of the file takes back or rewrites a recorded result.           *)
ResultsOnlyAppended ==
    [][\/ durable' = durable
       \/ /\ durable'.index = durable.index + 1
          /\ SubSeq(durable'.results, 1, durable.index) = durable.results]_vars

(* With one process at a time the file implements the abstract queue,       *)
(* crashes, losses and torn writes being stutters.                          *)
Abstract == INSTANCE SequentialQueue WITH
    settled <- durable.index,
    outcome <- IF durable.status \in {"blocked", "completed"}
               THEN durable.status ELSE "open"
ImplementsSequentialQueue == Abstract!Spec

(* If the loop keeps being invoked and executions give a usable result, the *)
(* queue completes or blocks, however many steps it has and whatever is     *)
(* lost on the way - unless the file is left half written, for good: that   *)
(* is what a crash inside write_artifact does, and nothing repairs it.      *)
EventuallySettled == <>([]torn \/ durable.status \in {"completed", "blocked"})

(* architecture-audit-2026-04-08.md: simulated execution being              *)
(* deterministic, a replay matches (replay_queue_from_checkpoint).  Decision*)
(* ids contain the second.  So a replay of a queue that has a step left     *)
(* finds a match if and only if the clock shows the same second in both     *)
(* runs, whatever other processes do to the file between them; of one that  *)
(* has none it always does.                                                 *)
ReplayParityMatches ==
    [][parity' # parity =>
          \E r \in Runner :
              /\ pc[r] = "replay_second"
              /\ parity' = "match" <=>
                     ~HasNextStep(base[r]) \/ LastRef(next[r]).at = now]_vars
==============================================================================
