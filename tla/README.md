# Formal models of spectrum-systems

This directory holds TLA+ models of parts of spectrum-systems, the TLC
configurations that check them and the TLAPS proofs about them. The parts are
those in which short-lived commands change one persistent state: the governed
prompt queue (`spectrum_systems/modules/prompt_queue`), the experience store
and release signals of the HOP harness (`modules/hop`), PQX bundles
(`modules/runtime/pqx_*`), and the cycle runner (`orchestration`). There the
order of steps, a crash and a repeated call matter most, and a unit test sees
the least. Most of the repository is something else: validators and builders
of documents that keep no state.

Paths below are relative to the repository. PROJECT.json has, for each
definition, the lines of code it stands for.

## 1. Inventory

### Work items (`queue_models.py`, `queue_state_machine.py`)

- State: a queue state is a JSON document with a list of work items. An item has
  a status (24 of them), generation counters, a parent and children, a retry
  budget and count, and some twenty nullable paths to the artifacts (decisions
  and results) that were made for it.
- Operations: `make_work_item`, `make_queue_state`, `transition_work_item`,
  which raises for a transition outside `_ALLOWED_TRANSITIONS`.
- Hard: retry and recovery assign a status without going through
  `transition_work_item`; a spawn is recorded twice, in the parent and in the
  queue.
- Correct when: parents and children agree, a status is never there without the
  artifact that justifies it, and a link once made stays.

### Repair loop

`review_provider_orchestrator`, `findings_queue_integration`,
`repair_prompt_generator`, `repair_child_creator`, `execution_gating_policy`,
`execution_queue_integration`, `execution_runner`, `post_execution_policy`, and
their `*_queue_integration` modules. An item is reviewed (one provider, then
another), its findings are attached, a failing review produces a repair prompt,
the prompt spawns a repair child, the child is gated, executed and judged.

- Hard: gating, execution and post-execution look at different fields of the
  same item; two generation counters are derived separately.
- Correct when: nothing is executed that was not let through; nothing is
  executed twice.

### Follow-up

`loop_control_*`, `next_step_*`, `review_trigger_*`, `review_invocation_*`,
`review_parsing_handoff*`, `findings_reentry*`, `loop_continuation*`, `retry_*`,
`blocked_recovery_*`. What an executed item leads to: another review (with a
live provider), a child, a retry, an end; and how an operator unblocks an item.

- Hard: nine integrations move an item, each with its own duplicate guard; a
  live invocation writes an artifact and then the queue state, and may die
  between the two; recovery names a prior state nothing compares with history.
- Correct when: nothing is decided twice, a provider whose answer is linked is
  not asked again, and an item cannot be sent round for ever.

### Execution loop (`run_queue_once`, resume, replay)

`queue_state_machine.py`, `step_decision.py`, `queue_artifact_io.py` and the
scripts `run_prompt_queue.py`, `_resume.py`, `_replay.py`. A manifest of steps
is executed one step per process. The queue-state file is read, one step is
executed, the file is truncated and rewritten. There is no lock and no rename.

- Hard: a crash after the execution and before the write; a crash inside the
  write; two processes on one file; a checkpoint older than the queue; the wall
  clock, which is part of a decision's identity.
- Correct when: results are settled one at a time in order, a step runs again
  only if its earlier execution was lost, stale checkpoints are refused.

### HOP experience store and release signals

`experience_store.py`, `promotion_readiness.py`, `rollback_signals.py`,
`control_integration.py`; `optimization_loop.py` and `evaluator.py` only as
writers of candidates and scores.

- State: one JSON file per artifact, an index (`index.jsonl`) with one line for
  each, a lock file.
- Operations: `write_artifact` (lock, look for the file, `os.replace`, append a
  line), `iter_index`; on top of it an emitter per signal, which first searches
  the index for a signal of the same logical id.
- Hard: a writer dies between file and index line, or in the middle of the
  line; the lock is taken per write, so what was looked up may be stale when it
  is used; ids contain the wall clock, so two signals of one logical id are two
  artifacts to the store.
- Correct when: no artifact is replaced, files and index agree but for writers
  that stopped, a ready signal rests on what is recorded, and a withheld
  candidate gets no new ready signal.

### PQX bundles

`pqx_bundle_orchestrator.py`, `pqx_bundle_state.py`, `pqx_fix_execution.py`,
`pqx_fix_gate.py`, `pqx_sequence_runner.py` as the orchestrator uses it, and the
command line `run_pqx_bundle.py`.

- State: a bundle-state file (completed and blocked steps, satisfied reviews,
  pending fixes), a sequence-state file per step, records of fixes and gates.
- Operations: a run, which executes fixes and steps and saves its copy of the
  state after each; `ingest-findings`, which adds a review to the file.
- Hard: run and ingestion read and rewrite one file without a lock; a run may
  die between a step's file and the bundle's; a step with a file is resumed.
- Correct when: steps complete in order and after the reviews and fixes they
  wait for, and a step with a result is not executed again.

### Cycle runner

`cycle_runner.py`, `next_step_decision.py`, `sequence_transition_policy.py`,
`pqx_handoff_adapter.py`, `cycle_manifest_validator.py`,
`generate_fix_roadmap.py`.

- State: the cycle manifest, the fix roadmap, execution and fix reports, the
  certification record.
- Operations: `run_cycle`, which does one step of the cycle and writes the
  manifest back, or only recommends a state, which its caller writes.
- Hard: the manifest read at the start is written at the end, over whatever was
  edited meanwhile, while the next-step decision reads the file again; a call
  may stop between an artifact and the manifest; a blocked cycle is restored by
  hand; reports are named by the second.
- Correct when: `certified_done` and `promoted` rest on recorded evidence, the
  recorded transitions are the path that was taken, and a cycle that is kept
  running ends.

### Interaction

Queue, harness, bundles and cycle do not call each other: a cycle hands single
slices to `run_pqx_slice`, not to a bundle. Within each, processes share nothing
but files.

The command lines in `scripts/` read a queue state (some also a work-item file
of their own), call a policy, write the decision as an artifact, call the queue
integration, and write the queue state. The parts share nothing but those
files. There are no threads and no callbacks in the queue but one (the
persistence callback of the live invocation, which no command line passes).

### Not modelled

| Part | Why |
| --- | --- |
| The queue's command lines and their two stores | planned; the calls of PromptQueue are atomic |
| Chains of PQX slices with reviews, budgets, judgments and canary policy | planned; BundleRun has the one-slice sequences of a bundle |
| Selection among bundles, triage plans | a bundle at a time is what a state file holds; triage writes a plan nobody executes |
| The gates of the transition policy over other artifacts | each may refuse at any time in the model |
| HOP search, mutation, evaluation, restore signals | numbers and text; only their writes are modelled |
| The O_EXCL lock fallback of the store | only for platforms without `fcntl`; a process that dies there leaves the sentinel behind |
| Parallel execution engine, signal bus, event log | planned; small, and it has threads |
| Artifact lifecycle enforcer | planned; a table of transitions |
| Conductor, roadmap multi-batch executor | sequential chains of calls with fail-closed exits; planned |
| Queue observability, certification, audit, backtesting | read-only |
| Review parsing, findings normalisation | text parsing; its result is an input of the model |
| Governed repair loop execution | a straight-line pipeline without state of its own |
| Contracts and schemas | data; validation appears as guards |
| Text pipelines, dashboards, TypeScript services | no queue state; user interfaces and documents |

## 2. Modules

    SequentialQueue          what the execution loop promises
      ^ implemented by
    QueueLoop                the execution loop        MCQueueLoop, QueueLoopProofs
    BundleRun                a bundle and its reviews  MCBundleRun, BundleRunProofs
                             (only if reviews come between runs)

    WorkItems                statuses, records, spawning
      RepairLoop             queued ... post-execution decision
        FollowUp             loop control ... recovery
          PromptQueue        Next, Spec, properties    MCPromptQueue, PromptQueueProofs,
                                                       PromptQueueLinkProofs,
                                                       PromptQueueMoveProofs

    AppendOnlyIndex          what the store's index promises
      ^ implemented by
    ExperienceStore          write_artifact, scans     ExperienceStoreProofs
      ^ used by
    ReleaseSignals           the emitters of signals   MCReleaseSignals, ReleaseSignalsProofs

    CycleRunner              run_cycle on a manifest   CycleRunnerProofs

Definitions named in a comment as "Mutant" are not part of any specification:
each is a plausible mistake in the definition it stands beside, and each
property of a passing run is known to fail under one of them.

### QueueLoop

| Variable | In the code |
| --- | --- |
| `durable` | the last complete content of the queue-state file |
| `torn`, `overlap` | the file is half written; two writers had it open together |
| `pc`, `base`, `next` | a process: where it is, what it read, what it computed |
| `held` | the index a resumed run must pass |
| `ckpt`, `parity` | checkpoint and last replay record on disk |
| `now` | the wall clock in the seconds that decision ids contain |
| `executed`, `lost` | histories: executions of a step; those whose result was dropped |

`Load` or `LoadForResume` reads, `ExecuteStep`, `Reconfirm`, `ExecutionFails` or
`Reject` is `run_queue_once`, `OpenForWrite` and `FinishWrite` are the write,
`WriteElsewhere` is `--output-path` naming another file, `Crash` may come
anywhere. `TakeCheckpoint` builds a checkpoint; `LoadForReplay`, `ReplayFirst`
and `ReplaySecond` are a replay, which executes the step twice and saves
neither. The set `Verdict` is what an execution, the parsing of its report and
the step decision can come to. Two limits of the code itself:

- The simulated executor only produces clean reports, refusals and failures. The
  other verdicts are what the step-decision contract allows.
- Checkpoint validation wants the decision's reference to be a readable file;
  the loop stores a decision id. A checkpoint the loop itself produces is
  therefore refused (`DecisionFiles = FALSE`). The runs with
  `DecisionFiles = TRUE` show what resume and replay do for callers who keep
  decisions in files of that name, as the tests do.

### WorkItems, RepairLoop, FollowUp, PromptQueue

The only variable is `items`, a function from item ids to records.

- An id is the item's path from the root, a sequence over `repair`, `review`
  and `reentry`. The code builds ids by appending such suffixes, so the path and
  the string carry the same information; the number in `.repair.<n>` is fixed by
  the parent.
- A nullable artifact path is `{}` or a singleton. What is kept of an artifact is
  the item it was made for and the decision in it, which is all the guards
  compare.
- `runs` and `answers` are histories: how often the item entered `executing`, and
  how often a live provider returned a review for it.
- An action is one call: the policy that decides and the integration that applies
  it. No command line does one without the other, but two command lines may
  interleave between them; that is not in this module (section 7).
- `Outcomes` are the ends of a live invocation: `succeeded`; `failed` (no
  provider answered); `crashed` (dies after writing the result artifact and
  before the queue state); `persisted` (dies after the persistence callback);
  `write_failed` and `persist_failed` (the call catches the error and blocks the
  item).
- `EnterExecution` and `FinalizeExecution` are library calls. The script
  `run_prompt_queue_execution.py` never reaches them: it passes an input
  reference that `_normalize_input_refs` rejects, and exits 2. The outcome of an
  execution is therefore the caller's report.

| Action | Code |
| --- | --- |
| `Review` | `run_review_with_fallback` |
| `AttachFindings`, `AttachRepairPrompt`, `SpawnRepairChild` | findings, repair-prompt and repair-child integrations |
| `ApplyGating`, `EnterExecution`, `FinalizeExecution`, `ApplyPostExecution` | gating, execution and post-execution integrations |
| `ApplyLoopControl`, `ApplyNextStep`, `ApplyReviewTrigger` | the integrations of those names |
| `RefuseInvocation`, `InvokeAnswered`, `InvokeFailed` | `apply_live_review_invocation` |
| `Handoff`, `ReenterFindings`, `ContinueLoop` | review handoff, findings reentry, loop continuation |
| `ApplyRetry`, `Recover` | retry and blocked-recovery integrations |

Worth knowing when reading the model: loop control and the post-execution
policy use different counters (`count`, `gen`); a retry link is final, so an item
is retried at most once and `retry_exhausted` occurs only with a budget of 0; an
item retried from `executed_failure` is runnable and can never run, because its
old result stays linked; nothing takes an approval after the fact, so the only
call that leads out of `approval_required` is one that blocks the item.

### ExperienceStore and ReleaseSignals

| Variable | In the code |
| --- | --- |
| `files` | the artifact files |
| `index`, `corruptAt`, `ragged` | `index.jsonl`: whole lines, the line that does not parse, whether the end is unfinished |
| `lock` | who holds `index.jsonl.lock` |
| `pc`, `writing` | where a process is in `write_artifact`, and with what payload |
| `task`, `stage` | the emitter's call a process is in, and how far it is |
| `clock` | the wall clock in signal ids; no two signals share a value |
| `cutOff`, `withheld` | histories: payloads whose writer stopped at the append; candidates a withhold call returned for |

`CallWrite` is the call; `Admit`, in `Acquire`, takes the lock and finds no file,
`RefuseStored` finds one (whoever wrote it, and whether or not it is indexed);
`ReplaceFile`, `AppendLine` are the two writes; `LockTimeout`, `AppendTorn`, `Die`
end a call early. In ReleaseSignals, `Ask` is an emitter called, `ReturnExisting`
and `FindNothing` the search for a signal, `BuildWithhold`, `BuildReadiness` and
`BuildAdvisory` what it builds and passes to the store, `AssessmentRaises` and
`AdvisoryRaises` the exceptions. ReleaseSignals extends the store and adds its
own variables. That it changes the store only as the store itself would
(`UsesStore`) holds by construction and is no property of a run; its proof is
what carries the store's theorems over. `IsFirst` is the signal that answers a
logical id.

### BundleRun

| Variable | In the code |
| --- | --- |
| `saved` | the bundle-state file |
| `stepFile` | each step's sequence-state file: the status of its slice |
| `gateRecords` | fix-gate records on disk |
| `run` | a run: where it is, its copy of the state, the step in hand |
| `ingest` | the copy an `ingest-findings` is about to save |
| `executed`, `reviewed`, `foundOpen` | histories: executor calls, reviews saved, blocking fixes open when the run loaded |

`StartRun`, `ExecuteFix`, `RefuseFix`, `SaveFixes`, `StopAtStep`, `RecordFailure`,
`RecordSuccess` and `CompleteBundle` are `execute_bundle_run`; `BeginSlice`,
`ResumeSlice`, `CallExecutor` and `SaveSlice` are `execute_sequence_run` with one
slice; `LoadForIngest` and `SaveIngested` the second command; `StopRun` and
`StopIngest` a process that dies or gives up. Worth knowing:

- A plan must name one bundle for a run of it to be validated, so a bundle with
  dependencies can never run: dependencies are not in the model.
- The command line `run --execute-fixes` passes no TPA artifacts, so it raises at
  the first pending fix (`RefuseFix`). Fixes are executed by callers that pass
  them. The gate results `blocked` and `deferred` cannot come about through the
  orchestrator.
- No operation takes a step out of the blocked ones.

### CycleRunner

| Variable | In the code |
| --- | --- |
| `mode` | `sequence_mode`: legacy or three-slice |
| `manifest` | the manifest file |
| `mem`, `pc`, `collected` | a call: the manifest it works on, where it is, its fix reports so far |
| `advice` | a `next_state` that was returned and not written |
| `prior` | the state the cycle was in when it was blocked |
| `fixRoadmap`, `fixReport`, `record` | the artifacts beside the manifest |
| `now` | the clock in whole seconds |
| `clean`, `crashes` | histories: reviews found nothing; calls that stopped |

A call is `Begin`, then `AdvanceSequence` or `Refuse` (three-slice), or `Decide`
and one of the actions named for the states (legacy), then `Save`. `Crash` may
come anywhere. What `run_cycle` leaves to its caller is `FollowAdvice`, `Unblock`
(repair and restore a blocked cycle) and `Attach` (evidence of a three-slice
cycle). Worth knowing:

- The next-step decision reads the manifest again and refuses a blocked one.
  This is what protects a cycle in legacy mode from a stale call; in three-slice
  mode nothing does, except that the policy looks at the manifest of the call.
- Evidence attached while a call is under way is lost when it writes. Nothing
  says otherwise, and the properties hold of what is left.
- "`blocked` is terminal until an operator repairs inputs and reruns the cycle"
  (autonomous_execution_loop.md): a rerun alone never leaves `blocked`; the
  operator has to restore the state as well.
- A certification record that says FAILED is read again by every later call and
  never replaced, unless it is taken out of the manifest.
- If a later fix bundle fails, the reports of the earlier ones are dropped and
  those bundles are executed again.
- `remediation_pending` and `frozen` are entered only by hand, so no run reaches
  them. `_reports_count` counts paths, not distinct files.
- Reviews without findings make an empty fix roadmap, which its schema refuses
  with an exception `run_cycle` does not catch: such a cycle raises for ever.
- The manifest is written at once here. A write that is cut short leaves a file
  every later call refuses; QueueLoop shows that case for the queue, and it is
  left out of the later modules.

## 3. Runs

Passing:

| Run | Instance | States | What it shows |
| --- | --- | --- | --- |
| `loop_one` | 1 process, 3 steps, every verdict, 2 seconds, 3 losses per step, fair | 52,958 | executions = recorded + unsaved + lost; stale checkpoints refused; results only appended; a replay matches if and only if its two runs fall within one second or no step is left; implements SequentialQueue; the queue settles, unless the file stays torn for good |
| `loop_two` | 2 processes, 2 steps, every verdict, 2 losses per step | 198,336 | every stored or computed state is a gap-free sequence; no step is recorded that was not executed |
| `queue_recovery` | 4 prior states, both retry reasons, chains of 1, either risk | 178,858 | nothing is executed twice, or without a gating decision or a recovery; every change of status uses up a move, so statuses come to rest |
| `queue_tests` | 9 queues the tests build, every outcome | 793,993 | parent and child records agree; gating, post-execution and loop control never contradict each other about the limit; statuses have evidence; links and answers are final |
| `signals` | 2 processes, 1 candidate, 2 evaluations, 2 signals, 1 writer cut off | 318,756 | nothing is overwritten; the index is an append-only list; each logical id keeps the answer it first had; ready signals rest on records; no new one once withheld; writes end |
| `bundle` | 3 steps, 4 reviews, 3 findings, 4 answers, run and ingestion overlap | 1,873,936 | order before steps, and reviews, and every fix both gated on disk and resolved in the run's copy; results are kept and not repeated |
| `cycle` | both modes, 2 bundles, 2 fix roadmaps, 2 crashes, edits under calls | 323,582 | certified and promoted rest on evidence; recorded transitions are a path; every fix is reported; a cycle ends |

What does not survive two queue processes, and is therefore checked with one
only, is as informative as what does: `ExecutionsAccountedFor`,
`ResultsOnlyAppended` and the refinement. A slow process overwrites a later
state with an earlier one.

Violations, each a disagreement between the code and a sentence about it
(PROJECT.json "findings" quotes the sentence):

| Run | The code |
| --- | --- |
| `queue_generations` | spawning a repair child never looks at the generation limit, so a chain grows past it |
| `queue_success` | an item gated from a new queue never satisfies the lineage rule, so a success cannot become complete |
| `withheld` | a ready signal recorded before the candidate was withheld is returned to later assessments |
| `bundle_failed` | a failed step that is resumed after a crash ends "blocked", which is taken for success |
| `cycle_reports` | two fix bundles executed within one second share a report file |

What is left when such a case is taken away is proved, for every value of the
constants (section 5): children that a continuation spawns are within the limit,
so the ones beyond it come from `spawn_repair_child_in_queue` alone
(`ContinuationsWithinLimit`); no item of a new queue completes on any path
(`NewItemsNeverComplete`); an assessment begun after the withhold writes no
new ready signal (`WithheldStaysWithheld`); a failed step becomes a success
only through the resumption (`VerdictsKept`); and fixes of different seconds are
all reported (`FixesReported`).

Three more can be read off the models and have no run of their own. A replay
that straddles a second reports a mismatch, because ids contain the time (the
second half of `ReplayParityMatches`). An item recovered to
`runnable` executes with no gating decision (the first case of
`ExecutionAuthorized`). A process that dies between the result of a live
invocation and the queue state lets the provider answer again (the outcome
`crashed`; `AnswerIsFinal` speaks of linked answers only).

### Bounds, and why they suffice

- Steps: 3 (2 with two processes) give a first, an inner and a last step, which
  is all `ApplyTransition` tells apart. `MaxLost` of 2
  leaves room for a replay, which executes a step twice and keeps neither result,
  and 3 for a lost execution beside it.
- Processes: 2 is the smallest number that interleaves; properties checked there
  constrain one file and one process at a time. Symmetry is used in `loop_two`
  only, which has no temporal property.
- `signals`: one candidate, because signals of different candidates share only
  the store, which the store's own properties cover; two payloads for its id, so
  that an id can be refused; `MaxClock` 2 gives a withhold and a readiness
  signal, or a readiness signal and an advisory on it; `MaxCutOff` 1 stops or
  tears one writer. A second cut-off would corrupt an index that already raises.
- `bundle`: three steps, so that a review can be before, between and after; one
  review of each type and one that is not blocking; up to three findings,
  blocking and not; `MaxExecutions` 2 lets a step whose answer was lost run again.
- `cycle`: two bundles in a roadmap and two roadmaps (a cycle may be sent back to
  its reviews), `MaxClock` 6 for the slices of both and repeated ones;
  `MaxCrashes` 2 stops a call and the one that repeats it. Slices start in
  different seconds there (`SameSecond`); `cycle_reports` lets them share one.
- `MaxTicks`: 1 lets a clock change between any two steps.
- `MaxDepth`: chains of children are unbounded in the code (see
  `queue_generations`). A guard reads an item, its parent and its children, so
  1 or 2 gives every guard something on each side; depth 3 is needed to pass a
  limit of 1 by two.
- `MaxAnswers`: 2, one more than the documents promise. Passing it would only
  repeat an invocation that changes nothing but the history.
- `MaxGeneration` of 1 or 2 puts items below, at and above the limit.
- Deadlock is not checked: calls are made by operators, and once the items of a
  queue are complete, or blocked and already recovered, there may be none left
  to make. A settled queue has no next step either. That is where the program
  stops.

### Starting states

`NewQueues` are what `make_queue_state` and `make_work_item` build. `TestQueues`
and `ReviewQueues` are the queues the repository's tests hand to the later
stages (the prompt attached to the item is the one it was spawned from, the
findings are already handed off, and so on). Because of what `queue_success`
shows, some of these are not reachable from a new queue through the calls
themselves: the later stages are checked on the inputs their tests give them.

## 4. Fairness

`PromptQueue` assumes none. `ComesToRest` says that the statuses change finitely
often, so it holds (or fails) without any assumption that calls are made: its
counterexamples are cycles.

`QueueLoop.FairSpec`: a started process runs until it exits, the command is
invoked again (by an operator or a job; the loop itself does one step and
exits), and not every invocation is refused, fails or is killed before it has
executed, whence strong fairness of `ExecuteStep`. A replay runs to its end, and
whoever keeps replaying does not keep the command from being invoked, whence
strong fairness of `Load`. Crashes are never forced or
excluded, but `MaxLost` bounds how often a crash may drop an execution. A crash
in the middle of a write is not excluded either: it leaves the file torn, no
process can read it again, and `EventuallySettled` accepts only that: a file
that is torn from some point on. An ordinary write tears the file for a moment
and counts for nothing.

`ReleaseSignals.FairSpec`: a process inside `write_artifact` is scheduled until
the call ends. Nothing is assumed of who holds the lock: the deadline of the
lock is what ends the wait.

`CycleRunner.FairSpec`: `run_cycle` is called again and again and runs to its end
(weak fairness of the steps of a call, which `Crash` may cut short `MaxCrashes`
times), and its caller sooner or later acts on a recommendation before it asks
again (strong fairness, since a new call withdraws the old advice). Both are what
the runbook asks of an operator. No fairness makes evidence pass: `CycleEnds`
holds because a refusal blocks, which is an end.

## 5. Proofs

All of these hold for every value of the constants that satisfies the named
assumptions; PROJECT.json says theorem by theorem what each establishes.

| Module | Theorems | Assumptions |
| --- | --- | --- |
| QueueLoopProofs | `TypeCorrect`, `Progression`, `RecordedExecuted`, `FreshCheckpoints`, `ReplaysMatch`; with one process also `OnlyAppended`, `Accounted`, `Refinement` | `LoopConstants`; `OneRunner` for the last three |
| PromptQueueProofs | `TypeCorrect`, `NeverExecutedTwice` | `QueueConstants`, `SeedsWellFormed` |
| PromptQueueLinkProofs | `ChildrenStayLinked`, `GenerationsCountUp`, `LimitsStayAgreed`, `EvidenceStays`, `OnlyAuthorizedRun`, `LinksStayFinal`, `AnswersStayFinal` | the same, `SeedsConsistent` |
| PromptQueueMoveProofs | `MovesRunOut`, `MovesBounded`, `StuckForEver`, `ContinuationsWithinLimit`, `NewItemsNeverComplete` | the same; every item of a starting queue new, for the last |
| ExperienceStoreProofs | `NeverOverwritten`, `HiddenWereCutOff`, `IndexIsAppendOnly` | `StoreConstants` |
| ReleaseSignalsProofs | `StoreUsed`, `StorePromisesKept`, `TypeCorrect`, `ReadyRests`, `AdvisoriesKept`, `AnswersKept`, `WithheldStaysWithheld` | `StoreConstants`, `SignalConstants`, `HistoryRests` |
| BundleRunProofs | `TypeCorrect`, `StepsInOrder`, `ReviewsFirst`, `FixesFirst`, `ResultsThere`, `ResultsFinal`, `DoneBundlesAreDone`, `VerdictsKept`; with reviews ingested between runs also `NothingLostInTurn`, `BundleIsAQueue` | `BundleConstants`; `~Overlap` for the last two |
| CycleRunnerProofs | `TypeCorrect`, `Certified`, `RecordedPath`, `Promoted`, `AlongTheLine`, `TransitionsOnlyAdded`; `FixesReported`, `NoEvidenceLost` | `CycleConstants`; no two slices within a second (`~SameSecond`) for `FixesReported`, no edits under a call (`~Overlap`) for `NoEvidenceLost` |

### Execution loop

For any number of processes: `ProgressInv` adds to `StateProgression` that what
a replay holds between its two runs is well formed as well, so that its second
run starts from a good state. `RecordedExecuted` needs a bound in every copy: `CoverInv`
says that the results in the file, and in whatever a process has read or
computed, are of steps with an execution counted. Executions are never
uncounted, so a slow process that overwrites a later file still writes results
that were executed. For checkpoints (`CheckpointNames`) and replays
(`ReplayInv`) it is enough that a checkpoint names the step after its index, and
that the first run of a replay ended in one of the outcomes its base allows at
some second: two such outcomes of one status are equal exactly if they were
decided in the same second (`SameOutcome`).

With one process (`OneRunner`) `CallInv` holds: what the call has read is what
the file contains, and what it computed is one settled step of it. From it a
write changes the file by one step or not at all (`FileStep`), which gives
`OnlyAppended` and, step by step, `Refinement`: `FinishWrite` is
SequentialQueue's `Settle`, every other action a stutter. `AccountStep` follows
the one execution that may be in a process's hands from `ExecuteStep` to the
write, a crash or a write elsewhere. With two processes these three are false,
and the runs say so: `CallInv` is exactly what a second writer destroys.

### Work items

`ExecutedOnce` is not inductive alone. Next-step and review children inherit
their parent's execution result without having been executed; that they do not
*own* it needs that every result belongs to an item already in the queue
(`ResultsKnown`). With it, every call that leaves `exec`, `runs` and the
executing status alone keeps the invariant (`QuietUpdate`), a spawn adds an item
that owns nothing (`SpawnKeeps`), and only `EnterExecution` and
`FinalizeExecution` need an argument of their own.

The links rest on `LinkInv`. Each of the nineteen calls either replaces one item
by a `Good` one or also adds a `Fresh` child (`EveryCallGood`); `Good` says that
the final links, the children and the counters are kept, that a run is counted only
on a runnable item without a result, and that the new item is `Backed`. `Backed`
is the evidence `StatusHasEvidence` asks for and what that needs: a post-execution
decision is one of the four the policy makes, an item's generation count is at
most its repair-loop generation, `complete` was decided on a success, a
failed review had a trigger, and a runnable item without a result was let through
or recovered. `LimitsAgree` follows from the order of the counters alone: next-step
children restart `count` at 0 while `gen` goes on. `RepairChildrenCountUp`, which no run asks
any more, is a conjunct of `LinkInv` and stays a theorem. That a spawn replaces no item follows from `ChildrenLinked`: a
child the parent does not list is not in the queue (`Unlisted`).
`SeedsConsistent` asks the same of the queue a history starts from, and that a
continuation already in it was within the limit (`Limited`); TLC evaluates it on
every queue of the runs.

That statuses cannot go round rests on a ranking. `StatusRank` orders the
statuses so that every call but three takes its item down; the three are the
execution result, the retry and the recovery, and each makes a link that is
final. `MovesLeft` is the rank plus 14 (one more than the highest rank) for each
of these links that is not made yet. `EveryCallMoves` shows call by call that
the item called for uses up what its status moves and that a settled item does
not move (`Moves`); `EveryItemMoves` carries this to the items that the call
leaves alone and to the parent whose list of children grows. `MovesRunOut` is
the step, `MovesBounded` that there are 55 moves at most (13 + 3 * 14). The same
lemmas carry `Limited`, and `Undone`: an item without the lineage the
post-execution policy asks for, which `make_work_item` never fills in, never
gets one.

### Store and signals

`StoreInv` has four parts: the lock has one holder (`Exclusive`), a writer in the
middle of a write has an id that is in no file and no line (`WriterFresh`), no two
lines have one id (`LinesDistinct`), and a line that was never ended does not
parse (`RaggedCorrupt`). A behaviour of ReleaseSignals is one of the store
(`StoreUsed`), so what is proved of the store holds of the harness. On top:
an assessment that will say "ready" has found its records in the index, which only grows
(`ReadyInv`, `AdvisoryInv`); one begun after the withhold call returned finds the
signal or raises at the torn line (`WithholdsFresh`, `WithheldInv`). `AnswersKept`
needs only that readable lines stay readable and where they are (`ReadableStays`):
a second signal of a logical id can only come after the first.

### Bundle

`IInv` adds to the checked invariants that what a command *holds* is good too:
its copy of the state is in order (`HeldInOrder`), a checkpoint is satisfied in it
only if its review was or is about to be saved (`ReviewsSaved`), the step in its hand is one that order, reviews
and fixes allow (`StepInHand`), and a finding it started with is
gated on disk and resolved in its copy, or still open there (`FixesKept`).
`StepsWaitForFixes` asks for both halves of the first case: records of a run that
raised stay on disk, and the next run must not take them for its own fixes.
Both commands write whole copies, so this is what the file becomes.

`DoneBundlesAreDone` is about the copies too (`SoundInv`): in each, the blocked
steps are not completed ones, and one that says done is complete and reviewed.
A run records a result only into a copy with no blocked step (`MayRecord`).
`HeldFrom` says where each copy of the next state comes from, once for all
actions. `VerdictsKept` follows the verdict in a run's hand from the step's file
to the copy (`VerdictInHand`).

When reviews are ingested between runs only, a copy is never older than the file
(`NothingStale`): whatever the file has, the copy that replaces it has
(`Grows`), and names the same completed and blocked steps as the file
(`StepsCurrent`). A blocked step is the first one not completed
(`BlockedIsNext`). `BundleIsAQueue` maps the number of saved steps to
SequentialQueue's `settled`, so a save is `Settle` or a stutter and everything
else a stutter. With overlap the refinement is false: an ingestion begun before
the save of a step writes the bundle back without it.

### Cycle

One call runs at a time, beside the edits of others. `CallInv` ties the copy a
call works on to the manifest: while it decides both are in one state, unless the
copy is blocked. `CertInv`, `PathInv`,
`EvidenceInv` and `FixInv` state each property of the file and of that copy, since a
call may write its copy over a newer manifest. `FixesReported` assumes `~SameSecond`; the
run `cycle_reports` shows what happens otherwise.

In three-slice mode more holds. Blocking aside, the transitions that are made form one line
from `admitted` to `promoted`, and the number of recorded transitions is the
place on it (`LineInv`, of the file and of a call's copy), so a copy written over
a newer manifest records what that had. This gives `AlongTheLine`, with six
transitions at most, and `TransitionsOnlyAdded`. Evidence is different: a call
writes back the evidence it has read. If nothing is attached meanwhile that is
all there is (`EvidenceOnFile`), whence `NoEvidenceLost`; otherwise the model
loses it, as section 2 says.

### Only model-checked

Liveness and ENABLED are out of the prover's reach: `EventuallySettled`,
`ComesToRest`, `WritesEnd` and `CycleEnds` are checked by TLC only. What each of
two of them rests on is proved: the statuses of `ComesToRest` have a bounded
number of moves (`MovesRunOut`, `MovesBounded`; the step from there to "finitely
often" is an induction over the moves), and a three-slice cycle of `CycleEnds` has
six transitions at most (`AlongTheLine`). Every other property of a passing run has a
theorem.

## 6. Hazards

PROJECT.json lists each at its line with the properties that cover it. Those
without one say why: four belong to the queue's command lines and are first in
the plan; the others are behaviour that no document promises to be otherwise (a
blocked step of a bundle stays blocked, an item retried from `executed_failure`
stays where it is, for which there is the theorem `StuckForEver`, an evaluation's failures are written
last, a provider may answer again after a crash, a cycle whose reviews found
nothing raises).

Two more are behaviour that the models contain and no property forbids. An
assessment in flight when a withhold call returns may still write a ready signal;
`NoNewReadyOnceWithheld` is about those begun afterwards. And two emitters that
race past the search both store a signal of one logical id, although
`evaluate_and_persist` says one "is created only on first call"; `AnswersStay` is
what callers can still rely on.

## 7. Plan

1. `QueueCli`: the command lines as processes with the queue state and the
   work-item file as two stores; decide, write artifact, apply and write state
   as separate steps; crash between them; two command lines at once. Composes
   `PromptQueue`'s calls; covers the four hazards above. Abstract specification:
   a serial order of the calls.
2. `SequenceRunner`: chains of slices with reviews, budgets and blocking, of
   which BundleRun has the one-slice case; abstract specification:
   `SequentialQueue` generalised to a partial order.
3. `ParallelEngine`: the thread pool, its shared lists and the signal bus.
4. `Lifecycle`, and the top-level conductor over the modules there are.
5. Two calls of `run_cycle` at once. Nothing in the code prevents them; the model
   has one call at a time, beside edits by others.

There are as many runs and properties as can be read together. A new module's
questions take the place of those answered by proofs, which need no run to stand
but keep one to show that their properties can fail.
