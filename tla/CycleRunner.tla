----------------------------- MODULE CycleRunner ------------------------------
(***************************************************************************)
(* run_cycle over one cycle manifest.  A call reads the manifest, lets the *)
(* next-step decision look at the file again, acts on the state it read    *)
(* (an execution, a fix roadmap, fixes, a certification), and writes the   *)
(* manifest back.  It does one step and returns; some steps it only        *)
(* recommends, and whoever called it edits the manifest.  Nothing locks    *)
(* the file, and a call may stop between any two of its steps.             *)
(*                                                                         *)
(* Abstracted: evidence other than executions, fixes and certification     *)
(* comes from outside, so a check of it may go either way at any time; the *)
(* decision and judgment artifacts are written and not read again; fix     *)
(* bundles are numbered as generate_fix_roadmap numbers them, and all of   *)
(* them are approved; the manifest is written at once.                     *)
(***************************************************************************)
EXTENDS Integers, Sequences

CONSTANTS
    Mode,           \* values of sequence_mode: "legacy", "three_slice"
    MaxBundles,     \* bundles of a fix roadmap
    SameSecond,     \* may two slices start within one second?
    Overlap,        \* may the manifest be edited while a call is under way?
    MaxClock,       \* bound: seconds in which slices start
    MaxRounds,      \* bound: fix roadmaps generated
    MaxCrashes      \* bound: calls that stop half-way

ASSUME CycleConstants ==
    /\ Mode \subseteq {"legacy", "three_slice"}
    /\ MaxBundles \in Nat
    /\ SameSecond \in BOOLEAN
    /\ Overlap \in BOOLEAN
    /\ MaxClock \in Nat
    /\ MaxRounds \in Nat
    /\ MaxCrashes \in Nat

Second == 0..MaxClock

VARIABLES
    mode,       \* sequence_mode of the manifest, never changed
    manifest,   \* cycle_manifest.json
    mem,        \* the manifest the call under way works on
    pc,         \* where that call is
    collected,  \* its fix reports so far
    advice,     \* next_state that the last call returned and did not save
    prior,      \* the state the cycle was in when it was last blocked
    fixRoadmap, \* fix_roadmap_artifact.json: which generation, how many bundles
    fixReport,  \* fix_reports/: by run id, what the report is about
    record,     \* done_certification_record.json: its final_status
    now,        \* the clock, in the whole seconds run ids are made of
    clean,      \* history: were the reviews without a finding?
    crashes     \* history: calls that stopped half-way

files == <<fixRoadmap, fixReport, record>>
history == <<clean, crashes>>
vars == <<mode, manifest, mem, pc, collected, advice, prior, files, now, history>>

----------------------------------------------------------------------------
(* Manifests                                                                *)

SequenceStates ==
    {"admitted", "executing_slice_1", "executing_slice_2", "executing_slice_3",
     "review_pending", "remediation_pending", "certification_pending",
     "promoted", "blocked", "frozen"}

(* What run_cycle returns as next_state without writing it. *)
Recommended ==
    [draft_roadmap                  |-> "roadmap_under_review",
     roadmap_under_review           |-> "roadmap_approved",
     roadmap_approved               |-> "execution_ready",
     execution_in_progress          |-> "execution_complete_unreviewed",
     execution_complete_unreviewed  |-> "implementation_reviews_complete"]

States ==
    SequenceStates \cup DOMAIN Recommended \cup
    {"execution_ready", "implementation_reviews_complete", "fix_roadmap_ready",
     "fixes_in_progress", "fixes_complete_unreviewed", "certified_done"}

NewManifest(m) ==
    [state    |-> IF m = "legacy" THEN "draft_roadmap" ELSE "admitted",
     reports  |-> <<>>,     \* execution_report_paths, by run id
     fixes    |-> <<>>,     \* fix_execution_report_paths, by run id
     reviewed |-> FALSE,    \* does implementation_review_paths name any?
     record   |-> FALSE,    \* does certification_record_path name the record?
     cert     |-> "pending",
     history  |-> <<>>]     \* sequence_transition_history

NoRoadmap == [round |-> 0, size |-> 0]
NoReport == [round |-> 0, bundle |-> 0]

Blocked(m) == [m EXCEPT !.state = "blocked"]

Init ==
    /\ mode \in Mode
    /\ manifest = NewManifest(mode)
    /\ mem = NewManifest(mode)
    /\ pc = "idle"
    /\ collected = <<>>
    /\ advice = "none"
    /\ prior = manifest.state
    /\ fixRoadmap = NoRoadmap
    /\ fixReport = [t \in Second |-> NoReport]
    /\ record = "none"
    /\ now = 0
    /\ clean = FALSE
    /\ crashes = 0

----------------------------------------------------------------------------
(* Reading and writing the manifest                                         *)

Begin ==
    /\ pc = "idle"
    /\ pc' = "read"
    /\ mem' = manifest
    /\ advice' = "none"
    /\ UNCHANGED <<mode, manifest, collected, prior, files, now, history>>

(* The rest of a step that leaves m to be written. *)
Finish(m) ==
    /\ pc' = "saving"
    /\ mem' = m
    /\ collected' = <<>>
    /\ UNCHANGED <<mode, advice, prior>>

Save ==
    /\ pc = "saving"
    /\ manifest' = mem
    /\ prior' = IF mem.state = "blocked" /\ manifest.state # "blocked"
                THEN manifest.state ELSE prior
    /\ pc' = "idle"
    /\ UNCHANGED <<mode, mem, collected, advice, files, now, history>>

Crash ==
    /\ pc # "idle"
    /\ crashes < MaxCrashes
    /\ crashes' = crashes + 1
    /\ pc' = "idle"
    /\ collected' = <<>>
    /\ UNCHANGED <<mode, manifest, mem, advice, prior, files, now, clean>>

----------------------------------------------------------------------------
(* The three-slice sequence                                                 *)

Target ==
    [admitted              |-> "executing_slice_1",
     executing_slice_1     |-> "executing_slice_2",
     executing_slice_2     |-> "executing_slice_3",
     executing_slice_3     |-> "review_pending",
     review_pending        |-> "certification_pending",
     remediation_pending   |-> "certification_pending",
     certification_pending |-> "promoted",
     promoted              |-> "promoted",
     blocked               |-> "blocked",
     frozen                |-> "frozen"]

InSequence(m) == mode = "three_slice" /\ m.state \in SequenceStates

(* Mutant: one report is enough for all three slices. *)
SequenceAllowedUncounted(m, target) ==
    CASE target \in {"executing_slice_2", "executing_slice_3", "review_pending"}
             -> m.reports # <<>>
      [] target = "certification_pending" -> m.reviewed
      [] target = "promoted" -> m.cert = "passed" /\ m.record
      [] OTHER -> TRUE

(* evaluate_sequence_transition: what it asks of the manifest itself.       *)
SequenceAllowed(m, target) ==
    CASE target = "executing_slice_2" -> Len(m.reports) >= 1
      [] target = "executing_slice_3" -> Len(m.reports) >= 2
      [] target = "review_pending" -> Len(m.reports) >= 3
      [] target = "certification_pending" -> m.reviewed
      [] target = "promoted" -> m.cert = "passed" /\ m.record
      [] OTHER -> TRUE

Recorded(m, target) ==
    [m EXCEPT !.state = target,
              !.history = Append(@, [from |-> m.state, to |-> target])]

(* Mutant: the transition is recorded before the policy is asked. *)
AdvanceSequenceRecordsFirst ==
    /\ pc = "read"
    /\ InSequence(mem)
    /\ LET target == Target[mem.state]
       IN  IF target = mem.state
           THEN /\ pc' = "idle"
                /\ UNCHANGED <<mode, mem, collected, advice, prior>>
           ELSE Finish(IF SequenceAllowed(mem, target) THEN Recorded(mem, target)
                       ELSE Blocked(Recorded(mem, target)))
    /\ UNCHANGED <<manifest, files, now, history>>

AdvanceSequence ==
    /\ pc = "read"
    /\ InSequence(mem)
    /\ LET target == Target[mem.state]
       IN  /\ SequenceAllowed(mem, target)
           /\ IF target = mem.state
              THEN /\ pc' = "idle"
                   /\ UNCHANGED <<mode, mem, collected, advice, prior>>
              ELSE Finish(Recorded(mem, target))
    /\ UNCHANGED <<manifest, files, now, history>>

----------------------------------------------------------------------------
(* Decision and evidence                                                    *)

(* Governance, eligibility, a promotion gate or the decision blocks; a      *)
(* blocking decision that has a fix plan is written to the manifest first.  *)
Refuse ==
    /\ pc = "read"
    /\ Finish(Blocked(mem))
    /\ manifest' \in (IF InSequence(mem) THEN {manifest} ELSE {manifest, mem})
    /\ UNCHANGED <<files, now, history>>

(* build_next_step_decision reads the file itself: a blocked cycle always   *)
(* gets a blocking decision.  The decision goes into the manifest read      *)
(* before, and that is written.                                             *)
Decide ==
    /\ pc = "read"
    /\ ~InSequence(mem)
    /\ manifest.state # "blocked"
    /\ manifest' = mem
    /\ pc' = "decided"
    /\ UNCHANGED <<mode, mem, collected, advice, prior, files, now, history>>

(* Required evidence is missing or invalid, or a slice is turned down or    *)
(* fails.                                                                   *)
RefuseEvidence ==
    /\ pc \in {"decided", "fixing"}
    /\ mem.state \notin {"certified_done", "blocked"}
    /\ Finish(Blocked(mem))
    /\ UNCHANGED <<manifest, files, now, history>>

Recommend ==
    /\ pc = "decided"
    /\ mem.state \in DOMAIN Recommended
    /\ advice' = Recommended[mem.state]
    /\ pc' = "idle"
    /\ UNCHANGED <<mode, manifest, mem, collected, prior, files, now, history>>

(* certified_done, and a blocked manifest repaired while it was decided on. *)
NothingToDo ==
    /\ pc = "decided"
    /\ mem.state \in {"certified_done", "blocked"}
    /\ pc' = "idle"
    /\ UNCHANGED <<mode, manifest, mem, collected, advice, prior, files, now,
                   history>>

----------------------------------------------------------------------------
(* Slices: handoff_to_pqx                                                   *)

(* The run id is the second the slice starts in. *)
RunSlice ==
    /\ now < MaxClock
    /\ now' \in (IF SameSecond THEN {now, now + 1} ELSE {now + 1})

Execute ==
    /\ pc = "decided"
    /\ mem.state = "execution_ready"
    /\ RunSlice
    /\ Finish([mem EXCEPT !.state = "execution_complete_unreviewed",
                          !.reports = Append(@, now)])
    /\ UNCHANGED <<manifest, files, history>>

----------------------------------------------------------------------------
(* Fixes                                                                    *)

(* generate_fix_roadmap. *)
PlanFixes ==
    /\ pc = "decided"
    /\ mem.state = "implementation_reviews_complete"
    /\ fixRoadmap.round < MaxRounds
    /\ \E n \in 1..MaxBundles :
           fixRoadmap' = [round |-> fixRoadmap.round + 1, size |-> n]
    /\ Finish([mem EXCEPT !.state = "fix_roadmap_ready"])
    /\ UNCHANGED <<manifest, fixReport, record, now, history>>

(* Without findings there is no bundle; the schema wants one, and its       *)
(* ValidationError is no ValueError: run_cycle raises.                      *)
PlanNothing ==
    /\ pc = "decided"
    /\ mem.state = "implementation_reviews_complete"
    /\ clean' = TRUE
    /\ pc' = "idle"
    /\ UNCHANGED <<mode, manifest, mem, collected, advice, prior, files, now,
                   crashes>>

StartFixes ==
    /\ pc = "decided"
    /\ mem.state = "fix_roadmap_ready"
    /\ pc' = "fixing"
    /\ UNCHANGED <<mode, manifest, mem, collected, advice, prior, files, now,
                   history>>

(* Mutant: bundles are run without an eye on the plan. *)
FixBundleUncounted ==
    /\ pc = "fixing"
    /\ RunSlice
    /\ fixReport' = [fixReport EXCEPT ![now] =
           [round |-> fixRoadmap.round, bundle |-> Len(collected) + 1]]
    /\ collected' = Append(collected, now)
    /\ UNCHANGED <<mode, manifest, mem, pc, advice, prior, fixRoadmap, record,
                   history>>

(* The report file is named by the run id alone. *)
FixBundle ==
    /\ pc = "fixing"
    /\ Len(collected) < fixRoadmap.size
    /\ RunSlice
    /\ fixReport' = [fixReport EXCEPT ![now] =
           [round |-> fixRoadmap.round, bundle |-> Len(collected) + 1]]
    /\ collected' = Append(collected, now)
    /\ UNCHANGED <<mode, manifest, mem, pc, advice, prior, fixRoadmap, record,
                   history>>

(* Mutant: a bundle that is turned down ends the loop and not the call. *)
FinishFixesEarly ==
    /\ pc = "fixing"
    /\ collected # <<>>
    /\ Finish([mem EXCEPT !.state = "fixes_in_progress", !.fixes = collected])
    /\ UNCHANGED <<manifest, files, now, history>>

FinishFixes ==
    /\ pc = "fixing"
    /\ Len(collected) = fixRoadmap.size
    /\ Finish([mem EXCEPT !.state = "fixes_in_progress", !.fixes = collected])
    /\ UNCHANGED <<manifest, files, now, history>>

(* Mutant: the new state is returned and not saved. *)
CollectFixesUnsaved ==
    /\ pc = "decided"
    /\ mem.state = "fixes_in_progress"
    /\ mem.fixes # <<>>
    /\ pc' = "idle"
    /\ UNCHANGED <<mode, manifest, mem, collected, advice, prior, files, now,
                   history>>

CollectFixes ==
    /\ pc = "decided"
    /\ mem.state = "fixes_in_progress"
    /\ mem.fixes # <<>>
    /\ Finish([mem EXCEPT !.state = "fixes_complete_unreviewed"])
    /\ UNCHANGED <<manifest, files, now, history>>

PromoteFixes ==
    /\ pc = "decided"
    /\ mem.state = "fixes_complete_unreviewed"
    /\ mem.fixes # <<>>
    /\ Finish([mem EXCEPT !.state = "certification_pending"])
    /\ UNCHANGED <<manifest, files, now, history>>

----------------------------------------------------------------------------
(* Certification                                                            *)

(* Mutant: a record there is, whatever it says, certifies the cycle. *)
ReadRecordUnread ==
    /\ pc = "decided"
    /\ mem.state = "certification_pending"
    /\ mem.record
    /\ Finish([mem EXCEPT !.state = "certified_done", !.cert = "passed"])
    /\ UNCHANGED <<manifest, files, now, history>>

(* A record the manifest names is read, and nothing is certified anew. *)
ReadRecord ==
    /\ pc = "decided"
    /\ mem.state = "certification_pending"
    /\ mem.record
    /\ Finish(IF record = "PASSED"
              THEN [mem EXCEPT !.state = "certified_done", !.cert = "passed"]
              ELSE Blocked(mem))
    /\ UNCHANGED <<manifest, files, now, history>>

(* run_done_certification on the inputs the manifest refers to. *)
Certify ==
    /\ pc = "decided"
    /\ mem.state = "certification_pending"
    /\ ~mem.record
    /\ record' \in {"PASSED", "FAILED"}
    /\ Finish(IF record' = "PASSED"
              THEN [mem EXCEPT !.state = "certified_done", !.record = TRUE,
                               !.cert = "passed"]
              ELSE [mem EXCEPT !.state = "blocked", !.record = TRUE,
                               !.cert = "failed"])
    /\ UNCHANGED <<manifest, fixRoadmap, fixReport, now, history>>

(* The certification raises. *)
CertifyFails ==
    /\ pc = "decided"
    /\ mem.state = "certification_pending"
    /\ ~mem.record
    /\ Finish([mem EXCEPT !.state = "blocked", !.cert = "failed"])
    /\ UNCHANGED <<manifest, files, now, history>>

----------------------------------------------------------------------------
(* Whoever calls run_cycle: edits of the manifest (outside src/)            *)

Edit(m) ==
    /\ Overlap \/ pc = "idle"
    /\ manifest' = m
    /\ UNCHANGED <<mode, mem, pc, collected, prior, fixRoadmap, fixReport, now,
                   history>>

FollowAdvice ==
    /\ advice # "none"
    /\ Edit([manifest EXCEPT !.state = advice])
    /\ advice' = "none"
    /\ UNCHANGED record

(* The cause is repaired and the state restored; a failed certification may *)
(* have its record taken out, or send the cycle back to its reviews.        *)
Unblock ==
    /\ manifest.state = "blocked"
    /\ \/ Edit([manifest EXCEPT !.state = prior])
       \/ /\ mode = "legacy"
          /\ prior = "certification_pending"
          /\ \E s \in {prior, "implementation_reviews_complete"} :
                 Edit([manifest EXCEPT !.state = s, !.record = FALSE])
    /\ UNCHANGED <<advice, record>>

(* The evidence of a three-slice cycle is attached by whoever ran it.       *)
Attach ==
    /\ mode = "three_slice"
    /\ \/ /\ Len(manifest.reports) < 3
          /\ Edit([manifest EXCEPT !.reports = Append(@, now)])
          /\ UNCHANGED record
       \/ Edit([manifest EXCEPT !.reviewed = TRUE]) /\ UNCHANGED record
       \/ /\ Edit([manifest EXCEPT !.cert = "passed", !.record = TRUE])
          /\ record' = "PASSED"
    /\ UNCHANGED advice

----------------------------------------------------------------------------
RunStep ==
    \/ Begin \/ Save \/ AdvanceSequence \/ Refuse \/ Decide \/ RefuseEvidence
    \/ Recommend \/ NothingToDo \/ Execute
    \/ PlanFixes \/ PlanNothing \/ StartFixes \/ FixBundle \/ FinishFixes
    \/ CollectFixes \/ PromoteFixes \/ ReadRecord \/ Certify \/ CertifyFails

Next == RunStep \/ Crash \/ FollowAdvice \/ Unblock \/ Attach

Spec == Init /\ [][Next]_vars

(* run_cycle is called again and again and runs to its end, and whoever     *)
(* reads its result acts on the advice before asking again, sooner or later.*)
FairSpec == Spec /\ WF_vars(RunStep) /\ SF_vars(FollowAdvice)

----------------------------------------------------------------------------
(* Properties                                                               *)

Manifest ==
    [state : States, reports : Seq(Second), fixes : Seq(Second),
     reviewed : BOOLEAN, record : BOOLEAN,
     cert : {"pending", "passed", "failed"},
     history : Seq([from : SequenceStates, to : SequenceStates])]

Report == [round : 0..MaxRounds, bundle : 0..MaxBundles]

(* Every variable keeps its type: what is written is a cycle_manifest (its  *)
(* schema and validate_cycle_manifest), and no more fixes are run than the  *)
(* roadmap has bundles.                                                     *)
TypeOK ==
    /\ mode \in Mode
    /\ manifest \in Manifest
    /\ mem \in Manifest
    /\ pc \in {"idle", "read", "decided", "fixing", "saving"}
    /\ collected \in Seq(Second)
    /\ Len(collected) <= fixRoadmap.size
    /\ advice \in {"none"} \cup States
    /\ prior \in States
    /\ fixRoadmap \in [round : 0..MaxRounds, size : 0..MaxBundles]
    /\ fixReport \in [Second -> Report]
    /\ record \in {"none", "PASSED", "FAILED"}
    /\ now \in Second
    /\ clean \in BOOLEAN
    /\ crashes \in 0..MaxCrashes

(* A cycle is certified_done only on a certification record that its        *)
(* manifest names and that says PASSED, however often certification was     *)
(* tried, refused or cut short before (runbook: "certification artifact is  *)
(* present, schema-valid, and passing").                                    *)
CertifiedOnRecord ==
    manifest.state = "certified_done" =>
        manifest.record /\ record = "PASSED" /\ manifest.cert = "passed"

Reported ==
    {fixReport[manifest.fixes[i]] : i \in 1..Len(manifest.fixes)}

(* From fixes_in_progress on, every bundle of the fix roadmap there is has  *)
(* an execution report of its own among those the manifest names: manifest  *)
(* and artifacts are enough to reconstruct why the cycle advanced           *)
(* (docs/architecture/autonomous_execution_loop.md).                        *)
EachFixReported ==
    mode = "legacy" /\ manifest.state \in
        {"fixes_in_progress", "fixes_complete_unreviewed",
         "certification_pending", "certified_done"} =>
        \A b \in 1..fixRoadmap.size :
            [round |-> fixRoadmap.round, bundle |-> b] \in Reported

(* Where a cycle is, or was when it was blocked. *)
Position(m) == IF m.state = "blocked" THEN prior ELSE m.state

IsPath(h, last) ==
    /\ \A i \in 1..Len(h) :
           h[i].from = IF i = 1 THEN "admitted" ELSE h[i - 1].to
    /\ last = IF h = <<>> THEN "admitted" ELSE h[Len(h)].to

(* The transitions a three-slice manifest records are a path from admitted  *)
(* to the state it is in, or was in when it was blocked, whatever was       *)
(* refused, killed or edited in between.                                    *)
HistoryIsPath ==
    mode = "three_slice" => IsPath(manifest.history, Position(manifest))

(* A three-slice cycle is promoted only with the reports of three slices,   *)
(* reviews and a passing certification, however the evidence was attached   *)
(* while calls were under way (sequence_transition_policy).                 *)
PromotedOnEvidence ==
    mode = "three_slice" /\ manifest.state = "promoted" =>
        /\ Len(manifest.reports) >= 3
        /\ manifest.reviewed
        /\ manifest.cert = "passed"
        /\ manifest.record

(* A cycle that keeps being run ends certified, promoted or blocked, unless *)
(* its reviews found nothing: that it cannot handle.                        *)
CycleEnds ==
    <>(clean \/ manifest.state \in {"certified_done", "promoted", "blocked"})
============================================================================
