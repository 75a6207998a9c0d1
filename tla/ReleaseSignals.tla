---------------------------- MODULE ReleaseSignals -----------------------------
(***************************************************************************)
(* The advisory signals of the HOP harness, kept in the experience store:  *)
(* scores of a candidate, release-readiness signals assessed from them,    *)
(* withhold signals, and control advisories.                               *)
(*                                                                         *)
(* Each emitter first looks in the index for a signal of the same logical  *)
(* id and returns it; only otherwise it builds one and writes it.  Looking *)
(* and building take no lock, so other processes act in between.           *)
(*                                                                         *)
(* Abstracted: a score is the name of its eval set and the run it came     *)
(* from; thresholds, trace completeness and risk failures are one outcome  *)
(* of the assessment (they depend on the caller's configuration).  A built *)
(* signal carries the wall clock in microseconds, here a counter no two    *)
(* signals share.                                                          *)
(***************************************************************************)
EXTENDS ExperienceStore

CONSTANTS
    Candidate,      \* candidate ids
    EvalRun,        \* [set |-> eval_set_id, run |-> run_id] of evaluations
    Variant,        \* payloads written for one candidate's artifact id
    Comparison,     \* pairs <<search, heldout>> of evaluations assessed
    MaxClock        \* bound: signals built

Score == [kind : {"score"}, cand : Candidate, eval : EvalRun]
CandidatePayload == [kind : {"candidate"}, cand : Candidate, variant : Variant]
Withhold == [kind : {"withhold"}, cand : Candidate, at : 1..MaxClock]
Readiness ==
    [kind : {"readiness"}, cand : Candidate, search : EvalRun,
     heldout : EvalRun, value : {"ready", "risk"}, at : 1..MaxClock]
Advisory ==
    [kind : {"advisory"}, cand : Candidate, ref : 1..MaxClock,
     at : 1..MaxClock]

ASSUME SignalConstants ==
    /\ MaxClock \in Nat
    /\ Comparison \subseteq EvalRun \X EvalRun
    /\ Artifact = Score \cup CandidatePayload \cup Withhold \cup Readiness
                    \cup Advisory
    /\ \A a, b \in Artifact :
           ArtifactId[a] = ArtifactId[b] =>
               a = b \/ (a \in CandidatePayload /\ b \in CandidatePayload)

(* What earlier sessions stored rests on what they stored. *)
Remembered(a) == \E i \in 1..Len(History) : History[i] = a

ASSUME HistoryRests ==
    \A i \in 1..Len(History) :
        LET a == History[i]
        IN  /\ a.kind = "readiness" /\ a.value = "ready" =>
                   /\ a.search.set # a.heldout.set
                   /\ \E v \in Variant :
                          Remembered([kind |-> "candidate", cand |-> a.cand,
                                      variant |-> v])
                   /\ \A run \in {a.search, a.heldout} :
                          Remembered([kind |-> "score", cand |-> a.cand,
                                      eval |-> run])
            /\ a.kind = "advisory" =>
                   \E j \in 1..Len(History) :
                       History[j].kind = "readiness" /\ History[j].at = a.ref

VARIABLES
    task,           \* task[p]: the call p is in
    stage,          \* stage[p]: how far that call has come
    clock,          \* the time the last signal was built
    withheld        \* history: candidates whose withhold call has returned

clientVars == <<task, stage, clock, withheld>>
vars == <<storeVars, clientVars>>

----------------------------------------------------------------------------
(* The calls.  late: the candidate's withhold call has returned when the    *)
(* assessment begins.                                                       *)

NoCall == [kind |-> "none"]
Write(c) == [kind |-> "write", cand |-> c]
WithholdCall(c) == [kind |-> "withhold", cand |-> c]
AssessCall(c, s, h) ==
    [kind |-> "assess", cand |-> c, search |-> s, heldout |-> h,
     late |-> c \in withheld]
AdviseCall(c, r) == [kind |-> "advise", cand |-> c, ref |-> r]

(* Does an artifact answer a call: is it of the same logical id? *)
Answers(a, t) ==
    /\ a.cand = t.cand
    /\ \/ t.kind = "withhold" /\ a.kind = "withhold"
       \/ /\ t.kind = "assess"
          /\ a.kind = "readiness"
          /\ a.search = t.search
          /\ a.heldout = t.heldout
       \/ t.kind = "advise" /\ a.kind = "advisory"

Existing(t) == {index[i] : i \in {j \in ReadableLines : Answers(index[j], t)}}

(* Mutant: the latest match answers. *)
IsLast(i, t) ==
    /\ i \in ReadableLines
    /\ Answers(index[i], t)
    /\ \A j \in ReadableLines : Answers(index[j], t) => j <= i

(* _find_existing_signal, _find_existing_advisory: the oldest match. *)
IsFirst(i, t) ==
    /\ i \in ReadableLines
    /\ Answers(index[i], t)
    /\ \A j \in ReadableLines : Answers(index[j], t) => i <= j

Oldest(t) == CHOOSE i \in ReadableLines : IsFirst(i, t)

Init ==
    /\ StoreInit
    /\ task = [p \in Process |-> NoCall]
    /\ stage = [p \in Process |-> "rest"]
    /\ clock = 0
    /\ withheld = {}

Begin(p, t) ==
    /\ stage[p] = "rest"
    /\ task' = [task EXCEPT ![p] = t]

(* A candidate admitted by the optimisation loop, or a score the evaluator  *)
(* gives one: they know their payload and write it at once.                 *)
WritePayload(p) ==
    \E a \in CandidatePayload \cup Score :
        /\ Begin(p, Write(a.cand))
        /\ CallWrite(p, a)
        /\ stage' = [stage EXCEPT ![p] = "write"]
        /\ UNCHANGED <<clock, withheld>>

(* emit_rollback_signal, evaluate_and_persist, emit_control_advisory. *)
Ask(p) ==
    /\ \E c \in Candidate :
           \/ Begin(p, WithholdCall(c))
           \/ \E pair \in Comparison : Begin(p, AssessCall(c, pair[1], pair[2]))
           \/ \E r \in 1..MaxClock : Begin(p, AdviseCall(c, r))
    /\ stage' = [stage EXCEPT ![p] = "look"]
    /\ UNCHANGED <<storeVars, clock, withheld>>

----------------------------------------------------------------------------
(* The search for an existing signal, read from its file; at a line that    *)
(* does not parse the call raises.                                          *)

Finish(p, succeeded) ==
    /\ task' = [task EXCEPT ![p] = NoCall]
    /\ stage' = [stage EXCEPT ![p] = "rest"]
    /\ withheld' = IF task[p].kind = "withhold" /\ succeeded
                   THEN withheld \cup {task[p].cand} ELSE withheld

ReturnExisting(p) ==
    /\ stage[p] = "look"
    /\ Existing(task[p]) # {}
    /\ Finish(p, TRUE)
    /\ UNCHANGED <<storeVars, clock>>

FindNothing(p) ==
    /\ stage[p] = "look"
    /\ Existing(task[p]) = {}
    /\ IF ScanRaises
       THEN Finish(p, FALSE)
       ELSE stage' = [stage EXCEPT ![p] = "build"] /\ UNCHANGED <<task, withheld>>
    /\ UNCHANGED <<storeVars, clock>>

----------------------------------------------------------------------------
(* Building                                                                 *)

(* What evaluate_release_readiness reads from the index. *)
AdmittedCandidate(t) ==
    \E i \in ReadableLines :
        index[i].kind = "candidate" /\ index[i].cand = t.cand

AdmittedScore(t, run) ==
    \E i \in ReadableLines : index[i] = [kind |-> "score", cand |-> t.cand,
                                         eval |-> run]

NotWithheld(t) ==
    ~ \E i \in ReadableLines :
          index[i].kind = "withhold" /\ index[i].cand = t.cand

(* Mutant: scores that were never admitted count. *)
ChecksPassUnadmitted(t) ==
    /\ AdmittedCandidate(t)
    /\ NotWithheld(t)
    /\ t.search.set # t.heldout.set

(* Mutant: withhold signals are not consulted. *)
ChecksPassWithheld(t) ==
    /\ AdmittedCandidate(t)
    /\ AdmittedScore(t, t.search)
    /\ AdmittedScore(t, t.heldout)
    /\ t.search.set # t.heldout.set

ChecksPass(t) ==
    /\ AdmittedCandidate(t)
    /\ AdmittedScore(t, t.search)
    /\ AdmittedScore(t, t.heldout)
    /\ NotWithheld(t)
    /\ t.search.set # t.heldout.set

Build(p, a) ==
    /\ clock < MaxClock
    /\ clock' = clock + 1
    /\ CallWrite(p, a)
    /\ stage' = [stage EXCEPT ![p] = "write"]
    /\ UNCHANGED <<task, withheld>>

BuildWithhold(p) ==
    /\ stage[p] = "build"
    /\ task[p].kind = "withhold"
    /\ Build(p, [kind |-> "withhold", cand |-> task[p].cand, at |-> clock + 1])

(* A search that has not found what it looks for when it reaches a line     *)
(* that does not parse raises; the search for withhold signals reads to the *)
(* end of the index unless it finds one.                                    *)
SearchRaises(t) ==
    /\ ScanRaises
    /\ \/ ~AdmittedCandidate(t)
       \/ ~AdmittedScore(t, t.search) \/ ~AdmittedScore(t, t.heldout)
       \/ NotWithheld(t)

BuildReadiness(p) ==
    /\ stage[p] = "build"
    /\ task[p].kind = "assess"
    /\ ~SearchRaises(task[p])
    /\ \E thresholdsMet \in BOOLEAN :
           Build(p, [kind    |-> "readiness",
                     cand    |-> task[p].cand,
                     search  |-> task[p].search,
                     heldout |-> task[p].heldout,
                     value   |-> IF thresholdsMet /\ ChecksPass(task[p])
                                 THEN "ready" ELSE "risk",
                     at      |-> clock + 1])

AssessmentRaises(p) ==
    /\ stage[p] = "build"
    /\ task[p].kind = "assess"
    /\ SearchRaises(task[p])
    /\ Finish(p, FALSE)
    /\ UNCHANGED <<storeVars, clock>>

(* The readiness signal an advisory refers to, read by its id. *)
Referred(r) == {f \in files : f.kind = "readiness" /\ f.at = r}

(* Mutant: the reference is not resolved. *)
BuildAdvisoryBlind(p) ==
    /\ stage[p] = "build"
    /\ task[p].kind = "advise"
    /\ Build(p, [kind |-> "advisory", cand |-> task[p].cand,
                 ref |-> task[p].ref, at |-> clock + 1])

BuildAdvisory(p) ==
    /\ stage[p] = "build"
    /\ task[p].kind = "advise"
    /\ Referred(task[p].ref) # {}
    /\ Build(p, [kind |-> "advisory", cand |-> task[p].cand,
                 ref |-> task[p].ref, at |-> clock + 1])

AdvisoryRaises(p) ==
    /\ stage[p] = "build"
    /\ task[p].kind = "advise"
    /\ Referred(task[p].ref) = {}
    /\ Finish(p, FALSE)
    /\ UNCHANGED <<storeVars, clock>>

----------------------------------------------------------------------------
(* Inside write_artifact, and back from it                                  *)

InStore(p) ==
    /\ Work(p) \/ AppendTorn(p) \/ Die(p)
    /\ UNCHANGED clientVars

Return(p) ==
    /\ stage[p] = "write"
    /\ Leave(p)
    /\ Finish(p, pc[p] = "returned")
    /\ UNCHANGED clock

Next ==
    \E p \in Process :
        \/ WritePayload(p) \/ Ask(p)
        \/ ReturnExisting(p) \/ FindNothing(p)
        \/ BuildWithhold(p) \/ BuildReadiness(p) \/ AssessmentRaises(p)
        \/ BuildAdvisory(p) \/ AdvisoryRaises(p)
        \/ InStore(p) \/ Return(p)

Spec == Init /\ [][Next]_vars

(* A process inside write_artifact is scheduled until the call ends. *)
FairSpec == Spec /\ \A p \in Process : WF_vars(InStore(p) \/ Return(p))

----------------------------------------------------------------------------
(* Properties                                                               *)

Questions ==
    [kind : {"withhold"}, cand : Candidate]
    \cup [kind : {"assess"}, cand : Candidate, search : EvalRun,
          heldout : EvalRun, late : BOOLEAN]
    \cup [kind : {"advise"}, cand : Candidate, ref : 1..MaxClock]

Calls == {NoCall} \cup [kind : {"write"}, cand : Candidate] \cup Questions

(* Every variable keeps its type; what a process has in hand is a call of   *)
(* its own kind.                                                            *)
TypeOK ==
    /\ StoreTypeOK
    /\ task \in [Process -> Calls]
    /\ stage \in [Process -> {"rest", "look", "build", "write"}]
    /\ clock \in 0..MaxClock
    /\ withheld \subseteq Candidate

(* The harness uses the store as the store means to be used: every step of  *)
(* a client is a step of the store or leaves the store alone.  No run asks  *)
(* it; its proof carries what is proved of the store over to the harness.   *)
UsesStore == StoreSpec

(* "refuses to yield ready_signal unless both scores are present": a stored *)
(* ready signal rests on a candidate and two scores of different eval sets  *)
(* that are in the index, not merely in files or in memory, whatever died   *)
(* or was torn while they were written (evaluate_release_readiness).        *)
ReadyRestsOnRecords ==
    \A a \in files :
        a.kind = "readiness" /\ a.value = "ready" =>
            /\ a.search.set # a.heldout.set
            /\ \E v \in Variant : Indexed([kind |-> "candidate",
                                           cand |-> a.cand, variant |-> v])
            /\ \A run \in {a.search, a.heldout} :
                   Indexed([kind |-> "score", cand |-> a.cand, eval |-> run])

(* A candidate with a withhold signal never reaches a new ready signal:     *)
(* once a withhold call has returned, no assessment begun later writes      *)
(* "ready", even if the withhold line was lost to a torn append, because    *)
(* the scan then raises (_check_candidate_not_withheld).                    *)
NoNewReadyOnceWithheld ==
    \A p \in Process :
        stage[p] = "write" /\ task[p].kind = "assess" /\ task[p].late =>
            writing[p].value = "risk"

(* The bridge never leaves a partial advisory: the signal a stored advisory *)
(* refers to can be read, also when its own writer died before indexing it. *)
AdvisoriesResolve ==
    \A a \in files : a.kind = "advisory" => Referred(a.ref) # {}

(* "a prior signal with the same logical signal_id is returned unchanged"   *)
(* (evaluate_and_persist): racing emitters may both have written a signal   *)
(* of one logical id, since ids embed the wall clock, but from the first    *)
(* one on every call is answered with that one and no other, whichever      *)
(* emitter finishes, dies or has its line torn later.                       *)
AnswersStay ==
    [][\A t \in Questions, i \in ReadableLines :
           IsFirst(i, t) => IsFirst(i, t)' /\ index'[i] = index[i]]_vars

(* A call of write_artifact ends, with a result or an exception, whoever    *)
(* holds the lock or dies holding it.                                       *)
WritesEnd == \A p \in Process : stage[p] = "write" ~> stage[p] = "rest"

(* hop_batch4_review.md, "Rollback failure - re-readiness ... CLOSED": a    *)
(* candidate whose withhold signal is recorded when the readiness builder   *)
(* is run is not answered "ready".                                          *)
WithheldNeverReady ==
    \A p \in Process :
        LET t == task[p]
        IN  stage[p] = "look" /\ t.kind = "assess" /\ Existing(t) # {} =>
                ~(t.late /\ index[Oldest(t)].value = "ready")
==============================================================================
