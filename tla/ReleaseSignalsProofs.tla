------------------------- MODULE ReleaseSignalsProofs --------------------------
(***************************************************************************)
(* Proofs about ReleaseSignals, for any processes, candidates, evaluations *)
(* and bounds: the clients use the store as it is meant to be used, so all *)
(* that is proved of the store holds of the whole, and what the signals    *)
(* say rests on what the store holds.                                      *)
(***************************************************************************)
EXTENDS ReleaseSignals, ExperienceStoreProofs

(* The variables of the clients have their types. *)
ClientTypes ==
    /\ task \in [Process -> Calls]
    /\ stage \in [Process -> {"rest", "look", "build", "write"}]
    /\ clock \in 0..MaxClock
    /\ withheld \subseteq Candidate

----------------------------------------------------------------------------
(* Types                                                                    *)

(* What the artifacts are. *)
LEMMA PayloadKinds ==
    /\ Score \subseteq Artifact /\ CandidatePayload \subseteq Artifact
    /\ Withhold \subseteq Artifact /\ Readiness \subseteq Artifact
    /\ Advisory \subseteq Artifact
    /\ Artifact \subseteq Score \cup CandidatePayload \cup Withhold
                            \cup Readiness \cup Advisory
    /\ NoArtifact \notin Artifact
  BY SignalConstants, StoreConstants

(* The clock of a signal that is built now. *)
LEMMA ClockStep ==
    ASSUME clock \in 0..MaxClock, clock < MaxClock
    PROVE  clock + 1 \in 1..MaxClock /\ clock + 1 \in 0..MaxClock
  BY SignalConstants

(* What a call of each kind carries. *)
LEMMA CallFields ==
    ASSUME NEW t \in Calls
    PROVE  /\ t.kind # "none" => t.cand \in Candidate
           /\ t.kind = "assess" => /\ t.search \in EvalRun
                                   /\ t.heldout \in EvalRun
                                   /\ t.late \in BOOLEAN
           /\ t.kind = "advise" => t.ref \in 1..MaxClock
  BY DEF Calls, Questions, NoCall

(* Calls are calls. *)
LEMMA CallTypes ==
    /\ NoCall \in Calls
    /\ \A c \in Candidate : Write(c) \in Calls /\ WithholdCall(c) \in Calls
    /\ \A c \in Candidate, pair \in Comparison :
           AssessCall(c, pair[1], pair[2]) \in Calls
    /\ \A c \in Candidate, r \in 1..MaxClock : AdviseCall(c, r) \in Calls
<1>1. \A pair \in Comparison : pair[1] \in EvalRun /\ pair[2] \in EvalRun
  BY SignalConstants
<1> QED
  BY <1>1 DEF Calls, Questions, NoCall, Write, WithholdCall, AssessCall, AdviseCall

(* What is built is an artifact of its kind.                                *)
LEMMA BuiltTypes ==
    ASSUME ClientTypes, clock < MaxClock, NEW p \in Process
    PROVE  /\ task[p].kind = "withhold" =>
                  [kind |-> "withhold", cand |-> task[p].cand, at |-> clock + 1]
                      \in Withhold
           /\ task[p].kind = "assess" =>
                  \A v \in {"ready", "risk"} :
                      [kind |-> "readiness", cand |-> task[p].cand,
                       search |-> task[p].search, heldout |-> task[p].heldout,
                       value |-> v, at |-> clock + 1] \in Readiness
           /\ task[p].kind = "advise" =>
                  [kind |-> "advisory", cand |-> task[p].cand,
                   ref |-> task[p].ref, at |-> clock + 1] \in Advisory
<1>1. task[p] \in Calls /\ clock + 1 \in 1..MaxClock
  BY ClockStep DEF ClientTypes
<1> QED BY <1>1, CallFields DEF Withhold, Readiness, Advisory

(* A call that ends leaves the types of the clients alone.                  *)
LEMMA FinishTypes ==
    ASSUME ClientTypes, NEW p \in Process, NEW b \in BOOLEAN, Finish(p, b)
    PROVE  /\ task' \in [Process -> Calls]
           /\ stage' \in [Process -> {"rest", "look", "build", "write"}]
           /\ withheld' \subseteq Candidate
<1>1. task[p] \in Calls
  BY DEF ClientTypes
<1>2. task[p].kind = "withhold" => task[p].cand \in Candidate
  BY <1>1, CallFields
<1> QED BY <1>2, CallTypes DEF ClientTypes, Finish

(* Building a signal leaves the types of the clients alone.                 *)
LEMMA BuildTypes ==
    ASSUME ClientTypes, NEW p \in Process, NEW a, Build(p, a)
    PROVE  ClientTypes'
  BY ClockStep DEF ClientTypes, Build

(* No step changes the type of a client variable.                           *)
LEMMA ClientTypesStep == ClientTypes /\ [Next]_vars => ClientTypes'
<1> SUFFICES ASSUME ClientTypes, [Next]_vars PROVE ClientTypes'
  OBVIOUS
<1>1. ASSUME NEW p \in Process, WritePayload(p) PROVE ClientTypes'
  <2>1. PICK a \in CandidatePayload \cup Score :
            /\ task' = [task EXCEPT ![p] = Write(a.cand)]
            /\ stage' = [stage EXCEPT ![p] = "write"]
            /\ UNCHANGED <<clock, withheld>>
    BY <1>1 DEF WritePayload, Begin
  <2>2. a.cand \in Candidate
    BY <2>1 DEF CandidatePayload, Score
  <2> QED BY <2>1, <2>2, CallTypes DEF ClientTypes
<1>2. ASSUME NEW p \in Process, Ask(p) PROVE ClientTypes'
  <2>1. PICK t \in Calls : task' = [task EXCEPT ![p] = t]
    BY <1>2, CallTypes DEF Ask, Begin
  <2> QED BY <1>2, <2>1 DEF Ask, ClientTypes
<1>3. ASSUME NEW p \in Process, ReturnExisting(p) \/ AssessmentRaises(p)
                                 \/ AdvisoryRaises(p) \/ Return(p)
      PROVE  ClientTypes'
  <2>1. PICK b \in BOOLEAN : Finish(p, b)
    BY <1>3 DEF ReturnExisting, AssessmentRaises, AdvisoryRaises, Return
  <2>2. UNCHANGED clock
    BY <1>3 DEF ReturnExisting, AssessmentRaises, AdvisoryRaises, Return
  <2> QED BY <2>1, <2>2, FinishTypes DEF ClientTypes
<1>4. ASSUME NEW p \in Process, FindNothing(p) PROVE ClientTypes'
  <2>1. CASE Finish(p, FALSE) /\ UNCHANGED clock
    BY <2>1, FinishTypes DEF ClientTypes
  <2>2. CASE /\ stage' = [stage EXCEPT ![p] = "build"]
             /\ UNCHANGED <<task, withheld, clock>>
    BY <2>2 DEF ClientTypes
  <2> QED BY <1>4, <2>1, <2>2 DEF FindNothing
<1>5. ASSUME NEW p \in Process, BuildWithhold(p) \/ BuildReadiness(p)
                                 \/ BuildAdvisory(p)
      PROVE  ClientTypes'
  BY <1>5, BuildTypes DEF BuildWithhold, BuildReadiness, BuildAdvisory
<1>6. ASSUME NEW p \in Process, InStore(p) PROVE ClientTypes'
  BY <1>6 DEF InStore, clientVars, ClientTypes
<1>7. CASE UNCHANGED vars
  BY <1>7 DEF vars, clientVars, ClientTypes
<1> QED BY <1>1, <1>2, <1>3, <1>4, <1>5, <1>6, <1>7 DEF Next
----------------------------------------------------------------------------
(* The clients and the store                                                *)

(* Every step of a client is a step of the store or leaves it alone. *)
LEMMA StoreStep == ClientTypes /\ [Next]_vars => [StoreNext]_storeVars
<1> SUFFICES ASSUME ClientTypes, [Next]_vars PROVE [StoreNext]_storeVars
  OBVIOUS
<1>1. ASSUME NEW p \in Process, WritePayload(p) PROVE StoreNext
  <2>1. PICK a \in CandidatePayload \cup Score : CallWrite(p, a)
    BY <1>1 DEF WritePayload
  <2>2. a \in Artifact
    BY <2>1, PayloadKinds
  <2> QED BY <2>1, <2>2 DEF StoreNext
<1>2. ASSUME NEW p \in Process, NEW a, Build(p, a),
             a \in Withhold \cup Readiness \cup Advisory
      PROVE  StoreNext
  <2>1. CallWrite(p, a) /\ a \in Artifact
    BY <1>2, PayloadKinds DEF Build
  <2> QED BY <2>1 DEF StoreNext
<1>3. ASSUME NEW p \in Process, BuildWithhold(p) PROVE StoreNext
  <2>1. Build(p, [kind |-> "withhold", cand |-> task[p].cand, at |-> clock + 1])
    BY <1>3 DEF BuildWithhold
  <2>2. clock < MaxClock /\ task[p].kind = "withhold"
    BY <1>3, <2>1 DEF BuildWithhold, Build
  <2> QED BY <1>2, <2>1, <2>2, BuiltTypes
<1>4. ASSUME NEW p \in Process, BuildReadiness(p) PROVE StoreNext
  <2>1. PICK v \in {"ready", "risk"} :
            Build(p, [kind |-> "readiness", cand |-> task[p].cand,
                      search |-> task[p].search, heldout |-> task[p].heldout,
                      value |-> v, at |-> clock + 1])
    BY <1>4 DEF BuildReadiness
  <2>2. clock < MaxClock /\ task[p].kind = "assess"
    BY <1>4, <2>1 DEF BuildReadiness, Build
  <2> QED BY <1>2, <2>1, <2>2, BuiltTypes
<1>5. ASSUME NEW p \in Process, BuildAdvisory(p) PROVE StoreNext
  <2>1. Build(p, [kind |-> "advisory", cand |-> task[p].cand,
                  ref |-> task[p].ref, at |-> clock + 1])
    BY <1>5 DEF BuildAdvisory
  <2>2. clock < MaxClock /\ task[p].kind = "advise"
    BY <1>5, <2>1 DEF BuildAdvisory, Build
  <2> QED BY <1>2, <2>1, <2>2, BuiltTypes
<1>6. ASSUME NEW p \in Process, InStore(p) \/ Return(p) PROVE StoreNext
  BY <1>6 DEF InStore, Return, StoreNext
<1>7. CASE UNCHANGED storeVars
  BY <1>7
<1> QED
  BY <1>1, <1>3, <1>4, <1>5, <1>6, <1>7 DEF Next, vars, Ask, ReturnExisting,
     FindNothing, AssessmentRaises, AdvisoryRaises

(* At first no client is in a call.                                         *)
LEMMA ClientTypesInit == Init => ClientTypes
  BY CallTypes, SignalConstants DEF Init, ClientTypes

(* The variables of the clients have their types at all times.              *)
LEMMA ClientsTyped == Spec => []ClientTypes
  BY ClientTypesInit, ClientTypesStep, PTL DEF Spec

(* Every behaviour of the harness is a behaviour of the store, so what is   *)
(* proved of the store alone holds of the harness.                          *)
THEOREM StoreUsed == Spec => UsesStore
<1>1. Init => StoreInit
  BY DEF Init
<1> QED
  BY <1>1, StoreStep, ClientsTyped, PTL DEF Spec, UsesStore, StoreSpec

(* Under the harness too, nothing stored is overwritten, only what was cut  *)
(* off is missing from the index, and the index is an append-only list.     *)
THEOREM StorePromisesKept ==
    Spec => NothingOverwritten /\ []OnlyCutOffIsHidden
                /\ ImplementsAppendOnlyIndex
<1>1. Spec => StoreSpec
  BY StoreUsed DEF UsesStore
<1> QED
  BY <1>1, NeverOverwritten, HiddenWereCutOff, IndexIsAppendOnly

(* Calls and payloads in hand, files and index have their types.            *)
THEOREM TypeCorrect == Spec => []TypeOK
<1>1. Spec => []StoreInv
  BY StoreUsed, StoreInvariance DEF UsesStore
<1>2. StoreInv /\ ClientTypes => TypeOK
  BY DEF StoreInv, ClientTypes, TypeOK
<1> QED BY <1>1, <1>2, ClientsTyped, PTL
----------------------------------------------------------------------------
(* What the store leaves alone or lets grow                                 *)

Base == StoreInv /\ ClientTypes

(* Files and lines stay; what can be read of the index stays readable, or   *)
(* every scan of it raises.                                                 *)
LEMMA StoreGrows ==
    ASSUME Base, [Next]_vars
    PROVE  /\ files \subseteq files'
           /\ \A a : Indexed(a) => Indexed(a)'
           /\ \A i \in ReadableLines :
                  ScanRaises' \/ (i \in ReadableLines' /\ index'[i] = index[i])
           /\ ScanRaises => ScanRaises'
<1>1. StoreInv /\ [StoreNext]_storeVars
  BY StoreStep DEF Base
<1>2. files \subseteq files'
  BY <1>1, FilesGrow DEF StoreInv
<1>3. Lines \subseteq Lines' /\ \A i \in Lines : index'[i] = index[i]
  <2>1. CASE UNCHANGED index
    BY <2>1 DEF Lines
  <2>2. ASSUME NEW p \in Process, writing[p] \in Artifact,
               index' = Append(index, writing[p])
        PROVE  Lines \subseteq Lines' /\ \A i \in Lines : index'[i] = index[i]
    <3>1. index \in Seq(Artifact)
      BY <1>1 DEF StoreInv, StoreTypeOK
    <3> QED BY <2>2, <3>1, AppendedLines DEF Lines
  <2> QED BY <1>1, <2>1, <2>2, IndexStep DEF StoreInv
<1>4. corruptAt' = corruptAt \/ (corruptAt = 0 /\ corruptAt' # 0)
  <2>1. ASSUME NEW p \in Process, AppendTorn(p)
        PROVE  corruptAt' = corruptAt \/ (corruptAt = 0 /\ corruptAt' # 0)
    <3>1. Len(index) + 1 # 0
      BY <1>1 DEF StoreInv, StoreTypeOK
    <3> QED BY <2>1, <3>1 DEF AppendTorn
  <2>2. CASE UNCHANGED corruptAt
    BY <2>2
  <2> QED
    BY <1>1, <2>1, <2>2 DEF StoreNext, storeVars, Work, CallWrite, Acquire,
       Admit, RefuseStored, LockTimeout, ReplaceFile, AppendLine, Die, Leave
<1> QED BY <1>2, <1>3, <1>4 DEF Indexed, ReadableLines, ScanRaises

(* A new file is what a process writes.                                     *)
LEMMA NewFiles ==
    ASSUME Base, [Next]_vars, NEW f \in files', f \notin files
    PROVE  \E p \in Process : /\ writing[p] = f
                              /\ f \in Artifact
                              /\ pc'[p] = "published"
<1>1. StoreTypeOK /\ [StoreNext]_storeVars
  BY StoreStep DEF Base, StoreInv
<1>2. ASSUME NEW p \in Process, ReplaceFile(p)
      PROVE  writing[p] = f /\ f \in Artifact /\ pc'[p] = "published"
  BY <1>1, <1>2 DEF ReplaceFile, StoreTypeOK, Goto
<1> QED
  BY <1>1, <1>2 DEF StoreNext, storeVars, Work, CallWrite, Acquire, Admit,
     RefuseStored, LockTimeout, AppendLine, AppendTorn, Die, Leave

(* What a process writes is what it wrote, nothing, or just chosen.         *)
LEMMA NewWriting ==
    ASSUME Base, [Next]_vars, NEW q \in Process
    PROVE  \/ writing'[q] = writing[q]
           \/ writing'[q] = NoArtifact
           \/ WritePayload(q) /\ writing'[q] \in CandidatePayload \cup Score
           \/ BuildWithhold(q) \/ BuildReadiness(q) \/ BuildAdvisory(q)
<1> USE DEF Base, StoreInv, StoreTypeOK
<1>1. ASSUME NEW p \in Process, WritePayload(p)
      PROVE  \/ writing'[q] = writing[q]
             \/ WritePayload(q) /\ writing'[q] \in CandidatePayload \cup Score
  BY <1>1 DEF WritePayload, CallWrite
<1>2. ASSUME NEW p \in Process, p # q,
             BuildWithhold(p) \/ BuildReadiness(p) \/ BuildAdvisory(p)
      PROVE  writing'[q] = writing[q]
  BY <1>2 DEF BuildWithhold, BuildReadiness, BuildAdvisory, Build, CallWrite
<1>3. ASSUME NEW p \in Process, InStore(p) PROVE writing'[q] = writing[q]
  BY <1>3 DEF InStore, Work, Acquire, Admit, RefuseStored, LockTimeout,
     ReplaceFile, AppendLine, AppendTorn, Die
<1>4. ASSUME NEW p \in Process, Return(p)
      PROVE  writing'[q] = writing[q] \/ writing'[q] = NoArtifact
  BY <1>4 DEF Return, Leave
<1>5. CASE UNCHANGED storeVars
  BY <1>5 DEF storeVars
<1> QED
  BY <1>1, <1>2, <1>3, <1>4, <1>5 DEF Next, vars, Ask, ReturnExisting,
     FindNothing, AssessmentRaises, AdvisoryRaises

----------------------------------------------------------------------------
(* Ready signals                                                            *)

(* A payload that says "ready" says so on recorded scores. *)
RestsOnRecords(a) ==
    a.kind = "readiness" /\ a.value = "ready" =>
        /\ a.search.set # a.heldout.set
        /\ \E v \in Variant : Indexed([kind |-> "candidate",
                                       cand |-> a.cand, variant |-> v])
        /\ \A run \in {a.search, a.heldout} :
               Indexed([kind |-> "score", cand |-> a.cand, eval |-> run])

ReadyInv ==
    /\ \A a \in files : RestsOnRecords(a)
    /\ \A p \in Process : writing[p] \in Artifact => RestsOnRecords(writing[p])

(* A line that says "candidate" is a candidate.                             *)
LEMMA CandidateLine ==
    ASSUME NEW a \in Artifact, a.kind = "candidate"
    PROVE  \E v \in Variant :
               a = [kind |-> "candidate", cand |-> a.cand, variant |-> v]
<1>1. a \in CandidatePayload
  BY PayloadKinds DEF Score, CandidatePayload, Withhold, Readiness, Advisory
<1> QED BY <1>1 DEF CandidatePayload

(* A readiness signal built as "ready" was checked against records in the   *)
(* index.                                                                   *)
LEMMA ReadyWasChecked ==
    ASSUME Base, NEW p \in Process, BuildReadiness(p)
    PROVE  RestsOnRecords(writing'[p])
<1> DEFINE t == task[p]
<1>1. PICK v \in {"ready", "risk"} :
          /\ v = "ready" => ChecksPass(t)
          /\ writing'[p] = [kind |-> "readiness", cand |-> t.cand,
                            search |-> t.search, heldout |-> t.heldout,
                            value |-> v, at |-> clock + 1]
  BY DEF BuildReadiness, Build, CallWrite, Base, StoreInv, StoreTypeOK
<1>2. index \in Seq(Artifact)
  BY DEF Base, StoreInv, StoreTypeOK
<1>3. ASSUME ChecksPass(t)
      PROVE  \E w \in Variant : Indexed([kind |-> "candidate", cand |-> t.cand,
                                         variant |-> w])
  <2>1. PICK i \in Lines : index[i].kind = "candidate" /\ index[i].cand = t.cand
    BY <1>3 DEF ChecksPass, AdmittedCandidate, ReadableLines
  <2>2. index[i] \in Artifact
    BY <1>2, <2>1 DEF Lines
  <2> QED BY <2>1, <2>2, CandidateLine DEF Indexed
<1>4. ASSUME ChecksPass(t), NEW run \in {t.search, t.heldout}
      PROVE  Indexed([kind |-> "score", cand |-> t.cand, eval |-> run])
  BY <1>4 DEF ChecksPass, AdmittedScore, ReadableLines, Indexed
<1>5. ChecksPass(t) => t.search.set # t.heldout.set
  BY DEF ChecksPass
<1> QED BY <1>1, <1>3, <1>4, <1>5 DEF RestsOnRecords

(* No step stores or writes a ready signal without its records.             *)
LEMMA ReadyInvStep == Base /\ ReadyInv /\ [Next]_vars => ReadyInv'
<1> SUFFICES ASSUME Base, ReadyInv, [Next]_vars PROVE ReadyInv'
  OBVIOUS
<1>1. ASSUME NEW a, RestsOnRecords(a) PROVE RestsOnRecords(a)'
  BY <1>1, StoreGrows DEF RestsOnRecords
<1>2. ASSUME NEW a \in files' PROVE RestsOnRecords(a)'
  BY <1>1, NewFiles DEF ReadyInv
<1>3. ASSUME NEW q \in Process, NEW a \in Artifact, a = writing'[q]
      PROVE  RestsOnRecords(a)'
  <2>1. CASE a = writing[q]
    BY <1>1, <2>1 DEF ReadyInv
  <2>2. CASE writing'[q] = NoArtifact
    BY <1>3, <2>2, PayloadKinds
  <2>3. CASE writing'[q] \in CandidatePayload \cup Score
    BY <1>3, <2>3 DEF RestsOnRecords, CandidatePayload, Score
  <2>4. CASE BuildWithhold(q)
    <3>1. a.kind = "withhold"
      BY <1>3, <2>4 DEF BuildWithhold, Build, CallWrite, Base, StoreInv,
         StoreTypeOK
    <3> QED BY <3>1 DEF RestsOnRecords
  <2>5. CASE BuildReadiness(q)
    <3>1. RestsOnRecords(a)
      BY <1>3, <2>5, ReadyWasChecked
    <3> QED BY <1>1, <3>1
  <2>6. CASE BuildAdvisory(q)
    <3>1. a.kind = "advisory"
      BY <1>3, <2>6 DEF BuildAdvisory, Build, CallWrite, Base, StoreInv,
         StoreTypeOK
    <3> QED BY <3>1 DEF RestsOnRecords
  <2> QED BY <1>3, <2>1, <2>2, <2>3, <2>4, <2>5, <2>6, NewWriting
<1> QED BY <1>2, <1>3 DEF ReadyInv, RestsOnRecords, Indexed, Lines

----------------------------------------------------------------------------
(* Advisories                                                               *)

AdvisoryInv ==
    /\ AdvisoriesResolve
    /\ \A p \in Process :
           writing[p] \in Advisory => Referred(writing[p].ref) # {}

(* No step stores or writes an advisory whose signal cannot be read.        *)
LEMMA AdvisoryInvStep == Base /\ AdvisoryInv /\ [Next]_vars => AdvisoryInv'
<1> SUFFICES ASSUME Base, AdvisoryInv, [Next]_vars PROVE AdvisoryInv'
  OBVIOUS
<1>1. ASSUME NEW r, Referred(r) # {} PROVE Referred(r)' # {}
  BY <1>1, StoreGrows DEF Referred
<1>2. ASSUME NEW a \in files', a.kind = "advisory" PROVE Referred(a.ref)' # {}
  <2>1. CASE a \in files
    BY <1>1, <1>2, <2>1 DEF AdvisoryInv, AdvisoriesResolve
  <2>2. CASE a \notin files
    <3>1. PICK p \in Process : writing[p] = a /\ a \in Artifact
      BY <2>2, NewFiles
    <3>2. a \in Advisory
      BY <1>2, <3>1, PayloadKinds DEF Score, CandidatePayload, Withhold,
         Readiness
    <3> QED BY <1>1, <3>1, <3>2 DEF AdvisoryInv
  <2> QED BY <2>1, <2>2
<1>3. ASSUME NEW q \in Process, NEW a \in Advisory, a = writing'[q]
      PROVE  Referred(a.ref)' # {}
  <2>1. CASE a = writing[q]
    BY <1>1, <2>1 DEF AdvisoryInv
  <2>2. CASE writing'[q] = NoArtifact
    BY <1>3, <2>2, PayloadKinds
  <2>3. CASE writing'[q] \in CandidatePayload \cup Score
    BY <1>3, <2>3 DEF Advisory, CandidatePayload, Score
  <2>4. CASE BuildWithhold(q) \/ BuildReadiness(q)
    <3>1. a.kind \in {"withhold", "readiness"}
      BY <1>3, <2>4 DEF BuildWithhold, BuildReadiness, Build, CallWrite, Base,
         StoreInv, StoreTypeOK
    <3> QED BY <3>1 DEF Advisory
  <2>5. CASE BuildAdvisory(q)
    <3>1. a.ref = task[q].ref
      BY <1>3, <2>5 DEF BuildAdvisory, Build, CallWrite, Base, StoreInv,
         StoreTypeOK
    <3>2. Referred(task[q].ref) # {}
      BY <2>5 DEF BuildAdvisory
    <3> QED BY <1>1, <3>1, <3>2
  <2> QED BY <1>3, <2>1, <2>2, <2>3, <2>4, <2>5, NewWriting
<1> QED BY <1>2, <1>3 DEF AdvisoryInv, AdvisoriesResolve, Referred
----------------------------------------------------------------------------
(* Withheld candidates                                                      *)

(* One step of a process. *)
Act(p) ==
    \/ WritePayload(p) \/ Ask(p)
    \/ ReturnExisting(p) \/ FindNothing(p)
    \/ BuildWithhold(p) \/ BuildReadiness(p) \/ AssessmentRaises(p)
    \/ BuildAdvisory(p) \/ AdvisoryRaises(p)
    \/ InStore(p) \/ Return(p)

(* A step is a process acting, or a stutter.                                *)
LEMMA SomeoneActs ==
    ASSUME [Next]_vars PROVE (\E p \in Process : Act(p)) \/ UNCHANGED vars
  BY DEF Next, Act

(* A process changes nothing of another's. *)
LEMMA OthersUntouched ==
    ASSUME Base, NEW p \in Process, Act(p), NEW q \in Process, q # p
    PROVE  /\ pc'[q] = pc[q] /\ writing'[q] = writing[q]
           /\ task'[q] = task[q] /\ stage'[q] = stage[q]
<1> USE DEF Base, StoreInv, StoreTypeOK, ClientTypes, Goto
<1>1. CASE WritePayload(p)
  BY <1>1 DEF WritePayload, Begin, CallWrite
<1>2. CASE Ask(p)
  BY <1>2 DEF Ask, Begin, storeVars
<1>3. CASE ReturnExisting(p) \/ AssessmentRaises(p) \/ AdvisoryRaises(p)
  BY <1>3 DEF ReturnExisting, AssessmentRaises, AdvisoryRaises, Finish,
     storeVars
<1>4. CASE FindNothing(p)
  BY <1>4 DEF FindNothing, Finish, storeVars
<1>5. CASE BuildWithhold(p) \/ BuildReadiness(p) \/ BuildAdvisory(p)
  BY <1>5 DEF BuildWithhold, BuildReadiness, BuildAdvisory, Build, CallWrite
<1>6. CASE InStore(p)
  BY <1>6 DEF InStore, clientVars, Work, Acquire, Admit, RefuseStored,
     LockTimeout, ReplaceFile, AppendLine, AppendTorn, Die
<1>7. CASE Return(p)
  BY <1>7 DEF Return, Leave, Finish
<1> QED BY <1>1, <1>2, <1>3, <1>4, <1>5, <1>6, <1>7 DEF Act

(* Whoever starts to wait has just called write_artifact. *)
LEMMA WaitingBefore ==
    ASSUME Base, [Next]_vars, NEW q \in Process, pc'[q] = "waiting"
    PROVE  pc[q] \in {"idle", "waiting"}
<1>1. StoreTypeOK /\ [StoreNext]_storeVars
  BY StoreStep DEF Base, StoreInv
<1> QED
  BY <1>1 DEF StoreTypeOK, StoreNext, storeVars, Work, CallWrite, Acquire,
     Admit, RefuseStored, LockTimeout, ReplaceFile, AppendLine, AppendTorn,
     Die, Leave, Goto

(* Time does not run backwards. *)
LEMMA ClockGrows ==
    ASSUME Base, [Next]_vars
    PROVE  clock \in Nat /\ clock' \in Nat /\ clock <= clock'
<1>1. clock \in 0..MaxClock /\ MaxClock \in Nat
  BY SignalConstants DEF Base, ClientTypes
<1>2. clock' = clock \/ clock' = clock + 1
  BY DEF Next, vars, clientVars, WritePayload, Ask, ReturnExisting, FindNothing,
     BuildWithhold, BuildReadiness, AssessmentRaises, BuildAdvisory, Build,
     AdvisoryRaises, InStore, Return
<1> QED BY <1>1, <1>2

(* A withhold signal carries the time it was built: no two processes write  *)
(* one, and one that is stored while its writer waits is indexed.           *)
WithholdsFresh ==
    /\ \A f \in files \cap Withhold : f.at <= clock \/ Indexed(f)
    /\ \A p \in Process : writing[p] \in Withhold =>
           /\ writing[p].at <= clock
           /\ pc[p] = "waiting" /\ writing[p] \in files => Indexed(writing[p])
    /\ \A p, q \in Process :
           writing[p] \in Withhold /\ writing[p] = writing[q] => p = q

(* A withhold signal in hand is an old one or was built in this step.       *)
LEMMA NewWithhold ==
    ASSUME Base, [Next]_vars, NEW q \in Process, NEW w \in Withhold,
           w = writing'[q]
    PROVE  \/ w = writing[q]
           \/ /\ BuildWithhold(q)
              /\ w.at = clock + 1
              /\ clock' = clock + 1
              /\ files' = files
<1>1. CASE writing'[q] = NoArtifact
  BY <1>1, PayloadKinds
<1>2. CASE writing'[q] \in CandidatePayload \cup Score
  BY <1>2 DEF Withhold, CandidatePayload, Score
<1>3. CASE BuildReadiness(q) \/ BuildAdvisory(q)
  <2>1. w.kind \in {"readiness", "advisory"}
    BY <1>3 DEF BuildReadiness, BuildAdvisory, Build, CallWrite, Base,
       StoreInv, StoreTypeOK
  <2> QED BY <2>1 DEF Withhold
<1>4. CASE BuildWithhold(q)
  BY <1>4 DEF BuildWithhold, Build, CallWrite, Base, StoreInv, StoreTypeOK
<1> QED BY <1>1, <1>2, <1>3, <1>4, NewWriting

(* No step makes two processes write one withhold signal, or stores one a   *)
(* process still waits to write.                                            *)
LEMMA WithholdsFreshStep ==
    ASSUME Base, WithholdsFresh, [Next]_vars PROVE WithholdsFresh'
<1>1. /\ \A a : Indexed(a) => Indexed(a)'
      /\ clock \in Nat /\ clock' \in Nat /\ clock <= clock'
  BY StoreGrows, ClockGrows
<1>2. \A w \in Withhold : w.at \in Nat
  BY SignalConstants DEF Withhold
<1>3. ASSUME NEW f \in files' \cap Withhold
      PROVE  f.at <= clock' \/ Indexed(f)'
  <2>1. f.at <= clock \/ Indexed(f)
    BY NewFiles DEF WithholdsFresh
  <2> QED BY <1>1, <1>2, <2>1
<1>4. ASSUME NEW q \in Process, NEW w \in Withhold, w = writing'[q]
      PROVE  w.at <= clock'
  <2>1. CASE w = writing[q]
    BY <1>1, <1>2, <2>1 DEF WithholdsFresh
  <2>2. CASE w.at = clock + 1 /\ clock' = clock + 1
    BY <1>1, <2>2
  <2> QED BY <1>4, <2>1, <2>2, NewWithhold
<1>5. ASSUME NEW q \in Process, NEW w \in Withhold, w = writing'[q],
             pc'[q] = "waiting", w \in files'
      PROVE  Indexed(w)'
  <2>1. CASE w = writing[q]
    <3>1. w # NoArtifact
      BY <1>5, PayloadKinds
    <3>2. pc[q] = "waiting"
      BY <1>5, <2>1, <3>1, WaitingBefore DEF Base, StoreInv, StoreTypeOK
    <3>3. CASE w \in files
      BY <1>1, <2>1, <3>2, <3>3 DEF WithholdsFresh
    <3>4. CASE w \notin files
      <4>1. PICK p \in Process : writing[p] = w /\ pc'[p] = "published"
        BY <1>5, <3>4, NewFiles
      <4>2. p = q
        BY <2>1, <4>1 DEF WithholdsFresh
      <4> QED BY <1>5, <4>1, <4>2
    <3> QED BY <3>3, <3>4
  <2>2. CASE w.at = clock + 1 /\ files' = files
    <3>1. ~(w.at <= clock) /\ w \in files
      BY <1>1, <1>5, <2>2
    <3> QED BY <1>1, <3>1 DEF WithholdsFresh
  <2> QED BY <1>5, <2>1, <2>2, NewWithhold
<1>6. ASSUME NEW p \in Process, NEW q \in Process, NEW w \in Withhold,
             w = writing'[p], w = writing'[q], p # q
      PROVE  FALSE
  <2>1. ASSUME NEW r \in Process, NEW t \in Process, r # t, BuildWithhold(r),
               w = writing'[t], w.at = clock + 1
        PROVE  FALSE
    <3>1. w = writing[t]
      BY <2>1, OthersUntouched DEF Act
    <3>2. w.at <= clock
      BY <2>1, <3>1 DEF WithholdsFresh
    <3> QED BY <1>1, <2>1, <3>2
  <2>2. CASE w = writing[p] /\ w = writing[q]
    BY <1>6, <2>2 DEF WithholdsFresh
  <2> QED BY <1>6, <2>1, <2>2, NewWithhold
<1> QED BY <1>3, <1>4, <1>5, <1>6 DEF WithholdsFresh, Indexed, Lines

(* A search for withhold signals of c finds one or raises. *)
WithholdSeen(c) ==
    \/ ScanRaises
    \/ \E i \in ReadableLines : index[i].kind = "withhold" /\ index[i].cand = c

(* What a withhold call writes, and what it has done when it returns. *)
WithholdKept(p) ==
    /\ writing[p] \in Withhold
    /\ writing[p].cand = task[p].cand
    /\ pc[p] = "returned" => WithholdSeen(task[p].cand)

WithheldInv ==
    /\ \A c \in withheld : WithholdSeen(c)
    /\ \A p \in Process :
           stage[p] = "write" /\ task[p].kind = "withhold" => WithholdKept(p)
    /\ \A p \in Process :
           task[p].kind = "assess" =>
               (task[p].late => task[p].cand \in withheld)
    /\ NoNewReadyOnceWithheld

(* A withhold signal that was seen stays seen, or the search raises. *)
LEMMA SeenStays ==
    ASSUME Base, [Next]_vars, NEW c, WithholdSeen(c) PROVE WithholdSeen(c)'
<1>1. CASE ScanRaises
  BY <1>1, StoreGrows DEF WithholdSeen
<1>2. ASSUME NEW i \in ReadableLines, index[i].kind = "withhold",
             index[i].cand = c
      PROVE  WithholdSeen(c)'
  BY <1>2, StoreGrows DEF WithholdSeen
<1> QED BY <1>1, <1>2 DEF WithholdSeen

(* A line is read, or the search raises before it. *)
LEMMA IndexedSeen ==
    ASSUME NEW w \in Withhold, Indexed(w)
    PROVE  WithholdSeen(w.cand)
<1>1. PICK i \in Lines : index[i] = w
  BY DEF Indexed
<1>2. w.kind = "withhold"
  BY DEF Withhold
<1> QED BY <1>1, <1>2 DEF WithholdSeen, ReadableLines, ScanRaises

(* A call of write_artifact that returns a withhold signal leaves it where  *)
(* a search finds it, or an index that no search reads to its end.          *)
LEMMA ReturnedSeen ==
    ASSUME Base, WithholdsFresh, NEW p \in Process, InStore(p),
           NEW w \in Withhold, w = writing[p], pc'[p] = "returned"
    PROVE  pc[p] = "returned" \/ WithholdSeen(w.cand)'
<1> USE DEF Base, StoreInv, StoreTypeOK, Goto
<1>1. CASE Acquire(p)
  <2>1. /\ w \in files /\ pc[p] = "waiting"
        /\ UNCHANGED <<index, corruptAt>>
    BY <1>1 DEF Acquire, Admit, RefuseStored
  <2>2. WithholdSeen(w.cand)
    BY <2>1, IndexedSeen DEF WithholdsFresh
  <2> QED BY <2>1, <2>2 DEF WithholdSeen, ReadableLines, ScanRaises, Lines
<1>2. CASE AppendLine(p)
  <2>1. CASE ragged
    BY <1>2, <2>1 DEF AppendLine, RaggedCorrupt, WithholdSeen, ScanRaises
  <2>2. CASE ~ragged
    <3>1. index' = Append(index, w)
      BY <1>2, <2>2 DEF AppendLine
    <3>2. Len(index) + 1 \in Lines' /\ index'[Len(index) + 1] = w
      BY <3>1 DEF Lines
    <3>3. w.kind = "withhold"
      BY DEF Withhold
    <3> QED BY <3>2, <3>3 DEF WithholdSeen, ReadableLines, ScanRaises
  <2> QED BY <2>1, <2>2
<1>3. CASE LockTimeout(p) \/ ReplaceFile(p) \/ AppendTorn(p) \/ Die(p)
  BY <1>3 DEF LockTimeout, ReplaceFile, AppendTorn, Die
<1> QED BY <1>1, <1>2, <1>3 DEF InStore, Work

(* An assessment of a withheld candidate does not answer "ready". *)
LEMMA LateIsRisk ==
    ASSUME Base, WithheldInv, NEW p \in Process, BuildReadiness(p), task[p].late
    PROVE  writing'[p].value = "risk"
<1> DEFINE t == task[p]
<1>1. PICK v \in {"ready", "risk"} :
          /\ v = "ready" => ChecksPass(t)
          /\ writing'[p] = [kind |-> "readiness", cand |-> t.cand,
                            search |-> t.search, heldout |-> t.heldout,
                            value |-> v, at |-> clock + 1]
  BY DEF BuildReadiness, Build, CallWrite, Base, StoreInv, StoreTypeOK
<1>2. WithholdSeen(t.cand) /\ ~SearchRaises(t)
  BY DEF BuildReadiness, WithheldInv
<1>3. ~NotWithheld(t)
  BY <1>2 DEF WithholdSeen, NotWithheld, SearchRaises
<1> QED BY <1>1, <1>3 DEF ChecksPass
(* A candidate whose withhold call returns now was seen to be withheld.     *)
LEMMA WithheldSeenStep ==
    ASSUME Base, WithheldInv, [Next]_vars, NEW c \in withheld'
    PROVE  WithholdSeen(c)'
<1>1. CASE c \in withheld
  BY <1>1, SeenStays DEF WithheldInv
<1>2. ASSUME c \notin withheld, NEW p \in Process, Act(p)
      PROVE  WithholdSeen(c)
  <2>1. task[p].kind = "withhold" /\ c = task[p].cand
    BY <1>2 DEF Act, WritePayload, Ask, ReturnExisting, FindNothing, Finish,
       BuildWithhold, BuildReadiness, AssessmentRaises, BuildAdvisory, Build,
       AdvisoryRaises, InStore, clientVars, Return
  <2>2. CASE ReturnExisting(p)
    <3>1. PICK i \in ReadableLines : Answers(index[i], task[p])
      BY <2>2 DEF ReturnExisting, Existing
    <3> QED BY <2>1, <3>1 DEF Answers, WithholdSeen
  <2>3. CASE Return(p) /\ pc[p] = "returned"
    BY <2>1, <2>3 DEF Return, WithheldInv, WithholdKept
  <2> QED
    BY <1>2, <2>2, <2>3 DEF Act, WritePayload, Ask, FindNothing, Finish,
       BuildWithhold, BuildReadiness, AssessmentRaises, BuildAdvisory, Build,
       AdvisoryRaises, InStore, clientVars, Return
<1>3. UNCHANGED vars => c \in withheld
  BY DEF vars, clientVars
<1> QED BY <1>1, <1>2, <1>3, SomeoneActs, SeenStays

(* Withheld candidates stay withheld.                                       *)
LEMMA WithheldGrows == ASSUME [Next]_vars PROVE withheld \subseteq withheld'
  BY DEF Next, vars, clientVars, WritePayload, Ask, ReturnExisting, FindNothing,
     Finish, BuildWithhold, BuildReadiness, AssessmentRaises, BuildAdvisory,
     Build, AdvisoryRaises, InStore, Return

(* What a step leaves a process with in hand.                               *)
WithheldOf(p) ==
    /\ stage[p] = "write" /\ task[p].kind = "withhold" => WithholdKept(p)
    /\ task[p].kind = "assess" =>
           (task[p].late => task[p].cand \in withheld)
    /\ stage[p] = "write" /\ task[p].kind = "assess" /\ task[p].late =>
           writing[p].value = "risk"

(* What a process has in hand stays true when others act.                   *)
LEMMA SameHand ==
    ASSUME Base, WithheldInv, [Next]_vars, NEW q \in Process,
           pc'[q] = pc[q], writing'[q] = writing[q], task'[q] = task[q],
           stage'[q] = stage[q]
    PROVE  WithheldOf(q)'
<1>1. \A c : WithholdSeen(c) => WithholdSeen(c)'
  BY SeenStays
<1>2. ASSUME stage[q] = "write", task[q].kind = "withhold"
      PROVE  /\ writing[q] \in Withhold /\ writing[q].cand = task[q].cand
             /\ pc[q] = "returned" => WithholdSeen(task[q].cand)
  BY <1>2 DEF WithheldInv, WithholdKept
<1>3. ASSUME NEW d, d = task[q].cand, WithholdSeen(d)
      PROVE  WithholdSeen(d)'
  BY <1>1, <1>3
<1>4. ASSUME stage'[q] = "write", task'[q].kind = "withhold",
             NEW d, d = task'[q].cand
      PROVE  /\ writing'[q] \in Withhold /\ writing'[q].cand = d
             /\ pc'[q] = "returned" => WithholdSeen(d)'
  BY <1>2, <1>3, <1>4
<1>5. (stage[q] = "write" /\ task[q].kind = "withhold" => WithholdKept(q))'
  BY <1>4 DEF WithholdKept, WithholdSeen, ScanRaises, ReadableLines, Lines
<1>6. (task[q].kind = "assess" => (task[q].late => task[q].cand \in withheld))'
  BY WithheldGrows DEF WithheldInv
<1>7. (stage[q] = "write" /\ task[q].kind = "assess" /\ task[q].late =>
           writing[q].value = "risk")'
  BY DEF WithheldInv, NoNewReadyOnceWithheld
<1> QED BY <1>5, <1>6, <1>7 DEF WithheldOf
(* What the process that acts has in hand afterwards.                       *)
LEMMA OwnHand ==
    ASSUME Base, WithholdsFresh, WithheldInv, NEW p \in Process, Act(p)
    PROVE  WithheldOf(p)'
<1>1. [Next]_vars
  BY DEF Act, Next
<1>a. /\ task \in [Process -> Calls]
      /\ stage \in [Process -> {"rest", "look", "build", "write"}]
      /\ pc \in [Process -> Labels]
      /\ writing \in [Process -> Artifact \cup {NoArtifact}]
  BY DEF Base, StoreInv, StoreTypeOK, ClientTypes
<1>2. CASE WritePayload(p)
  <2>1. task'[p].kind = "write"
    BY <1>a, <1>2 DEF WritePayload, Begin, Write
  <2> QED BY <2>1 DEF WithheldOf
<1>3. CASE Ask(p)
  <2>1. stage'[p] = "look" /\ withheld' = withheld
    BY <1>a, <1>3 DEF Ask
  <2>2. ASSUME task'[p].kind = "assess", task'[p].late
        PROVE  task'[p].cand \in withheld
    <3>1. PICK u : /\ task'[p] = u
                   /\ \E c \in Candidate :
                          \/ u = WithholdCall(c)
                          \/ \E pair \in Comparison :
                                 u = AssessCall(c, pair[1], pair[2])
                          \/ \E r \in 1..MaxClock : u = AdviseCall(c, r)
      BY <1>a, <1>3 DEF Ask, Begin
    <3>2. PICK c, s, d : u = AssessCall(c, s, d)
      BY <2>2, <3>1 DEF WithholdCall, AdviseCall
    <3>3. u.cand = c /\ u.late = (c \in withheld)
      BY <3>2, Zenon DEF AssessCall
    <3> QED BY <2>2, <3>1, <3>3
  <2> QED BY <2>1, <2>2 DEF WithheldOf
<1>4. CASE \E b \in BOOLEAN : Finish(p, b)
  <2>1. task'[p].kind = "none" /\ stage'[p] = "rest"
    BY <1>a, <1>4 DEF Finish, NoCall
  <2> QED BY <2>1 DEF WithheldOf
<1>5. CASE FindNothing(p) /\ ScanRaises = FALSE
  <2>1. stage'[p] = "build" /\ task' = task
    BY <1>a, <1>5 DEF FindNothing
  <2> QED BY <1>1, <2>1, WithheldGrows DEF WithheldOf, WithheldInv
<1>6. CASE BuildWithhold(p)
  <2>1. task' = task /\ task[p].kind = "withhold" /\ clock < MaxClock
    BY <1>6 DEF BuildWithhold, Build
  <2>2. /\ writing'[p] = [kind |-> "withhold", cand |-> task[p].cand,
                          at |-> clock + 1]
        /\ pc'[p] = "waiting"
    BY <1>a, <1>6 DEF BuildWithhold, Build, CallWrite, Goto
  <2>3. ClientTypes
    BY DEF Base
  <2>4. writing'[p] \in Withhold
    BY <2>1, <2>2, <2>3, BuiltTypes
  <2> QED BY <2>1, <2>2, <2>4 DEF WithheldOf, WithholdKept
<1>7. CASE BuildReadiness(p)
  <2>1. task' = task /\ task[p].kind = "assess"
    BY <1>7 DEF BuildReadiness, Build
  <2>2. task[p].late => writing'[p].value = "risk"
    BY <1>7, LateIsRisk
  <2> QED BY <1>1, <2>1, <2>2, WithheldGrows DEF WithheldOf, WithheldInv
<1>8. CASE BuildAdvisory(p)
  <2>1. task'[p].kind = "advise"
    BY <1>a, <1>8 DEF BuildAdvisory, Build
  <2> QED BY <2>1 DEF WithheldOf
<1>9. CASE InStore(p)
  <2>1. /\ task' = task /\ stage' = stage /\ withheld' = withheld
        /\ writing' = writing
    BY <1>9 DEF InStore, clientVars, Work, Acquire, Admit, RefuseStored,
       LockTimeout, ReplaceFile, AppendLine, AppendTorn, Die
  <2>2. ASSUME stage[p] = "write", task[p].kind = "withhold",
               NEW c, c = task[p].cand
        PROVE  /\ writing[p] \in Withhold /\ writing[p].cand = c
               /\ pc'[p] = "returned" => WithholdSeen(c)'
    <3>1. /\ writing[p] \in Withhold /\ writing[p].cand = c
          /\ pc[p] = "returned" => WithholdSeen(c)
      BY <2>2 DEF WithheldInv, WithholdKept
    <3>2. WithholdSeen(c) => WithholdSeen(c)'
      BY <1>1, SeenStays
    <3>3. ASSUME NEW w \in Withhold, w = writing[p], pc'[p] = "returned"
          PROVE  pc[p] = "returned" \/ WithholdSeen(w.cand)'
      BY <1>9, <3>3, ReturnedSeen
    <3>4. ASSUME pc'[p] = "returned"
          PROVE  pc[p] = "returned" \/ WithholdSeen(c)'
      BY <3>1, <3>3, <3>4
    <3> QED BY <3>1, <3>2, <3>4
  <2>3. (stage[p] = "write" /\ task[p].kind = "withhold" => WithholdKept(p))'
    BY <2>1, <2>2 DEF WithholdKept, WithholdSeen, ScanRaises, ReadableLines,
       Lines
  <2> QED
    BY <2>1, <2>3 DEF WithheldOf, WithheldInv, NoNewReadyOnceWithheld
<1>10. CASE ReturnExisting(p) \/ AssessmentRaises(p) \/ AdvisoryRaises(p)
             \/ Return(p)
  <2>1. \E b \in BOOLEAN : Finish(p, b)
    BY <1>10 DEF ReturnExisting, AssessmentRaises, AdvisoryRaises, Return
  <2> QED BY <1>4, <2>1
<1>11. CASE FindNothing(p)
  <2>1. Finish(p, FALSE) \/ ScanRaises = FALSE
    BY <1>11 DEF FindNothing, ScanRaises
  <2> QED BY <1>4, <1>5, <1>11, <2>1
<1> QED
  BY <1>2, <1>3, <1>6, <1>7, <1>8, <1>9, <1>10, <1>11 DEF Act

(* No step answers "ready" for a candidate that was withheld before.        *)
LEMMA WithheldInvStep ==
    ASSUME Base, WithholdsFresh, WithheldInv, [Next]_vars PROVE WithheldInv'
<1>1. ASSUME NEW q \in Process PROVE WithheldOf(q)'
  <2>1. CASE UNCHANGED vars
    BY <2>1, SameHand DEF vars, storeVars, clientVars
  <2>2. ASSUME NEW p \in Process, Act(p), p # q PROVE WithheldOf(q)'
    BY <2>2, OthersUntouched, SameHand
  <2> QED BY <2>1, <2>2, OwnHand, SomeoneActs
<1> QED
  BY <1>1, WithheldSeenStep DEF WithheldInv, WithheldOf, NoNewReadyOnceWithheld

----------------------------------------------------------------------------
(* The whole                                                                *)

(* The store's invariant and the clients' types hold at all times.          *)
LEMMA BaseAlways == Spec => []Base
<1>1. Spec => []StoreInv
  BY StoreUsed, StoreInvariance DEF UsesStore
<1> QED BY <1>1, ClientsTyped, PTL DEF Base
(* The store an earlier session left.                                       *)
LEMMA InheritedStore ==
    Init => /\ files = {History[i] : i \in 1..Len(History)}
            /\ \A a : Remembered(a) => Indexed(a)
            /\ \A p \in Process : writing[p] = NoArtifact
            /\ clock = 0 /\ withheld = {}
            /\ \A p \in Process : task[p] = NoCall /\ stage[p] = "rest"
  BY DEF Init, StoreInit, Remembered, Indexed, Lines

(* Earlier sessions left no ready signal without its records ...            *)
LEMMA ReadyInvInit == Init => ReadyInv
<1> SUFFICES ASSUME Init PROVE ReadyInv
  OBVIOUS
<1>1. ASSUME NEW a \in files PROVE RestsOnRecords(a)
  BY HistoryRests, InheritedStore DEF RestsOnRecords
<1>2. \A p \in Process : writing[p] \notin Artifact
  BY InheritedStore, PayloadKinds
<1> QED BY <1>1, <1>2 DEF ReadyInv

(* ... and no advisory without the signal it refers to.                     *)
LEMMA AdvisoryInvInit == Init => AdvisoryInv
<1> SUFFICES ASSUME Init PROVE AdvisoryInv
  OBVIOUS
<1>1. ASSUME NEW a \in files, a.kind = "advisory" PROVE Referred(a.ref) # {}
  <2>1. PICK i \in 1..Len(History) : History[i] = a
    BY InheritedStore
  <2>2. PICK j \in 1..Len(History) :
            History[j].kind = "readiness" /\ History[j].at = a.ref
    BY <1>1, <2>1, HistoryRests
  <2>3. History[j] \in files
    BY InheritedStore
  <2> QED BY <2>2, <2>3 DEF Referred
<1>2. \A p \in Process : writing[p] \notin Advisory
  BY InheritedStore, PayloadKinds
<1> QED BY <1>1, <1>2 DEF AdvisoryInv, AdvisoriesResolve

(* At first nothing is withheld and nobody writes.                          *)
LEMMA WithheldInit == Init => WithholdsFresh /\ WithheldInv
<1> SUFFICES ASSUME Init PROVE WithholdsFresh /\ WithheldInv
  OBVIOUS
<1>1. \A f \in files : Indexed(f)
  <2>1. \A f \in files : Remembered(f)
    BY InheritedStore DEF Remembered
  <2> QED BY <2>1, InheritedStore
<1>2. \A p \in Process : writing[p] \notin Withhold
  BY InheritedStore, PayloadKinds
<1>3. \A p \in Process : task[p].kind = "none" /\ stage[p] = "rest"
  BY InheritedStore DEF NoCall
<1> QED
  BY <1>1, <1>2, <1>3, InheritedStore DEF WithholdsFresh, WithheldInv,
     NoNewReadyOnceWithheld

(* The builder refuses to say "ready" unless the candidate and both scores  *)
(* are recorded: whatever other processes write, tear or leave behind while *)
(* it reads, a stored ready signal rests on indexed records of two          *)
(* different eval sets.                                                     *)
THEOREM ReadyRests == Spec => []ReadyRestsOnRecords
<1>1. ReadyInv => ReadyRestsOnRecords
  BY DEF ReadyInv, ReadyRestsOnRecords, RestsOnRecords
<1> QED BY <1>1, BaseAlways, ReadyInvInit, ReadyInvStep, PTL DEF Spec

(* The control bridge leaves no partial advisory: the readiness signal a    *)
(* stored advisory refers to is stored.                                     *)
THEOREM AdvisoriesKept == Spec => []AdvisoriesResolve
<1>1. AdvisoryInv => AdvisoriesResolve
  BY DEF AdvisoryInv
<1> QED BY <1>1, BaseAlways, AdvisoryInvInit, AdvisoryInvStep, PTL DEF Spec

(* An assessment begun after a candidate's withhold call has returned never *)
(* writes "ready": the withhold signal is found, or the search raises at    *)
(* the line that was torn.                                                  *)
THEOREM WithheldStaysWithheld == Spec => []NoNewReadyOnceWithheld
<1>1. WithheldInv => NoNewReadyOnceWithheld
  BY DEF WithheldInv
<1> QED
  BY <1>1, BaseAlways, WithheldInit, WithholdsFreshStep, WithheldInvStep, PTL
     DEF Spec
----------------------------------------------------------------------------
(* The first answer to a call                                               *)

(* What can be read of the index stays, and what becomes readable comes     *)
(* after it: a torn line hides only what is appended later.                 *)
LEMMA ReadableStays ==
    ASSUME Base, [Next]_vars
    PROVE  /\ \A i \in ReadableLines : i \in ReadableLines' /\ index'[i] = index[i]
           /\ \A i \in ReadableLines, j \in ReadableLines' :
                  j \in ReadableLines \/ i < j
<1>1. StoreTypeOK /\ [StoreNext]_storeVars
  BY StoreStep DEF Base, StoreInv
<1>2. index \in Seq(Artifact) /\ corruptAt \in Nat /\ Len(index) \in Nat
  BY <1>1 DEF StoreTypeOK
<1>3. CASE UNCHANGED <<index, corruptAt>>
  BY <1>3 DEF ReadableLines, Lines
<1>4. ASSUME NEW p \in Process, AppendTorn(p)
      PROVE  /\ UNCHANGED index
             /\ corruptAt' = corruptAt \/ (corruptAt = 0 /\ corruptAt' = Len(index) + 1)
  BY <1>4 DEF AppendTorn
<1>5. CASE UNCHANGED index /\ corruptAt = 0 /\ corruptAt' = Len(index) + 1
  BY <1>2, <1>5 DEF ReadableLines, Lines
<1>6. ASSUME NEW a \in Artifact, index' = Append(index, a), UNCHANGED corruptAt
      PROVE  /\ \A i \in ReadableLines :
                    i \in ReadableLines' /\ index'[i] = index[i]
             /\ \A i \in ReadableLines, j \in ReadableLines' :
                    j \in ReadableLines \/ i < j
  <2>1. /\ Lines' = Lines \cup {Len(index) + 1}
        /\ \A i \in Lines : index'[i] = index[i]
    BY <1>2, <1>6, AppendedLines DEF Lines
  <2> QED BY <1>2, <1>6, <2>1 DEF ReadableLines, Lines
<1>7. ASSUME NEW p \in Process, AppendLine(p)
      PROVE  UNCHANGED corruptAt
  BY <1>7 DEF AppendLine
<1>8. \/ UNCHANGED <<index, corruptAt>>
      \/ \E p \in Process : AppendTorn(p)
      \/ \E p \in Process : AppendLine(p)
  BY <1>1 DEF StoreNext, storeVars, Work, CallWrite, Acquire, Admit,
     RefuseStored, LockTimeout, ReplaceFile, Die, Leave
<1>9. ASSUME NEW p \in Process, AppendLine(p)
      PROVE  UNCHANGED index \/ \E a \in Artifact : index' = Append(index, a)
  BY <1>1, <1>9 DEF AppendLine, StoreTypeOK
<1> QED BY <1>3, <1>4, <1>5, <1>6, <1>7, <1>8, <1>9

(* The first answer to a call is its answer for good: lines are only added  *)
(* after it, and a torn line hides none that was readable.                  *)
THEOREM AnswersKept == Spec => AnswersStay
<1>1. Base /\ [Next]_vars =>
      [\A t \in Questions, i \in ReadableLines :
           IsFirst(i, t) => IsFirst(i, t)' /\ index'[i] = index[i]]_vars
  <2> SUFFICES ASSUME Base, [Next]_vars, NEW t \in Questions,
                      NEW i \in ReadableLines, IsFirst(i, t)
               PROVE  IsFirst(i, t)' /\ index'[i] = index[i]
    OBVIOUS
  <2>1. i \in ReadableLines' /\ index'[i] = index[i] /\ Answers(index[i], t)
    BY ReadableStays DEF IsFirst
  <2>2. ASSUME NEW j \in ReadableLines', Answers(index'[j], t) PROVE i <= j
    <3>1. CASE j \in ReadableLines
      BY <2>2, <3>1, ReadableStays DEF IsFirst
    <3>2. CASE j \notin ReadableLines
      <4>1. i \in Int /\ j \in Int
        BY DEF ReadableLines, Lines
      <4> QED BY <3>2, <4>1, ReadableStays
    <3> QED BY <3>1, <3>2
  <2> QED BY <2>1, <2>2 DEF IsFirst, Answers
<1> QED BY <1>1, BaseAlways, PTL DEF Spec, AnswersStay
===============================================================================
