------------------------- MODULE CycleRunnerProofs --------------------------
(***************************************************************************)
(* Theorems of CycleRunner: types, that a certified cycle rests on a       *)
(* passing record, that the recorded transitions are a path, and that a    *)
(* promoted cycle has its evidence.                                        *)
(***************************************************************************)
EXTENDS CycleRunner, TLAPS

----------------------------------------------------------------------------
(* The call under way and the file: while a call decides, nothing but a     *)
(* blocked state is edited under it.                                        *)
CallInv ==
    /\ pc # "idle" => advice = "none"
    /\ advice # "none" =>
           /\ mode = "legacy"
           /\ advice \in {"roadmap_under_review", "roadmap_approved",
                  "execution_ready", "execution_complete_unreviewed",
                  "implementation_reviews_complete"}
           /\ manifest.state \in DOMAIN Recommended
    /\ pc \in {"decided", "fixing"} => mode = "legacy"
    /\ pc \in {"read", "decided", "fixing"} /\ mem.state # "blocked" =>
           manifest.state = mem.state
    /\ pc = "fixing" => mem.state = "fix_roadmap_ready"
    /\ mode = "three_slice" =>
           {manifest.state, mem.state, prior} \subseteq SequenceStates

(* A cycle once certified stays certified, but for being blocked. *)
Live == Position(manifest) = "certified_done"

CertOK(m) == m.record /\ record = "PASSED" /\ m.cert = "passed"

CertInv ==
    /\ prior = "certified_done" => Live
    /\ Live => CertOK(manifest)
    /\ pc # "idle" =>
           /\ Live => CertOK(mem) /\ mem.state \in {"certified_done", "blocked"}
           /\ mem.state = "certified_done" => CertOK(mem)

(* The three-slice sequence: how the manifest of a call relates to the file.*)
PathInv ==
    mode = "three_slice" =>
        /\ IsPath(manifest.history, Position(manifest))
        /\ pc = "read" =>
               /\ mem.history = manifest.history
               /\ \/ mem.state = manifest.state
                  \/ mem.state = "blocked"
        /\ pc = "saving" =>
               \/ mem.state = "blocked" /\ mem.history = manifest.history
               \/ /\ manifest.state # "blocked"
                  /\ mem.state # "blocked"
                  /\ mem.history = Append(manifest.history,
                         [from |-> manifest.state, to |-> mem.state])

Evidence(m, s) ==
    /\ s \in {"review_pending", "remediation_pending",
              "certification_pending", "promoted"} => Len(m.reports) >= 3
    /\ s \in {"certification_pending", "promoted"} => m.reviewed
    /\ s = "promoted" => m.cert = "passed" /\ m.record

EvidenceInv ==
    mode = "three_slice" =>
        /\ Evidence(manifest, Position(manifest))
        /\ pc # "idle" =>
               Evidence(mem, IF mem.state = "blocked"
                             THEN Position(manifest) ELSE mem.state)
(* The fixes: which files a manifest or a call under way rests on.  Only    *)
(* where run ids differ do earlier reports stay what they were.             *)
PostFix == {"fixes_in_progress", "fixes_complete_unreviewed",
            "certification_pending", "certified_done"}

Ran(ids) ==
    \A i \in 1..Len(ids) :
        /\ ids[i] < now
        /\ fixReport[ids[i]] = [round |-> fixRoadmap.round, bundle |-> i]

Rests(m) == Len(m.fixes) = fixRoadmap.size /\ Ran(m.fixes)

FixInv ==
    /\ pc # "fixing" => collected = <<>>
    /\ Ran(collected)
    /\ mode = "legacy" =>
           /\ Position(manifest) \in PostFix => Rests(manifest)
           /\ pc # "idle" /\ mem.state \in PostFix => Rests(mem)
           /\ pc = "read" /\ mem.state = "blocked" =>
                  /\ prior \in PostFix => Rests(mem)
                  /\ manifest.state \in
                         {"blocked", prior, "implementation_reviews_complete"}
           /\ pc = "saving" /\ mem.state = "blocked" =>
                  (Position(manifest) \in PostFix => Rests(mem))

----------------------------------------------------------------------------
(* Types                                                                    *)

(* The recommended states are states of the table. *)
LEMMA RecommendedType ==
    /\ DOMAIN Recommended =
           {"draft_roadmap", "roadmap_under_review", "roadmap_approved",
            "execution_in_progress", "execution_complete_unreviewed"}
    /\ \A s \in DOMAIN Recommended : Recommended[s] \in
           {"roadmap_under_review", "roadmap_approved", "execution_ready",
            "execution_complete_unreviewed", "implementation_reviews_complete"}
BY DEF Recommended

(* A sequence state has a successor in the sequence; only the three final   *)
(* ones have themselves.                                                    *)
LEMMA TargetType ==
    \A s \in SequenceStates :
        /\ Target[s] \in SequenceStates
        /\ Target[s] = "blocked" => s = "blocked"
        /\ Target[s] = "promoted" => s \in {"certification_pending", "promoted"}
        /\ Target[s] = "certification_pending" =>
               s \in {"review_pending", "remediation_pending"}
        /\ Target[s] = "review_pending" => s = "executing_slice_3"
        /\ Target[s] = "remediation_pending" => FALSE
BY DEF SequenceStates, Target

(* A changed state, list or flag leaves a manifest a manifest. *)
LEMMA ManifestType ==
    ASSUME NEW m \in Manifest, NEW s \in States
    PROVE  /\ [m EXCEPT !.state = s] \in Manifest
           /\ Blocked(m) \in Manifest
           /\ \A t \in Second :
                  /\ [m EXCEPT !.reports = Append(@, t)] \in Manifest
                  /\ [m EXCEPT !.state = s, !.reports = Append(@, t)] \in Manifest
           /\ \A f \in Seq(Second) :
                  [m EXCEPT !.state = s, !.fixes = f] \in Manifest
           /\ \A b \in BOOLEAN, c \in {"pending", "passed", "failed"} :
                  /\ [m EXCEPT !.state = s, !.record = b] \in Manifest
                  /\ [m EXCEPT !.state = s, !.cert = c] \in Manifest
                  /\ [m EXCEPT !.state = s, !.record = b, !.cert = c] \in Manifest
                  /\ [m EXCEPT !.cert = c, !.record = b] \in Manifest
           /\ [m EXCEPT !.reviewed = TRUE] \in Manifest
<1>1. "blocked" \in States
  BY DEF States, SequenceStates
<1>2. [m EXCEPT !.state = s] \in Manifest /\ Blocked(m) \in Manifest
  BY <1>1 DEF Manifest, Blocked
<1>3. ASSUME NEW t \in Second
      PROVE  /\ [m EXCEPT !.reports = Append(@, t)] \in Manifest
             /\ [m EXCEPT !.state = s, !.reports = Append(@, t)] \in Manifest
  <2>1. Append(m.reports, t) \in Seq(Second)
    BY DEF Manifest
  <2> QED BY <2>1 DEF Manifest
<1>4. \A f \in Seq(Second) : [m EXCEPT !.state = s, !.fixes = f] \in Manifest
  BY DEF Manifest
<1>5. ASSUME NEW b \in BOOLEAN, NEW c \in {"pending", "passed", "failed"}
      PROVE  /\ [m EXCEPT !.state = s, !.record = b] \in Manifest
             /\ [m EXCEPT !.state = s, !.cert = c] \in Manifest
             /\ [m EXCEPT !.state = s, !.record = b, !.cert = c] \in Manifest
             /\ [m EXCEPT !.cert = c, !.record = b] \in Manifest
  BY DEF Manifest
<1>6. [m EXCEPT !.reviewed = TRUE] \in Manifest
  BY DEF Manifest
<1> QED BY <1>2, <1>3, <1>4, <1>5, <1>6

(* So does a recorded transition. *)
LEMMA RecordedType ==
    ASSUME NEW m \in Manifest, m.state \in SequenceStates,
           NEW s \in SequenceStates
    PROVE  Recorded(m, s) \in Manifest
<1>1. [from |-> m.state, to |-> s] \in [from : SequenceStates, to : SequenceStates]
  OBVIOUS
<1>2. Append(m.history, [from |-> m.state, to |-> s]) \in
          Seq([from : SequenceStates, to : SequenceStates])
  BY <1>1 DEF Manifest
<1>3. s \in States
  BY DEF States
<1> QED BY <1>2, <1>3 DEF Recorded, Manifest

(* A new cycle has a manifest. *)
LEMMA NewManifestType ==
    ASSUME NEW m PROVE NewManifest(m) \in Manifest
BY DEF NewManifest, Manifest, States, SequenceStates, Recommended

(* What a step that leaves m to be written does to the types. *)
LEMMA FinishType ==
    ASSUME TypeOK, NEW m \in Manifest, Finish(m), fixRoadmap' \in
               [round : 0..MaxRounds, size : 0..MaxBundles]
    PROVE  /\ mode' \in Mode /\ mem' \in Manifest
           /\ pc' \in {"idle", "read", "decided", "fixing", "saving"}
           /\ collected' \in Seq(Second)
           /\ Len(collected') <= fixRoadmap'.size
           /\ advice' \in {"none"} \cup States
           /\ prior' \in States
BY DEF Finish, TypeOK

(* Every step that only leaves a manifest to be written keeps the types. *)
LEMMA FinishKeepsType ==
    ASSUME TypeOK, NEW m \in Manifest, Finish(m),
           manifest' \in Manifest, UNCHANGED <<files, history>>, now' \in Second
    PROVE  TypeOK'
<1>1. fixRoadmap' \in [round : 0..MaxRounds, size : 0..MaxBundles]
  BY DEF TypeOK, files
<1> QED BY <1>1, FinishType DEF TypeOK, files, history

LEMMA TypeStep == TypeOK /\ [Next]_vars => TypeOK'
<1> SUFFICES ASSUME TypeOK, [Next]_vars PROVE TypeOK'
  OBVIOUS
<1> USE CycleConstants
<1>0. manifest \in Manifest /\ mem \in Manifest /\ now \in Second
  BY DEF TypeOK
<1>a. /\ mem.state \in States
      /\ {"execution_complete_unreviewed", "fix_roadmap_ready",
          "fixes_in_progress", "fixes_complete_unreviewed", "blocked",
          "certification_pending", "certified_done",
          "implementation_reviews_complete"} \subseteq States
      /\ SequenceStates \subseteq States
  BY <1>0, RecommendedType DEF Manifest, States, SequenceStates
<1>b. Blocked(mem) \in Manifest
  BY <1>0, <1>a, ManifestType
<1>1. CASE Begin
  BY <1>1 DEF Begin, TypeOK, files, history
<1>2. CASE Save
  <2>1. manifest.state \in States
    BY <1>0 DEF Manifest
  <2> QED BY <1>2, <2>1 DEF Save, TypeOK, files, history
<1>3. CASE Crash
  <2>1. crashes' \in 0..MaxCrashes
    BY <1>3 DEF Crash, TypeOK
  <2>2. Len(collected') <= fixRoadmap'.size /\ collected' \in Seq(Second)
    BY <1>3 DEF Crash, TypeOK, files
  <2> QED BY <1>3, <2>1, <2>2 DEF Crash, TypeOK, files
<1>4. CASE AdvanceSequence
  <2>1. CASE Target[mem.state] = mem.state
    BY <1>4, <2>1 DEF AdvanceSequence, TypeOK, files, history
  <2>2. CASE Target[mem.state] # mem.state
    <3>1. Recorded(mem, Target[mem.state]) \in Manifest
      BY <1>4, <1>0, RecordedType, TargetType DEF AdvanceSequence, InSequence
    <3> QED BY <1>4, <1>0, <2>2, <3>1, FinishKeepsType DEF AdvanceSequence
  <2> QED BY <2>1, <2>2
<1>5. CASE Refuse
  <2>1. manifest' \in Manifest
    BY <1>5, <1>0 DEF Refuse
  <2> QED BY <1>5, <1>0, <1>b, <2>1, FinishKeepsType DEF Refuse
<1>6. CASE Decide
  BY <1>6 DEF Decide, TypeOK, files, history
<1>7. CASE RefuseEvidence
  BY <1>7, <1>0, <1>b, FinishKeepsType DEF RefuseEvidence
<1>8. CASE Recommend
  <2>1. Recommended[mem.state] \in States
    BY <1>8, RecommendedType DEF Recommend, States
  <2> QED BY <1>8, <2>1 DEF Recommend, TypeOK, files, history
<1>9. CASE NothingToDo \/ StartFixes
  BY <1>9 DEF NothingToDo, StartFixes, TypeOK, files, history
<1>10. CASE PlanNothing
  BY <1>10 DEF PlanNothing, TypeOK, files
<1>11. CASE Execute
  <2>1. now' \in Second
    BY <1>11, <1>0 DEF Execute, RunSlice, Second
  <2>2. [mem EXCEPT !.state = "execution_complete_unreviewed",
                    !.reports = Append(@, now)] \in Manifest
    BY <1>0, <1>a, ManifestType
  <2> QED BY <1>11, <1>0, <2>1, <2>2, FinishKeepsType DEF Execute
<1>12. CASE PlanFixes
  <2>1. fixRoadmap' \in [round : 0..MaxRounds, size : 0..MaxBundles]
    BY <1>12 DEF PlanFixes, TypeOK
  <2>2. [mem EXCEPT !.state = "fix_roadmap_ready"] \in Manifest
    BY <1>0, <1>a, ManifestType
  <2>3. Finish([mem EXCEPT !.state = "fix_roadmap_ready"])
    BY <1>12 DEF PlanFixes
  <2> QED BY <1>12, <2>1, <2>2, <2>3, FinishType DEF PlanFixes, TypeOK, history
<1>13. CASE FixBundle
  <2>1. now' \in Second
    BY <1>13, <1>0 DEF FixBundle, RunSlice, Second
  <2>2. /\ collected' \in Seq(Second)
        /\ Len(collected') <= fixRoadmap'.size
        /\ Len(collected) + 1 \in 0..MaxBundles
    BY <1>13 DEF FixBundle, TypeOK
  <2>3. fixReport' \in [Second -> Report]
    BY <1>13, <2>2 DEF FixBundle, TypeOK, Report
  <2> QED BY <1>13, <2>1, <2>2, <2>3 DEF FixBundle, TypeOK, history
<1>14. CASE FinishFixes
  <2>1. [mem EXCEPT !.state = "fixes_in_progress", !.fixes = collected] \in Manifest
    BY <1>0, <1>a, ManifestType DEF TypeOK
  <2> QED BY <1>14, <1>0, <2>1, FinishKeepsType DEF FinishFixes
<1>15. CASE CollectFixes \/ PromoteFixes
  <2>1. /\ [mem EXCEPT !.state = "fixes_complete_unreviewed"] \in Manifest
        /\ [mem EXCEPT !.state = "certification_pending"] \in Manifest
    BY <1>0, <1>a, ManifestType
  <2> QED BY <1>15, <1>0, <2>1, FinishKeepsType DEF CollectFixes, PromoteFixes
<1>16. CASE ReadRecord
  <2>1. [mem EXCEPT !.state = "certified_done", !.cert = "passed"] \in Manifest
    BY <1>0, <1>a, ManifestType
  <2> QED BY <1>16, <1>0, <1>b, <2>1, FinishKeepsType DEF ReadRecord
<1>17. CASE Certify
  <2>1. /\ [mem EXCEPT !.state = "certified_done", !.record = TRUE,
                       !.cert = "passed"] \in Manifest
        /\ [mem EXCEPT !.state = "blocked", !.record = TRUE,
                       !.cert = "failed"] \in Manifest
    BY <1>0, <1>a, ManifestType
  <2>2. PICK m \in Manifest : Finish(m)
    BY <1>17, <2>1 DEF Certify
  <2>3. fixRoadmap' \in [round : 0..MaxRounds, size : 0..MaxBundles]
    BY <1>17 DEF Certify, TypeOK
  <2> QED BY <1>17, <2>2, <2>3, FinishType DEF Certify, TypeOK, history
<1>18. CASE CertifyFails
  <2>1. [mem EXCEPT !.state = "blocked", !.cert = "failed"] \in Manifest
    BY <1>0, <1>a, ManifestType
  <2> QED BY <1>18, <1>0, <2>1, FinishKeepsType DEF CertifyFails
<1>19. ASSUME NEW m \in Manifest, Edit(m), record' \in {"none", "PASSED", "FAILED"},
              advice' \in {"none"} \cup States
       PROVE  TypeOK'
  BY <1>19 DEF Edit, TypeOK, history
<1>20. CASE FollowAdvice
  <2>1. [manifest EXCEPT !.state = advice] \in Manifest
    BY <1>20, <1>0, ManifestType DEF FollowAdvice, TypeOK
  <2> QED BY <1>20, <1>19, <2>1 DEF FollowAdvice, TypeOK
<1>21. CASE Unblock
  <2>1. /\ [manifest EXCEPT !.state = prior] \in Manifest
        /\ \A s \in {prior, "implementation_reviews_complete"} :
               [manifest EXCEPT !.state = s, !.record = FALSE] \in Manifest
    BY <1>0, <1>a, ManifestType DEF TypeOK
  <2>2. PICK m \in Manifest : Edit(m)
    BY <1>21, <2>1 DEF Unblock
  <2> QED BY <1>21, <1>19, <2>2 DEF Unblock, TypeOK
<1>22. CASE Attach
  <2>1. /\ [manifest EXCEPT !.reports = Append(@, now)] \in Manifest
        /\ [manifest EXCEPT !.reviewed = TRUE] \in Manifest
        /\ [manifest EXCEPT !.cert = "passed", !.record = TRUE] \in Manifest
    BY <1>0, <1>a, ManifestType
  <2>2. PICK m \in Manifest : Edit(m)
    BY <1>22, <2>1 DEF Attach
  <2> QED BY <1>22, <1>19, <2>2 DEF Attach, TypeOK
<1>23. CASE UNCHANGED vars
  BY <1>23 DEF vars, files, history, TypeOK
<1> QED
  BY <1>1, <1>2, <1>3, <1>4, <1>5, <1>6, <1>7, <1>8, <1>9, <1>10, <1>11, <1>12,
     <1>13, <1>14, <1>15, <1>16, <1>17, <1>18, <1>20, <1>21, <1>22, <1>23
  DEF Next, RunStep

(* Every variable keeps its type, for any number of bundles, rounds, crashes*)
(* and seconds.                                                             *)
THEOREM TypeCorrect == Spec => []TypeOK
<1>1. Init => TypeOK
  <2> SUFFICES ASSUME Init PROVE TypeOK
    OBVIOUS
  <2>1. NewManifest(mode) \in Manifest
    BY NewManifestType
  <2>2. /\ manifest \in Manifest
        /\ mem \in Manifest
        /\ prior \in States
    BY <2>1 DEF Init, Manifest
  <2>3. NoReport \in Report /\ NoRoadmap \in [round : 0..MaxRounds, size : 0..MaxBundles]
    BY CycleConstants DEF NoReport, Report, NoRoadmap
  <2>4. fixReport \in [Second -> Report]
    BY <2>3 DEF Init
  <2>5. Len(collected) <= fixRoadmap.size /\ collected \in Seq(Second)
    BY DEF Init, NoRoadmap
  <2> QED BY CycleConstants, <2>2, <2>3, <2>4, <2>5 DEF Init, TypeOK, Second
<1> QED BY <1>1, TypeStep, PTL DEF Spec

----------------------------------------------------------------------------
(* The call and the file                                                    *)

LEMMA CallStep == TypeOK /\ CallInv /\ [Next]_vars => CallInv'
<1> SUFFICES ASSUME TypeOK, CallInv, [Next]_vars PROVE CallInv'
  OBVIOUS
<1>0. /\ manifest \in Manifest /\ mem \in Manifest
      /\ mode \in {"legacy", "three_slice"}
      /\ pc \in {"idle", "read", "decided", "fixing", "saving"}
      /\ {"blocked", "certification_pending"} \subseteq SequenceStates
  BY CycleConstants DEF TypeOK, SequenceStates
<1>1. CASE Begin
  BY <1>1 DEF Begin, CallInv
<1>2. CASE Save
  BY <1>2 DEF Save, CallInv
<1>3. CASE Crash
  BY <1>3, <1>0 DEF Crash, CallInv
<1>4. CASE AdvanceSequence
  <2>1. CASE Target[mem.state] = mem.state
    BY <1>4, <2>1 DEF AdvanceSequence, CallInv, InSequence
  <2>2. CASE Target[mem.state] # mem.state
    <3>1. mem' = Recorded(mem, Target[mem.state])
      BY <1>4, <2>2 DEF AdvanceSequence, Finish
    <3>2. mem'.state = Target[mem.state] /\ mem'.state \in SequenceStates
      BY <1>4, <1>0, <3>1, TargetType DEF AdvanceSequence, InSequence, Recorded,
         Manifest
    <3> QED BY <1>4, <2>2, <3>2 DEF AdvanceSequence, Finish, CallInv
  <2> QED BY <2>1, <2>2
<1>5. CASE Refuse
  <2>1. mem'.state = "blocked"
    BY <1>5, <1>0 DEF Refuse, Finish, Blocked, Manifest
  <2> QED BY <1>5, <1>0, <2>1 DEF Refuse, Finish, CallInv, InSequence
<1>6. CASE Decide
  BY <1>6, <1>0 DEF Decide, CallInv, InSequence
<1>7. ASSUME NEW m, Finish(m), manifest' = manifest, pc \in {"decided", "fixing"}
      PROVE  CallInv'
  BY <1>7 DEF Finish, CallInv
<1>8. CASE \/ RefuseEvidence \/ Execute \/ PlanFixes \/ FinishFixes
           \/ CollectFixes \/ PromoteFixes \/ ReadRecord \/ Certify
           \/ CertifyFails
  BY <1>8, <1>7 DEF RefuseEvidence, Execute, PlanFixes, FinishFixes, CollectFixes,
     PromoteFixes, ReadRecord, Certify, CertifyFails
<1>9. CASE Recommend
  <2>1. mem.state # "blocked"
    BY <1>9, RecommendedType DEF Recommend
  <2> QED BY <1>9, <2>1, RecommendedType DEF Recommend, CallInv
<1>10. CASE NothingToDo \/ PlanNothing \/ StartFixes \/ FixBundle
  BY <1>10 DEF NothingToDo, PlanNothing, StartFixes, FixBundle, CallInv
<1>11. CASE FollowAdvice
  <2>1. pc = "idle" /\ mode = "legacy" /\ advice' = "none"
    BY <1>11 DEF FollowAdvice, CallInv
  <2> QED BY <1>11, <2>1 DEF FollowAdvice, Edit, CallInv
<1>12. CASE Unblock
  <2>1. advice = "none"
    BY <1>12, RecommendedType DEF Unblock, CallInv
  <2>2. pc \in {"read", "decided", "fixing"} => mem.state = "blocked"
    BY <1>12 DEF Unblock, CallInv
  <2>3. mode = "three_slice" => manifest' = [manifest EXCEPT !.state = prior]
    BY <1>12, <1>0 DEF Unblock, Edit
  <2>4. mode = "three_slice" => manifest'.state = prior
    BY <2>3, <1>0 DEF Manifest
  <2>5. UNCHANGED <<mode, mem, pc, prior, advice>>
    BY <1>12 DEF Unblock, Edit
  <2> QED BY <2>1, <2>2, <2>4, <2>5 DEF CallInv
<1>13. CASE Attach
  <2>1. manifest'.state = manifest.state
    BY <1>13, <1>0 DEF Attach, Edit, Manifest
  <2>2. UNCHANGED <<mode, mem, pc, prior, advice>>
    BY <1>13 DEF Attach, Edit
  <2> QED BY <2>1, <2>2 DEF CallInv
<1>14. CASE UNCHANGED vars
  BY <1>14 DEF vars, CallInv
<1> QED
  BY <1>1, <1>2, <1>3, <1>4, <1>5, <1>6, <1>8, <1>9, <1>10, <1>11, <1>12, <1>13,
     <1>14 DEF Next, RunStep

----------------------------------------------------------------------------
(* Certification                                                            *)

LEMMA CertStep == TypeOK /\ CallInv /\ CertInv /\ [Next]_vars => CertInv'
<1> SUFFICES ASSUME TypeOK, CallInv, CertInv, [Next]_vars PROVE CertInv'
  OBVIOUS
<1> USE DEF Live, Position, CertOK
<1>0. /\ manifest \in Manifest /\ mem \in Manifest
      /\ mode \in {"legacy", "three_slice"}
      /\ "certified_done" \notin SequenceStates
  BY CycleConstants DEF TypeOK, SequenceStates
<1>1. CASE Begin
  BY <1>1 DEF Begin, CertInv, files
<1>2. CASE Save
  BY <1>2 DEF Save, CertInv, files
<1>3. CASE Crash
  BY <1>3 DEF Crash, CertInv, files
<1>4. CASE AdvanceSequence
  <2>1. mode = "three_slice" /\ prior # "certified_done"
        /\ manifest.state # "certified_done"
    BY <1>4, <1>0 DEF AdvanceSequence, InSequence, CallInv
  <2>2. mode' = mode /\ mem'.state # "certified_done" /\ UNCHANGED <<manifest, prior>>
    <3>1. CallInv'
      BY CallStep
    <3> QED BY <1>4, <2>1, <1>0, <3>1 DEF AdvanceSequence, Finish, CallInv
  <2> QED BY <2>1, <2>2 DEF CertInv
<1>5. CASE Refuse
  <2>1. /\ mem'.state = "blocked" /\ mem'.record = mem.record
        /\ mem'.cert = mem.cert
    BY <1>5, <1>0 DEF Refuse, Finish, Blocked, Manifest
  <2>2. manifest' \in {manifest, mem} /\ pc = "read" /\ UNCHANGED <<prior, record>>
    BY <1>5 DEF Refuse, Finish, files
  <2> QED BY <2>1, <2>2 DEF CertInv
<1>6. CASE Decide
  BY <1>6 DEF Decide, CertInv, files
<1>7. CASE RefuseEvidence
  <2>1. /\ mem'.state = "blocked" /\ mem'.record = mem.record
        /\ mem'.cert = mem.cert /\ pc # "idle"
    BY <1>7, <1>0 DEF RefuseEvidence, Finish, Blocked, Manifest
  <2>2. UNCHANGED <<manifest, prior, record>>
    BY <1>7 DEF RefuseEvidence, Finish, files
  <2> QED BY <2>1, <2>2 DEF CertInv
<1>8. ASSUME pc \in {"decided", "fixing"},
             mem.state \notin {"certified_done", "blocked"}
      PROVE  ~Live /\ prior # "certified_done"
  BY <1>8 DEF CertInv
<1>9. CASE Execute \/ PlanFixes \/ FinishFixes \/ CollectFixes \/ PromoteFixes
  <2>1. pc \in {"decided", "fixing"} /\ UNCHANGED <<manifest, prior, record>>
    BY <1>9 DEF Execute, PlanFixes, FinishFixes, CollectFixes, PromoteFixes,
       Finish, files
  <2>2. mem'.state \in {"execution_complete_unreviewed", "fix_roadmap_ready",
            "fixes_in_progress", "fixes_complete_unreviewed",
            "certification_pending"}
    BY <1>9, <1>0 DEF Execute, PlanFixes, FinishFixes, CollectFixes, PromoteFixes,
       Finish, Manifest
  <2>3. mem.state \notin {"certified_done", "blocked"}
    BY <1>9 DEF Execute, PlanFixes, FinishFixes, CollectFixes, PromoteFixes, CallInv
  <2> QED BY <2>1, <2>2, <2>3, <1>8 DEF CertInv
<1>10. CASE ReadRecord \/ Certify \/ CertifyFails
  <2>1. pc = "decided" /\ mem.state = "certification_pending"
    BY <1>10 DEF ReadRecord, Certify, CertifyFails
  <2>2. ~Live /\ prior # "certified_done"
    BY <2>1, <1>8
  <2>3. UNCHANGED <<manifest, prior>>
    BY <1>10 DEF ReadRecord, Certify, CertifyFails, Finish
  <2>4. mem'.state = "certified_done" =>
            mem'.record /\ record' = "PASSED" /\ mem'.cert = "passed"
    <3>1. CASE ReadRecord
      BY <3>1, <1>0 DEF ReadRecord, Finish, Blocked, Manifest, files
    <3>2. CASE Certify
      BY <3>2, <1>0 DEF Certify, Finish, Manifest
    <3>3. CASE CertifyFails
      BY <3>3, <1>0 DEF CertifyFails, Finish, Manifest
    <3> QED BY <1>10, <3>1, <3>2, <3>3
  <2> QED BY <2>2, <2>3, <2>4 DEF CertInv
<1>11. CASE Recommend \/ NothingToDo \/ PlanNothing \/ StartFixes \/ FixBundle
  <2>1. UNCHANGED <<manifest, prior, record, mem>> /\ pc # "idle"
    BY <1>11 DEF Recommend, NothingToDo, PlanNothing, StartFixes, FixBundle, files
  <2> QED BY <2>1 DEF CertInv
<1>12. CASE FollowAdvice
  <2>1. pc = "idle" /\ manifest.state \notin {"certified_done", "blocked"}
    BY <1>12, RecommendedType DEF FollowAdvice, CallInv
  <2>2. manifest'.state \notin {"certified_done", "blocked"}
    BY <1>12, <1>0 DEF FollowAdvice, Edit, CallInv, Manifest
  <2>3. UNCHANGED <<prior, record, mem, pc>>
    BY <1>12 DEF FollowAdvice, Edit
  <2> QED BY <2>1, <2>2, <2>3 DEF CertInv
<1>13. CASE Unblock
  <2>1. UNCHANGED <<prior, record, mem, pc>> /\ manifest.state = "blocked"
    BY <1>13 DEF Unblock, Edit
  <2>2. \/ /\ manifest'.state = prior
           /\ manifest'.record = manifest.record /\ manifest'.cert = manifest.cert
        \/ /\ prior = "certification_pending"
           /\ manifest'.state \in {prior, "implementation_reviews_complete"}
    BY <1>13, <1>0 DEF Unblock, Edit, Manifest
  <2> QED BY <2>1, <2>2 DEF CertInv
<1>14. CASE Attach
  <2>1. /\ mode = "three_slice"
        /\ prior # "certified_done" /\ manifest.state # "certified_done"
        /\ mem.state # "certified_done"
    BY <1>14, <1>0 DEF Attach, CallInv
  <2>2. UNCHANGED <<prior, mem, pc>> /\ manifest'.state = manifest.state
    BY <1>14, <1>0 DEF Attach, Edit, Manifest
  <2> QED BY <2>1, <2>2 DEF CertInv
<1>15. CASE UNCHANGED vars
  BY <1>15 DEF vars, files, CertInv
<1> QED
  BY <1>1, <1>2, <1>3, <1>4, <1>5, <1>6, <1>7, <1>9, <1>10, <1>11, <1>12, <1>13,
     <1>14, <1>15 DEF Next, RunStep

(* Before the first call the cycle is nowhere near certified. *)
LEMMA CallStart == Init => CallInv /\ CertInv
BY CycleConstants DEF Init, CallInv, CertInv, Live, Position, NewManifest, SequenceStates

(* A certified cycle rests on a passing certification record that its       *)
(* manifest names, whatever was refused, killed, edited or repaired before. *)
THEOREM Certified == Spec => []CertifiedOnRecord
<1>1. CertInv => CertifiedOnRecord
  BY DEF CertInv, CertifiedOnRecord, Live, Position, CertOK
<1>2. Init => CallInv /\ CertInv
  BY CallStart
<1> QED BY <1>1, <1>2, TypeCorrect, CallStep, CertStep, PTL DEF Spec

----------------------------------------------------------------------------
(* The three-slice sequence                                                 *)

(* In a three-slice cycle only these steps happen, and edits of the file    *)
(* keep its history.                                                        *)
LEMMA SequenceSteps ==
    ASSUME TypeOK, CallInv, mode' = "three_slice", [Next]_vars
    PROVE  /\ mode = "three_slice"
           /\ \/ Begin
              \/ Save
              \/ Crash
              \/ AdvanceSequence
              \/ /\ Refuse
                 /\ manifest' = manifest
                 /\ mem' = [mem EXCEPT !.state = "blocked"]
              \/ /\ Unblock
                 /\ manifest' = [manifest EXCEPT !.state = prior]
              \/ Attach
              \/ UNCHANGED vars
<1>1. mode = "three_slice"
  BY DEF Next, RunStep, vars, Begin, Save, Crash, AdvanceSequence, Refuse, Decide,
     RefuseEvidence, Recommend, NothingToDo, Execute, PlanFixes, PlanNothing,
     StartFixes, FixBundle, FinishFixes, CollectFixes, PromoteFixes, ReadRecord,
     Certify, CertifyFails, FollowAdvice, Unblock, Attach, Edit, Finish
<1>2. pc \notin {"decided", "fixing"} /\ advice = "none"
  BY <1>1 DEF CallInv
<1>3. ~Decide /\ InSequence(mem)
  BY <1>1 DEF Decide, CallInv, InSequence
<1>4. CASE Refuse
  BY <1>1, <1>3, <1>4 DEF Refuse, Finish, Blocked
<1>5. CASE Unblock
  BY <1>1, <1>5 DEF Unblock, Edit
<1> QED
  BY <1>1, <1>2, <1>3, <1>4, <1>5
  DEF Next, RunStep, RefuseEvidence, Recommend, NothingToDo, Execute, PlanFixes,
     PlanNothing, StartFixes, FixBundle, FinishFixes, CollectFixes, PromoteFixes,
     ReadRecord, Certify, CertifyFails, FollowAdvice

(* A transition from where a path ends makes a longer path. *)
LEMMA LongerPath ==
    ASSUME NEW h \in Seq([from : SequenceStates, to : SequenceStates]),
           NEW s \in SequenceStates, NEW t \in SequenceStates, IsPath(h, s)
    PROVE  IsPath(Append(h, [from |-> s, to |-> t]), t)
<1> DEFINE g == Append(h, [from |-> s, to |-> t])
<1>1. Len(g) = Len(h) + 1 /\ g[Len(g)] = [from |-> s, to |-> t]
      /\ \A i \in 1..Len(h) : g[i] = h[i]
  OBVIOUS
<1>2. t = IF g = <<>> THEN "admitted" ELSE g[Len(g)].to
  BY <1>1
<1>3. ASSUME NEW i \in 1..Len(g)
      PROVE  g[i].from = IF i = 1 THEN "admitted" ELSE g[i - 1].to
  <2>1. CASE i \in 1..Len(h)
    <3>1. g[i] = h[i] /\ (i # 1 => g[i - 1] = h[i - 1])
      BY <1>1, <2>1
    <3> QED BY <3>1, <2>1 DEF IsPath
  <2>2. CASE i = Len(h) + 1
    <3>1. g[i].from = s
      BY <1>1, <2>2
    <3>2. CASE h = <<>>
      BY <3>1, <3>2, <2>2 DEF IsPath
    <3>3. CASE h # <<>>
      <4>1. Len(h) \in 1..Len(h) /\ i # 1 /\ i - 1 = Len(h)
        BY <3>3, <2>2
      <4>2. s = h[Len(h)].to
        BY <3>3 DEF IsPath
      <4> QED BY <3>1, <4>1, <4>2, <1>1
    <3> QED BY <3>2, <3>3
  <2> QED BY <1>1, <2>1, <2>2
<1> QED BY <1>2, <1>3 DEF IsPath

LEMMA PathStep == TypeOK /\ CallInv /\ PathInv /\ [Next]_vars => PathInv'
<1> SUFFICES ASSUME TypeOK, CallInv, PathInv, [Next]_vars, mode' = "three_slice"
             PROVE  PathInv'
  BY DEF PathInv
<1> USE DEF Position
<1>0. /\ manifest \in Manifest /\ mem \in Manifest
      /\ mode = "three_slice"
      /\ IsPath(manifest.history, Position(manifest))
      /\ {manifest.state, mem.state, prior} \subseteq SequenceStates
  BY SequenceSteps DEF TypeOK, PathInv, CallInv
<1>1. CASE Begin
  BY <1>1, <1>0 DEF Begin, PathInv
<1>2. CASE Save
  <2>1. CASE mem.state = "blocked"
    BY <2>1, <1>2, <1>0 DEF Save, PathInv
  <2>2. CASE mem.state # "blocked"
    <3>1. /\ manifest.state # "blocked"
          /\ mem.history = Append(manifest.history,
                 [from |-> manifest.state, to |-> mem.state])
      BY <2>2, <1>2, <1>0 DEF Save, PathInv
    <3>2. manifest.history \in Seq([from : SequenceStates, to : SequenceStates])
      BY <1>0 DEF Manifest
    <3>3. IsPath(mem.history, mem.state)
      BY <3>1, <3>2, <1>0, LongerPath
    <3> QED BY <2>2, <1>2, <3>3 DEF Save, PathInv
  <2> QED BY <2>1, <2>2
<1>3. CASE Crash
  BY <1>3, <1>0 DEF Crash, PathInv
<1>4. CASE AdvanceSequence
  <2>1. CASE Target[mem.state] = mem.state
    BY <1>4, <2>1, <1>0 DEF AdvanceSequence, PathInv
  <2>2. CASE Target[mem.state] # mem.state
    <3>1. mem.state # "blocked" /\ Target[mem.state] # "blocked"
      BY <2>2, <1>0, TargetType DEF Target
    <3>2. mem.state = manifest.state /\ mem.history = manifest.history
      BY <1>4, <1>0, <3>1 DEF AdvanceSequence, PathInv
    <3>3. /\ mem'.state = Target[mem.state]
          /\ mem'.history = Append(mem.history,
                 [from |-> mem.state, to |-> Target[mem.state]])
      BY <1>4, <2>2, <1>0 DEF AdvanceSequence, Finish, Recorded, Manifest
    <3>4. pc' = "saving" /\ UNCHANGED <<manifest, prior>>
      BY <1>4, <2>2 DEF AdvanceSequence, Finish
    <3> QED BY <1>0, <3>1, <3>2, <3>3, <3>4 DEF PathInv
  <2> QED BY <2>1, <2>2
<1>5. CASE Refuse /\ manifest' = manifest /\ mem' = [mem EXCEPT !.state = "blocked"]
  <2>1. mem'.state = "blocked" /\ mem'.history = mem.history
    BY <1>5, <1>0 DEF Manifest
  <2> QED BY <1>5, <1>0, <2>1 DEF Refuse, Finish, PathInv
<1>6. CASE Unblock /\ manifest' = [manifest EXCEPT !.state = prior]
  <2>1. /\ manifest'.state = prior /\ manifest'.history = manifest.history
        /\ manifest.state = "blocked"
    BY <1>6, <1>0 DEF Unblock, Manifest
  <2>2. UNCHANGED <<mem, pc, prior>>
    BY <1>6 DEF Unblock, Edit
  <2> QED BY <1>0, <2>1, <2>2 DEF PathInv
<1>7. CASE Attach
  <2>1. manifest'.state = manifest.state /\ manifest'.history = manifest.history
    BY <1>7, <1>0 DEF Attach, Edit, Manifest
  <2>2. UNCHANGED <<mem, pc, prior>>
    BY <1>7 DEF Attach, Edit
  <2> QED BY <1>0, <2>1, <2>2 DEF PathInv
<1>8. CASE UNCHANGED vars
  BY <1>8, <1>0 DEF vars, PathInv
<1> QED BY <1>1, <1>2, <1>3, <1>4, <1>5, <1>6, <1>7, <1>8, SequenceSteps

(* The recorded transitions of a three-slice cycle are a path to where it   *)
(* is, or was when it was blocked.                                          *)
THEOREM RecordedPath == Spec => []HistoryIsPath
<1>1. PathInv => HistoryIsPath
  BY DEF PathInv, HistoryIsPath
<1>2. Init => CallInv /\ PathInv
  BY CallStart DEF Init, PathInv, IsPath, Position, NewManifest
<1> QED BY <1>1, <1>2, TypeCorrect, CallStep, PathStep, PTL DEF Spec

LEMMA EvidenceStep ==
    TypeOK /\ CallInv /\ PathInv /\ EvidenceInv /\ [Next]_vars => EvidenceInv'
<1> SUFFICES ASSUME TypeOK, CallInv, PathInv, EvidenceInv, [Next]_vars,
                    mode' = "three_slice"
             PROVE  EvidenceInv'
  BY DEF EvidenceInv
<1> USE DEF Position
<1>0. /\ manifest \in Manifest /\ mem \in Manifest /\ now \in Second
      /\ mode = "three_slice"
      /\ Evidence(manifest, Position(manifest))
      /\ {manifest.state, mem.state, prior} \subseteq SequenceStates
  BY SequenceSteps DEF TypeOK, EvidenceInv, CallInv
<1>1. CASE Begin
  BY <1>1, <1>0 DEF Begin, EvidenceInv
<1>2. CASE Save
  <2>1. UNCHANGED mem /\ manifest' = mem /\ pc = "saving" /\ pc' = "idle"
    BY <1>2 DEF Save
  <2>2. CASE mem.state = "blocked"
    <3>1. Evidence(mem, Position(manifest))
      BY <2>1, <2>2, <1>0 DEF EvidenceInv
    <3>2. prior' = Position(manifest)
      BY <1>2, <2>2 DEF Save
    <3> QED BY <2>1, <2>2, <3>1, <3>2 DEF EvidenceInv
  <2>3. CASE mem.state # "blocked"
    <3>1. Evidence(mem, mem.state)
      BY <2>1, <2>3, <1>0 DEF EvidenceInv
    <3> QED BY <2>1, <2>3, <3>1 DEF EvidenceInv
  <2> QED BY <2>2, <2>3
<1>3. CASE Crash
  BY <1>3, <1>0 DEF Crash, EvidenceInv
<1>4. CASE AdvanceSequence
  <2>0. UNCHANGED <<manifest, prior>>
    BY <1>4 DEF AdvanceSequence, Finish
  <2>1. CASE Target[mem.state] = mem.state
    BY <1>4, <2>0, <2>1, <1>0 DEF AdvanceSequence, EvidenceInv
  <2>2. CASE Target[mem.state] # mem.state
    <3> DEFINE t == Target[mem.state]
    <3>1. mem.state # "blocked" /\ t # "blocked"
      BY <2>2, <1>0, TargetType DEF Target
    <3>2. Evidence(mem, mem.state)
      BY <1>4, <1>0, <3>1 DEF AdvanceSequence, EvidenceInv
    <3>3. SequenceAllowed(mem, t)
      BY <1>4 DEF AdvanceSequence
    <3>4. /\ mem'.state = t
          /\ mem'.reports = mem.reports
          /\ mem'.reviewed = mem.reviewed
          /\ mem'.cert = mem.cert
          /\ mem'.record = mem.record
      BY <1>4, <2>2, <1>0 DEF AdvanceSequence, Finish, Recorded, Manifest
    <3>5. Evidence(mem, t)
      <4>1. CASE t = "review_pending"
        BY <4>1, <3>3 DEF SequenceAllowed, Evidence
      <4>2. CASE t = "certification_pending"
        <5>1. mem.state \in {"review_pending", "remediation_pending"}
          BY <4>2, <1>0, TargetType
        <5> QED BY <4>2, <5>1, <3>2, <3>3 DEF SequenceAllowed, Evidence
      <4>3. CASE t = "promoted"
        <5>1. mem.state \in {"certification_pending", "promoted"}
          BY <4>3, <1>0, TargetType
        <5> QED BY <4>3, <5>1, <3>2, <3>3 DEF SequenceAllowed, Evidence
      <4>4. t # "remediation_pending"
        BY <1>0, TargetType
      <4> QED BY <4>1, <4>2, <4>3, <4>4 DEF Evidence
    <3>6. Evidence(mem', mem'.state)
      BY <3>4, <3>5 DEF Evidence
    <3> QED BY <1>0, <2>0, <3>1, <3>4, <3>6 DEF EvidenceInv
  <2> QED BY <2>1, <2>2
<1>5. CASE Refuse /\ manifest' = manifest /\ mem' = [mem EXCEPT !.state = "blocked"]
  <2>1. /\ mem'.state = "blocked" /\ mem'.reports = mem.reports
        /\ mem'.reviewed = mem.reviewed /\ mem'.cert = mem.cert
        /\ mem'.record = mem.record
    BY <1>5, <1>0 DEF Manifest
  <2>2. pc = "read" /\ UNCHANGED <<manifest, prior>>
    BY <1>5 DEF Refuse, Finish
  <2>3. Evidence(mem, Position(manifest))
    <3>1. CASE mem.state = "blocked"
      BY <3>1, <2>2, <1>0 DEF EvidenceInv
    <3>2. CASE mem.state # "blocked"
      BY <3>2, <2>2, <1>0 DEF EvidenceInv, PathInv
    <3> QED BY <3>1, <3>2
  <2>4. Evidence(mem', Position(manifest)')
    BY <2>1, <2>2, <2>3 DEF Evidence
  <2> QED BY <1>0, <2>1, <2>2, <2>4 DEF EvidenceInv
<1>6. CASE Unblock /\ manifest' = [manifest EXCEPT !.state = prior]
  <2>1. /\ manifest'.state = prior /\ manifest.state = "blocked"
        /\ manifest'.reports = manifest.reports
        /\ manifest'.reviewed = manifest.reviewed
        /\ manifest'.cert = manifest.cert /\ manifest'.record = manifest.record
    BY <1>6, <1>0 DEF Unblock, Manifest
  <2>2. UNCHANGED <<mem, pc, prior>>
    BY <1>6 DEF Unblock, Edit
  <2>3. Position(manifest)' = Position(manifest)
    BY <2>1, <2>2
  <2>4. Evidence(manifest', Position(manifest)')
    BY <1>0, <2>1, <2>3 DEF Evidence
  <2> QED BY <1>0, <2>2, <2>3, <2>4 DEF EvidenceInv
<1>7. CASE Attach
  <2>1. /\ manifest'.state = manifest.state
        /\ Len(manifest'.reports) >= Len(manifest.reports)
        /\ manifest.reviewed => manifest'.reviewed
        /\ manifest.cert = "passed" /\ manifest.record =>
               manifest'.cert = "passed" /\ manifest'.record
    <3>1. Len(Append(manifest.reports, now)) = Len(manifest.reports) + 1
          /\ Len(manifest.reports) \in Nat
      BY <1>0 DEF Manifest
    <3>2. CASE manifest' = [manifest EXCEPT !.reports = Append(@, now)]
      BY <3>1, <3>2, <1>0 DEF Manifest
    <3>3. CASE manifest' = [manifest EXCEPT !.reviewed = TRUE]
      BY <3>1, <3>3, <1>0 DEF Manifest
    <3>4. CASE manifest' = [manifest EXCEPT !.cert = "passed", !.record = TRUE]
      BY <3>1, <3>4, <1>0 DEF Manifest
    <3> QED BY <1>7, <3>2, <3>3, <3>4 DEF Attach, Edit
  <2>2. UNCHANGED <<mem, pc, prior>>
    BY <1>7 DEF Attach, Edit
  <2>3. Len(manifest.reports) \in Nat /\ Len(manifest'.reports) \in Nat
    <3>1. TypeOK'
      BY TypeStep
    <3>2. manifest.reports \in Seq(Second) /\ manifest'.reports \in Seq(Second)
      BY <3>1, <1>0 DEF TypeOK, Manifest
    <3> QED BY <3>2
  <2>4. Evidence(manifest', Position(manifest)')
    BY <1>0, <2>1, <2>2, <2>3 DEF Evidence
  <2> QED BY <1>0, <2>1, <2>2, <2>4 DEF EvidenceInv
<1>8. CASE UNCHANGED vars
  BY <1>8, <1>0 DEF vars, EvidenceInv
<1> QED BY <1>1, <1>2, <1>3, <1>4, <1>5, <1>6, <1>7, <1>8, SequenceSteps

(* A three-slice cycle is promoted only with three reports, reviews and a   *)
(* passing certification that its manifest names.                           *)
THEOREM Promoted == Spec => []PromotedOnEvidence
<1>1. EvidenceInv => PromotedOnEvidence
  BY DEF EvidenceInv, PromotedOnEvidence, Evidence, Position
<1>2. Init => CallInv /\ PathInv /\ EvidenceInv
  BY CallStart DEF Init, PathInv, EvidenceInv, Evidence, IsPath, Position,
     NewManifest
<1> QED BY <1>1, <1>2, TypeCorrect, CallStep, PathStep, EvidenceStep, PTL DEF Spec

----------------------------------------------------------------------------
(* The three-slice sequence is a line, and what it rests on is kept         *)

Line ==
    <<"admitted", "executing_slice_1", "executing_slice_2", "executing_slice_3",
      "review_pending", "certification_pending", "promoted">>

(* As many transitions are recorded as the line has steps up to state s. *)
Reached(m, s) == Len(m.history) \in 0..6 /\ s = Line[Len(m.history) + 1]

(* A three-slice cycle is where its recorded transitions take it on the line*)
(* from admitted to promoted, or was there when it was blocked: it skips    *)
(* nothing, never turns back and records at most six transitions.           *)
OnTheLine == mode = "three_slice" => Reached(manifest, Position(manifest))

LineInv ==
    /\ OnTheLine
    /\ mode = "three_slice" /\ pc = "saving" /\ mem.state # "blocked" =>
           Reached(mem, mem.state)

(* The recorded transitions of a three-slice cycle are only added to, one at*)
(* a time, also when the file is edited under a call.                       *)
TransitionsKept ==
    [][mode = "three_slice" =>
           \/ manifest'.history = manifest.history
           \/ \E t \in SequenceStates :
                  manifest'.history =
                      Append(manifest.history, [from |-> manifest.state, to |-> t])
      ]_vars

(* A call works on the evidence that is on file. *)
EvidenceOnFile ==
    mode = "three_slice" /\ pc # "idle" =>
        /\ mem.reports = manifest.reports
        /\ mem.reviewed = manifest.reviewed
        /\ mem.record = manifest.record
        /\ mem.cert = manifest.cert

(* No step takes attached evidence out of the manifest of a three-slice     *)
(* cycle: a report stays where it is, reviews and a passing certification   *)
(* stay named.                                                              *)
EvidenceKept ==
    [][mode = "three_slice" =>
           /\ \/ manifest'.reports = manifest.reports
              \/ manifest'.reports = Append(manifest.reports, now)
           /\ manifest.reviewed => manifest'.reviewed
           /\ manifest.record /\ manifest.cert = "passed" =>
                  manifest'.record /\ manifest'.cert = "passed"]_vars

(* One step along the line. *)
LEMMA NextOnLine ==
    ASSUME NEW n \in 0..6, Target[Line[n + 1]] # Line[n + 1]
    PROVE  n + 1 \in 0..6 /\ Target[Line[n + 1]] = Line[n + 2]
BY DEF Target, Line

LEMMA LineStep ==
    TypeOK /\ CallInv /\ PathInv /\ LineInv /\ [Next]_vars => LineInv'
<1> SUFFICES ASSUME TypeOK, CallInv, PathInv, LineInv, [Next]_vars,
                    mode' = "three_slice"
             PROVE  LineInv'
  BY DEF LineInv, OnTheLine
<1> USE DEF Position, OnTheLine
<1>0. /\ manifest \in Manifest /\ mem \in Manifest
      /\ mode = "three_slice"
      /\ Reached(manifest, Position(manifest))
      /\ {manifest.state, mem.state, prior} \subseteq SequenceStates
  BY SequenceSteps DEF TypeOK, LineInv, CallInv
<1>1. CASE Begin
  BY <1>1, <1>0 DEF Begin, LineInv
<1>2. CASE Save
  <2>1. CASE mem.state = "blocked"
    <3>1. mem.history = manifest.history
      BY <2>1, <1>2, <1>0 DEF Save, PathInv
    <3>2. manifest' = mem /\ prior' = Position(manifest) /\ pc' = "idle"
      BY <2>1, <1>2 DEF Save
    <3> QED BY <2>1, <3>1, <3>2, <1>0 DEF LineInv, Reached
  <2>2. CASE mem.state # "blocked"
    BY <2>2, <1>2, <1>0 DEF Save, LineInv
  <2> QED BY <2>1, <2>2
<1>3. CASE Crash
  BY <1>3, <1>0 DEF Crash, LineInv
<1>4. CASE AdvanceSequence
  <2>1. CASE Target[mem.state] = mem.state
    BY <1>4, <2>1, <1>0 DEF AdvanceSequence, LineInv
  <2>2. CASE Target[mem.state] # mem.state
    <3>1. mem.state # "blocked"
      BY <2>2, <1>0, TargetType DEF Target
    <3>2. mem.state = manifest.state /\ mem.history = manifest.history
      BY <1>4, <1>0, <3>1 DEF AdvanceSequence, PathInv
    <3>3. /\ mem'.state = Target[mem.state]
          /\ mem'.history = Append(mem.history,
                 [from |-> mem.state, to |-> Target[mem.state]])
      BY <1>4, <2>2, <1>0 DEF AdvanceSequence, Finish, Recorded, Manifest
    <3>4. UNCHANGED <<manifest, prior>>
      BY <1>4, <2>2 DEF AdvanceSequence, Finish
    <3>5. Len(mem'.history) = Len(mem.history) + 1
      BY <3>3, <1>0 DEF Manifest
    <3>6. Len(mem.history) \in 0..6 /\ mem.state = Line[Len(mem.history) + 1]
      BY <1>0, <3>1, <3>2 DEF Reached
    <3>7. Reached(mem', mem'.state)
      <4>1. /\ Len(mem.history) + 1 \in 0..6
            /\ Target[mem.state] = Line[Len(mem.history) + 2]
        BY <3>6, <2>2, NextOnLine
      <4> QED BY <4>1, <3>3, <3>5, <3>6 DEF Reached
    <3> QED BY <1>0, <3>4, <3>7 DEF LineInv
  <2> QED BY <2>1, <2>2
<1>5. CASE Refuse /\ manifest' = manifest /\ mem' = [mem EXCEPT !.state = "blocked"]
  <2>1. mem'.state = "blocked"
    BY <1>5, <1>0 DEF Manifest
  <2> QED BY <1>5, <1>0, <2>1 DEF Refuse, Finish, LineInv
<1>6. CASE Unblock /\ manifest' = [manifest EXCEPT !.state = prior]
  <2>1. /\ manifest'.state = prior /\ manifest'.history = manifest.history
        /\ manifest.state = "blocked"
    BY <1>6, <1>0 DEF Unblock, Manifest
  <2>2. UNCHANGED <<mem, pc, prior>>
    BY <1>6 DEF Unblock, Edit
  <2> QED BY <1>0, <2>1, <2>2 DEF LineInv, Reached
<1>7. CASE Attach
  <2>1. manifest'.state = manifest.state /\ manifest'.history = manifest.history
    BY <1>7, <1>0 DEF Attach, Edit, Manifest
  <2>2. UNCHANGED <<mem, pc, prior>>
    BY <1>7 DEF Attach, Edit
  <2> QED BY <1>0, <2>1, <2>2 DEF LineInv, Reached
<1>8. CASE UNCHANGED vars
  BY <1>8, <1>0 DEF vars, LineInv
<1> QED BY <1>1, <1>2, <1>3, <1>4, <1>5, <1>6, <1>7, <1>8, SequenceSteps

(* A three-slice cycle goes along the line, one recorded transition at a    *)
(* time, however it was blocked, killed or edited on the way.               *)
THEOREM AlongTheLine == Spec => []OnTheLine
<1>1. LineInv => OnTheLine
  BY DEF LineInv
<1>2. Init => CallInv /\ PathInv /\ LineInv
  BY CallStart
  DEF Init, PathInv, IsPath, Position, NewManifest, LineInv, OnTheLine, Reached,
      Line
<1> QED BY <1>1, <1>2, TypeCorrect, CallStep, PathStep, LineStep, PTL DEF Spec

(* What a step of a three-slice cycle may do to the recorded transitions. *)
LEMMA HistoryStep ==
    ASSUME TypeOK, CallInv, PathInv, mode = "three_slice", [Next]_vars
    PROVE  \/ manifest'.history = manifest.history
           \/ \E t \in SequenceStates :
                  manifest'.history =
                      Append(manifest.history, [from |-> manifest.state, to |-> t])
<1>0. manifest \in Manifest /\ mem.state \in SequenceStates /\ mode' = "three_slice"
  <2>1. UNCHANGED mode
    BY DEF Next, RunStep, vars, Begin, Save, Crash, AdvanceSequence, Refuse, Decide,
       RefuseEvidence, Recommend, NothingToDo, Execute, PlanFixes, PlanNothing,
       StartFixes, FixBundle, FinishFixes, CollectFixes, PromoteFixes, ReadRecord,
       Certify, CertifyFails, FollowAdvice, Unblock, Attach, Edit, Finish
  <2> QED BY <2>1 DEF TypeOK, CallInv
<1>1. CASE Save
  BY <1>1, <1>0 DEF Save, PathInv
<1>2. CASE Begin \/ Crash \/ AdvanceSequence \/ UNCHANGED vars
  BY <1>2 DEF Begin, Crash, AdvanceSequence, Finish, vars
<1>3. CASE Refuse /\ manifest' = manifest
  BY <1>3
<1>4. CASE Unblock /\ manifest' = [manifest EXCEPT !.state = prior]
  BY <1>4, <1>0 DEF Manifest
<1>5. CASE Attach
  BY <1>5, <1>0 DEF Attach, Edit, Manifest
<1> QED BY <1>0, <1>1, <1>2, <1>3, <1>4, <1>5, SequenceSteps

(* A three-slice cycle never loses or rewrites a recorded transition. *)
THEOREM TransitionsOnlyAdded == Spec => TransitionsKept
<1>1. TypeOK /\ CallInv /\ PathInv /\ [Next]_vars =>
          [mode = "three_slice" =>
               \/ manifest'.history = manifest.history
               \/ \E t \in SequenceStates :
                      manifest'.history = Append(manifest.history,
                          [from |-> manifest.state, to |-> t])]_vars
  BY HistoryStep
<1>2. Init => CallInv /\ PathInv
  BY CallStart DEF Init, PathInv, IsPath, Position, NewManifest
<1> QED BY <1>1, <1>2, TypeCorrect, CallStep, PathStep, PTL DEF Spec, TransitionsKept

(* Without edits under a call, what the call works on stays what is on file.*)
LEMMA OnFileStep ==
    ASSUME ~Overlap, TypeOK, CallInv, EvidenceOnFile, [Next]_vars
    PROVE  EvidenceOnFile'
<1> SUFFICES ASSUME mode' = "three_slice" PROVE EvidenceOnFile'
  BY DEF EvidenceOnFile
<1>0. manifest \in Manifest /\ mem \in Manifest /\ mode = "three_slice"
  BY SequenceSteps DEF TypeOK
<1>1. CASE Begin \/ Save \/ Crash \/ UNCHANGED vars
  BY <1>1, <1>0 DEF Begin, Save, Crash, vars, EvidenceOnFile
<1>2. CASE AdvanceSequence
  <2>1. \/ mem' = mem \/ mem' = Recorded(mem, Target[mem.state])
    BY <1>2 DEF AdvanceSequence, Finish
  <2>2. /\ mem'.reports = mem.reports /\ mem'.reviewed = mem.reviewed
        /\ mem'.record = mem.record /\ mem'.cert = mem.cert
    BY <2>1, <1>0 DEF Recorded, Manifest
  <2> QED BY <1>2, <1>0, <2>2 DEF AdvanceSequence, EvidenceOnFile
<1>3. CASE Refuse /\ manifest' = manifest /\ mem' = [mem EXCEPT !.state = "blocked"]
  BY <1>3, <1>0 DEF Refuse, Manifest, EvidenceOnFile
<1>4. CASE Unblock \/ Attach
  BY <1>4 DEF Unblock, Attach, Edit, EvidenceOnFile
<1> QED BY <1>1, <1>2, <1>3, <1>4, SequenceSteps

LEMMA KeptStep ==
    ASSUME ~Overlap, TypeOK, CallInv, EvidenceOnFile, [Next]_vars,
           mode = "three_slice"
    PROVE  /\ \/ manifest'.reports = manifest.reports
              \/ manifest'.reports = Append(manifest.reports, now)
           /\ manifest.reviewed => manifest'.reviewed
           /\ manifest.record /\ manifest.cert = "passed" =>
                  manifest'.record /\ manifest'.cert = "passed"
<1>0. manifest \in Manifest /\ mode' = "three_slice"
  <2>1. UNCHANGED mode
    BY DEF Next, RunStep, vars, Begin, Save, Crash, AdvanceSequence, Refuse, Decide,
       RefuseEvidence, Recommend, NothingToDo, Execute, PlanFixes, PlanNothing,
       StartFixes, FixBundle, FinishFixes, CollectFixes, PromoteFixes, ReadRecord,
       Certify, CertifyFails, FollowAdvice, Unblock, Attach, Edit, Finish
  <2> QED BY <2>1 DEF TypeOK
<1>1. CASE Save
  BY <1>1 DEF Save, EvidenceOnFile
<1>2. CASE Begin \/ Crash \/ AdvanceSequence \/ UNCHANGED vars
  BY <1>2 DEF Begin, Crash, AdvanceSequence, vars
<1>3. CASE Refuse /\ manifest' = manifest
  BY <1>3
<1>4. CASE Unblock /\ manifest' = [manifest EXCEPT !.state = prior]
  BY <1>4, <1>0 DEF Manifest
<1>5. CASE Attach
  <2>1. CASE manifest' = [manifest EXCEPT !.reports = Append(@, now)]
    BY <2>1, <1>0 DEF Manifest
  <2>2. CASE manifest' = [manifest EXCEPT !.reviewed = TRUE]
    BY <2>2, <1>0 DEF Manifest
  <2>3. CASE manifest' = [manifest EXCEPT !.cert = "passed", !.record = TRUE]
    BY <2>3, <1>0 DEF Manifest
  <2> QED BY <1>5, <2>1, <2>2, <2>3 DEF Attach, Edit
<1> QED BY <1>0, <1>1, <1>2, <1>3, <1>4, <1>5, SequenceSteps

(* If nobody edits the manifest under a call, a three-slice cycle loses no  *)
(* evidence once attached, whatever call was refused or stopped half-way.   *)
THEOREM NoEvidenceLost ==
    ASSUME ~Overlap PROVE Spec => EvidenceKept
<1>1. TypeOK /\ CallInv /\ EvidenceOnFile /\ [Next]_vars =>
          [mode = "three_slice" =>
               /\ \/ manifest'.reports = manifest.reports
                  \/ manifest'.reports = Append(manifest.reports, now)
               /\ manifest.reviewed => manifest'.reviewed
               /\ manifest.record /\ manifest.cert = "passed" =>
                      manifest'.record /\ manifest'.cert = "passed"]_vars
  BY KeptStep
<1>2. Init => CallInv /\ EvidenceOnFile
  BY CallStart DEF Init, EvidenceOnFile
<1>3. TypeOK /\ CallInv /\ EvidenceOnFile /\ [Next]_vars => EvidenceOnFile'
  BY OnFileStep
<1> QED BY <1>1, <1>2, <1>3, TypeCorrect, CallStep, PTL DEF Spec, EvidenceKept

----------------------------------------------------------------------------
(* Fix reports                                                              *)

(* No step takes back a report that a manifest rests on. *)
LEMMA FixStep ==
    ASSUME ~SameSecond, TypeOK, CallInv, FixInv, [Next]_vars
    PROVE  FixInv'
<1> USE DEF Position, PostFix
<1>0. /\ manifest \in Manifest /\ mem \in Manifest /\ now \in Second
      /\ manifest.fixes \in Seq(Second) /\ mem.fixes \in Seq(Second)
      /\ collected \in Seq(Second)
      /\ mode \in {"legacy", "three_slice"}
  BY CycleConstants DEF TypeOK, Manifest
<1>e. Ran(<<>>)'
  BY DEF Ran
<1>1. CASE Begin
  <2>1. UNCHANGED <<fixRoadmap, fixReport, now>>
    BY <1>1 DEF Begin, files
  <2> QED BY <1>1, <2>1 DEF Begin, FixInv, Rests, Ran
<1>2. CASE Save
  <2>1. UNCHANGED <<fixRoadmap, fixReport, now, mode, mem, collected>>
    BY <1>2 DEF Save, files
  <2>2. mode = "legacy" /\ Position(manifest)' \in PostFix => Rests(mem)
    BY <1>2 DEF Save, FixInv
  <2> QED BY <1>2, <2>1, <2>2 DEF Save, FixInv, Rests, Ran
<1>3. CASE Crash
  <2>1. UNCHANGED <<fixRoadmap, fixReport, now, mode, manifest, prior>>
    BY <1>3 DEF Crash, files
  <2> QED BY <1>3, <2>1, <1>e DEF Crash, FixInv, Rests, Ran
<1>4. CASE AdvanceSequence
  <2>1. mode' = "three_slice"
    BY <1>4 DEF AdvanceSequence, InSequence, Finish
  <2>2. collected' \in {collected, <<>>} /\ pc' # "fixing" /\ pc = "read"
        /\ UNCHANGED <<fixRoadmap, fixReport, now>>
    BY <1>4 DEF AdvanceSequence, Finish, files
  <2> QED BY <2>1, <2>2, <1>e DEF FixInv, Ran
<1>5. CASE Refuse
  <2>1. /\ mem'.state = "blocked" /\ mem'.fixes = mem.fixes
        /\ manifest' \in {manifest, mem} /\ pc = "read" /\ pc' = "saving"
        /\ collected' = <<>>
        /\ UNCHANGED <<mode, prior, fixRoadmap, fixReport, now>>
    BY <1>5, <1>0 DEF Refuse, Finish, Blocked, Manifest, files
  <2>2. CASE mode = "legacy"
    <3>1. CASE mem.state = "blocked"
      <4>1. prior \in PostFix => Rests(mem)
        BY <3>1, <2>1, <2>2 DEF FixInv
      <4>2. Position(manifest)' \in PostFix => prior \in PostFix
        BY <3>1, <2>1, <2>2 DEF FixInv
      <4>3. Position(manifest)' \in PostFix => Rests(mem) /\ Rests(manifest')
        BY <4>1, <4>2, <3>1, <2>1, <2>2 DEF FixInv
      <4> QED BY <2>1, <2>2, <4>3, <1>e DEF FixInv, Rests, Ran
    <3>2. CASE mem.state # "blocked"
      <4>1. manifest.state = mem.state
        BY <3>2, <2>1 DEF CallInv
      <4>2. Position(manifest)' \in PostFix => Rests(mem) /\ Rests(manifest')
        BY <4>1, <3>2, <2>1, <2>2 DEF FixInv
      <4> QED BY <2>1, <2>2, <4>2, <1>e DEF FixInv, Rests, Ran
    <3> QED BY <3>1, <3>2
  <2> QED BY <2>1, <2>2, <1>e DEF FixInv
<1>6. CASE Decide
  <2>1. UNCHANGED <<fixRoadmap, fixReport, now, mode, prior, mem, collected>>
        /\ manifest' = mem /\ pc = "read" /\ pc' = "decided" /\ mode = "legacy"
    BY <1>6, CallStep DEF Decide, files, CallInv
  <2>2. Position(manifest)' \in PostFix => Rests(mem)
    BY <2>1 DEF FixInv
  <2> QED BY <2>1, <2>2 DEF FixInv, Rests, Ran
<1>7. CASE RefuseEvidence
  <2>1. /\ mem'.state = "blocked" /\ mem'.fixes = mem.fixes
        /\ mem.state # "blocked" /\ pc \in {"decided", "fixing"}
        /\ pc' = "saving" /\ collected' = <<>>
        /\ UNCHANGED <<mode, prior, manifest, fixRoadmap, fixReport, now>>
    BY <1>7, <1>0 DEF RefuseEvidence, Finish, Blocked, Manifest, files
  <2>2. manifest.state = mem.state
    BY <2>1 DEF CallInv
  <2> QED BY <2>1, <2>2, <1>e DEF FixInv, Rests, Ran
<1>8. CASE Recommend \/ NothingToDo \/ PlanNothing \/ StartFixes
  <2>1. UNCHANGED <<fixRoadmap, fixReport, now, mode, prior, mem, manifest,
                    collected>>
        /\ pc = "decided" /\ pc' \in {"idle", "fixing"}
    BY <1>8 DEF Recommend, NothingToDo, PlanNothing, StartFixes, files
  <2> QED BY <2>1 DEF FixInv, Rests, Ran
<1>9. CASE Execute
  <2>1. /\ mem'.state = "execution_complete_unreviewed"
        /\ manifest.state = "execution_ready"
        /\ pc' = "saving" /\ collected' = <<>>
        /\ UNCHANGED <<manifest>>
    BY <1>9, <1>0 DEF Execute, Finish, Manifest, CallInv
  <2> QED BY <2>1, <1>e DEF FixInv
<1>10. CASE PlanFixes
  <2>1. /\ mem'.state = "fix_roadmap_ready"
        /\ manifest.state = "implementation_reviews_complete"
        /\ pc' = "saving" /\ collected' = <<>>
        /\ UNCHANGED <<manifest>>
    BY <1>10, <1>0 DEF PlanFixes, Finish, Manifest, CallInv
  <2> QED BY <2>1, <1>e DEF FixInv
<1>11. CASE FixBundle
  <2>1. /\ mem.state = "fix_roadmap_ready" /\ manifest.state = "fix_roadmap_ready"
        /\ UNCHANGED <<mode, manifest, mem, pc, prior, fixRoadmap>>
        /\ pc = "fixing"
    BY <1>11 DEF FixBundle, CallInv
  <2> DEFINE r == [round |-> fixRoadmap.round, bundle |-> Len(collected) + 1]
  <2>2. /\ now' = now + 1
        /\ fixReport' = [fixReport EXCEPT ![now] = r]
        /\ collected' = Append(collected, now)
    BY <1>11 DEF FixBundle, RunSlice
  <2>3. now' \in Second /\ now <= now' /\ now < now' /\ r \in Report
    BY <1>11, <1>0, <2>2, CycleConstants DEF FixBundle, RunSlice, Second, TypeOK,
       Report
  <2>5. ASSUME NEW i \in 1..Len(collected)
        PROVE  /\ collected[i] < now'
               /\ fixReport'[collected[i]] =
                      [round |-> fixRoadmap.round, bundle |-> i]
    <3>1. collected[i] \in Second /\ collected[i] < now
          /\ fixReport[collected[i]] = [round |-> fixRoadmap.round, bundle |-> i]
      BY <1>0 DEF FixInv, Ran
    <3>2. collected[i] < now' /\ collected[i] # now
      BY <3>1, <2>2, <1>0, CycleConstants DEF Second
    <3> QED BY <3>1, <3>2, <2>2 DEF TypeOK
  <2>6. fixReport'[now] = r
    BY <2>2, <1>0 DEF TypeOK
  <2>7. Ran(collected)'
    <3> SUFFICES ASSUME NEW i \in 1..Len(collected')
                 PROVE  /\ collected'[i] < now'
                        /\ fixReport'[collected'[i]] =
                               [round |-> fixRoadmap.round, bundle |-> i]
      BY <2>1 DEF Ran
    <3>1. CASE i \in 1..Len(collected)
      BY <3>1, <2>2, <2>5, <1>0
    <3>2. CASE i = Len(collected) + 1
      BY <3>2, <2>2, <2>3, <2>6, <1>0
    <3> QED BY <3>1, <3>2, <2>2, <1>0
  <2> QED BY <2>1, <2>7 DEF FixInv
<1>12. CASE FinishFixes
  <2>1. /\ mem'.state = "fixes_in_progress" /\ mem'.fixes = collected
        /\ Len(collected) = fixRoadmap.size
        /\ manifest.state = "fix_roadmap_ready"
        /\ pc' = "saving" /\ collected' = <<>>
        /\ UNCHANGED <<manifest, fixRoadmap, fixReport, now>>
    BY <1>12, <1>0 DEF FinishFixes, Finish, Manifest, CallInv, files
  <2>2. Rests(mem)'
    BY <2>1 DEF Rests, Ran, FixInv
  <2> QED BY <2>1, <2>2, <1>e DEF FixInv
<1>13. CASE CollectFixes \/ PromoteFixes
  <2>1. /\ mem.state \in PostFix /\ manifest.state = mem.state
        /\ mem'.state \in PostFix /\ mem'.fixes = mem.fixes
        /\ pc = "decided" /\ mode = "legacy" /\ pc' = "saving" /\ collected' = <<>>
        /\ UNCHANGED <<mode, prior, manifest, fixRoadmap, fixReport, now>>
    BY <1>13, <1>0 DEF CollectFixes, PromoteFixes, Finish, Manifest, CallInv, files
  <2> QED BY <2>1, <1>e DEF FixInv, Rests, Ran
<1>14. CASE ReadRecord \/ Certify \/ CertifyFails
  <2>1. /\ mem.state = "certification_pending"
        /\ manifest.state = "certification_pending"
        /\ pc = "decided" /\ mode = "legacy" /\ pc' = "saving" /\ collected' = <<>>
        /\ UNCHANGED <<mode, prior, manifest, fixRoadmap, fixReport, now>>
    BY <1>14 DEF ReadRecord, Certify, CertifyFails, Finish, CallInv, files
  <2>2. mem'.fixes = mem.fixes
    BY <1>14, <1>0 DEF ReadRecord, Certify, CertifyFails, Finish, Blocked, Manifest
  <2> QED BY <2>1, <2>2, <1>e DEF FixInv, Rests, Ran
<1>15. CASE FollowAdvice
  <2>1. manifest'.state \in {"roadmap_under_review", "roadmap_approved",
            "execution_ready", "execution_complete_unreviewed",
            "implementation_reviews_complete"}
    BY <1>15, <1>0 DEF FollowAdvice, Edit, CallInv, Manifest
  <2>2. pc = "idle" /\ UNCHANGED <<mode, pc, collected, fixRoadmap, fixReport, now>>
    BY <1>15 DEF FollowAdvice, Edit, CallInv
  <2> QED BY <2>1, <2>2 DEF FixInv, Ran
<1>16. CASE Unblock
  <2>1. /\ manifest'.fixes = manifest.fixes /\ manifest.state = "blocked"
        /\ manifest'.state \in {prior, "implementation_reviews_complete"}
        /\ UNCHANGED <<mode, mem, pc, prior, collected, fixRoadmap, fixReport, now>>
    BY <1>16, <1>0 DEF Unblock, Edit, Manifest
  <2>2. Position(manifest)' \in PostFix => Position(manifest) \in PostFix
    BY <2>1
  <2>3. Rests(manifest) => Rests(manifest)'
    BY <2>1 DEF Rests, Ran
  <2>4. Rests(mem) => Rests(mem)'
    BY <2>1 DEF Rests, Ran
  <2>5. Ran(collected)'
    BY <2>1 DEF FixInv, Ran
  <2> QED BY <2>1, <2>2, <2>3, <2>4, <2>5 DEF FixInv
<1>17. CASE Attach
  <2>1. mode' = "three_slice"
        /\ UNCHANGED <<pc, collected, fixRoadmap, fixReport, now>>
    BY <1>17 DEF Attach, Edit
  <2> QED BY <2>1 DEF FixInv, Ran
<1>18. CASE UNCHANGED vars
  BY <1>18 DEF vars, files, FixInv, Rests, Ran
<1> QED
  BY <1>1, <1>2, <1>3, <1>4, <1>5, <1>6, <1>7, <1>8, <1>9, <1>10, <1>11, <1>12,
     <1>13, <1>14, <1>15, <1>16, <1>17, <1>18 DEF Next, RunStep

(* If no two slices start within one second, every bundle of the fix        *)
(* roadmap has a report of its own from fixes_in_progress on.               *)
THEOREM FixesReported ==
    ASSUME ~SameSecond PROVE Spec => []EachFixReported
<1>1. FixInv => EachFixReported
  BY DEF FixInv, EachFixReported, Rests, Ran, Reported, Position, PostFix
<1>2. Init => CallInv /\ FixInv
  BY CallStart DEF Init, FixInv, Ran, Position, PostFix, NewManifest
<1>3. TypeOK /\ CallInv /\ FixInv /\ [Next]_vars => FixInv'
  BY FixStep
<1> QED BY <1>1, <1>2, <1>3, TypeCorrect, CallStep, PTL DEF Spec
=============================================================================
