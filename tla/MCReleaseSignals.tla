--------------------------- MODULE MCReleaseSignals ----------------------------
(* Payloads, ids and symmetry for the runs of ReleaseSignals. *)
EXTENDS ReleaseSignals, TLC

CONSTANTS p1, p2

OneProcess == {p1}
TwoProcesses == {p1, p2}
ProcessSymmetry == Permutations(TwoProcesses)

(* One evaluation of each eval set. *)
TwoRuns == {[set |-> "search", run |-> 1], [set |-> "heldout", run |-> 1]}

(* The search evaluation compared with the heldout one, and with itself. *)
Pairs == {<<s, h>> \in TwoRuns \X TwoRuns : s.set = "search"}

Payloads ==
    Score \cup CandidatePayload \cup Withhold \cup Readiness \cup Advisory

(* The candidate and its search score were stored before. *)
Searched ==
    << [kind |-> "candidate", cand |-> "c1", variant |-> 1],
       [kind |-> "score", cand |-> "c1",
        eval |-> CHOOSE run \in TwoRuns : run.set = "search"] >>

(* The id of a payload is its content hash; tests/hop/                      *)
(* test_experience_store.py also retargets one candidate's id to another's. *)
Ids == [a \in Payloads |->
            IF a.kind = "candidate" THEN [kind |-> "candidate", cand |-> a.cand]
            ELSE a]
================================================================================
