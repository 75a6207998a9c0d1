------------------------------ MODULE MCBundleRun ------------------------------
(* Reviews and findings for the runs of BundleRun. *)
EXTENDS BundleRun

Review(type, step, blocking) ==
    [type |-> type, step |-> step, blocking |-> blocking]

Early == Review("checkpoint_review", 1, TRUE)
Last == Review("post_bundle_review", TotalSteps, TRUE)

(* One blocking review of each type, and one that need not be waited for. *)
AllReviews ==
    {Review("pre_bundle_review", 1, TRUE), Early, Last,
     Review("checkpoint_review", 2, FALSE)}

(* The early review finds up to two things, the advisory one up to one. *)
Findings ==
    {[review |-> Early, blocking |-> b] : b \in BOOLEAN} \cup
    {[review |-> Review("checkpoint_review", 2, FALSE), blocking |-> TRUE]}

AnyAnswer == {"success", "failed", "blocked", "review_required"}
DefaultExecutor == {"success", "failed"}
================================================================================
