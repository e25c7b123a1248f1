------------------------------- MODULE Policy -------------------------------
(***************************************************************************)
(* unasked/policy.py: the states of a candidate, the transitions between   *)
(* them, the capabilities of each role, and the capability project.py asks *)
(* for before it records a transition.                                     *)
(***************************************************************************)

Rejection ==
    {"FALSIFIED", "DUPLICATE", "INCONCLUSIVE", "NON_MATERIAL", "ENVIRONMENTAL", "STALE"}

State ==
    {"SIGNAL", "CANDIDATE", "HYPOTHESIZED", "TESTABLE", "SUPPORTED", "REPRODUCED",
     "VERIFIED", "REVOKED"} \cup Rejection

(* ALLOWED_TRANSITIONS, as the set of states that may follow s.             *)
Allowed(s) ==
    CASE s = "SIGNAL"       -> {"CANDIDATE"} \cup Rejection
      [] s = "CANDIDATE"    -> {"HYPOTHESIZED"} \cup Rejection
      [] s = "HYPOTHESIZED" -> {"TESTABLE"} \cup Rejection
      [] s = "TESTABLE"     -> {"SUPPORTED"} \cup Rejection
      [] s = "SUPPORTED"    -> {"REPRODUCED"} \cup Rejection
      [] s = "REPRODUCED"   -> {"VERIFIED"} \cup Rejection
      [] s = "VERIFIED"     -> {"REVOKED", "STALE"}
      [] OTHER              -> {}

Role ==
    {"principal_investigator", "explorer", "experiment_planner", "sandbox_executor",
     "falsifier", "independent_reproducer", "authority_kernel", "human_judge", "system"}

Capabilities(role) ==
    CASE role = "principal_investigator" -> {"PUBLISH"}
      [] role = "explorer"           -> {"OBSERVE", "PROPOSE_CANDIDATE",
                                         "REQUEST_EXPERIMENT", "SUBMIT_EVIDENCE"}
      [] role = "experiment_planner" -> {"OBSERVE", "REQUEST_EXPERIMENT"}
      [] role = "sandbox_executor"   -> {"EXECUTE_SANDBOX", "SUBMIT_EVIDENCE"}
      [] role = "falsifier"          -> {"OBSERVE", "CHALLENGE", "SUBMIT_EVIDENCE"}
      [] role = "independent_reproducer" -> {"REPLAY", "SUBMIT_EVIDENCE"}
      [] role = "authority_kernel"   -> {"AUTHORIZE_VERDICT"}
      [] role = "human_judge"        -> {"AUTHORIZE_VERDICT", "PUBLISH"}
      [] role = "system"             -> {}

(* capability_for_target in Project._transition, and require_capability in  *)
(* authorize_verified; rejections and revocation ask for none.              *)
NeededFor(target) ==
    CASE target \in {"CANDIDATE", "HYPOTHESIZED"} -> {"PROPOSE_CANDIDATE"}
      [] target = "TESTABLE"   -> {"REQUEST_EXPERIMENT"}
      [] target = "SUPPORTED"  -> {"SUBMIT_EVIDENCE"}
      [] target = "REPRODUCED" -> {"REPLAY"}
      [] target = "VERIFIED"   -> {"AUTHORIZE_VERDICT"}
      [] OTHER                 -> {}

MayMove(role, target) == NeededFor(target) \subseteq Capabilities(role)
=============================================================================
