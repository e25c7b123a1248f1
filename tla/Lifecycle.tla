----------------------------- MODULE Lifecycle -----------------------------
(***************************************************************************)
(* The life of one candidate as the policy allows it, with the role that   *)
(* makes each move and without storage or faults: Project.create_candidate,*)
(* transition_candidate and authorize_verified over their guards.          *)
(***************************************************************************)
EXTENDS Policy, Naturals, Sequences

VARIABLE history    \* the state records: what was reached, and by which role

Current == history[Len(history)].to
Move(to, role) == history' = Append(history, [to |-> to, role |-> role])

Init == history = <<>>

(* The explorer's proposal writes three records in one call.                *)
CreateCandidate(role) ==
    /\ history = <<>>
    /\ "PROPOSE_CANDIDATE" \in Capabilities(role)
    /\ history' = << [to |-> "SIGNAL", role |-> role],
                     [to |-> "CANDIDATE", role |-> role],
                     [to |-> "HYPOTHESIZED", role |-> role] >>

TransitionCandidate(to, role) ==
    /\ history # <<>>
    /\ to # "VERIFIED"
    /\ to \in Allowed(Current) /\ MayMove(role, to)
    /\ Move(to, role)

AuthorizeVerified(role) ==
    /\ history # <<>>
    /\ Current = "REPRODUCED"
    /\ MayMove(role, "VERIFIED")
    /\ Move("VERIFIED", role)

Next ==
    \E role \in Role :
        \/ CreateCandidate(role)
        \/ \E to \in State : TransitionCandidate(to, role)
        \/ AuthorizeVerified(role)

Spec == Init /\ [][Next]_history
-----------------------------------------------------------------------------
RolesFor(s) == {history[i].role : i \in {j \in DOMAIN history : history[j].to = s}}
Disjoint(s, t) == RolesFor(s) \cap RolesFor(t) = {}

(* Whoever is VERIFIED passed through the hands of three roles: the one     *)
(* that proposed, the one that reproduced and the one that authorized are   *)
(* never the same role.                                                     *)
SeparationOfDuties ==
    /\ Disjoint("CANDIDATE", "REPRODUCED")
    /\ Disjoint("CANDIDATE", "VERIFIED")
    /\ Disjoint("SUPPORTED", "VERIFIED")
    /\ Disjoint("REPRODUCED", "VERIFIED")

(* A history that reaches VERIFIED went through every state of the main     *)
(* path, in order and once, whatever was tried in between.                  *)
VerifiedCameTheWholeWay ==
    \A i \in DOMAIN history :
        history[i].to = "VERIFIED" =>
            [j \in 1..i |-> history[j].to] =
                << "SIGNAL", "CANDIDATE", "HYPOTHESIZED", "TESTABLE", "SUPPORTED",
                   "REPRODUCED", "VERIFIED" >>

=============================================================================
