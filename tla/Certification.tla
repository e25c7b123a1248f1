--------------------------- MODULE Certification ---------------------------
(***************************************************************************)
(* unasked/trials.py: certify_m0_v2, with attestations.py under it.        *)
(* Producers assemble a bundle over the runs of a trial (report, evidence  *)
(* index, run matrix, ledger copies), external parties sign it, and one    *)
(* process walks the matrix and compares every entry with the run's        *)
(* present files.  It holds no lock while it walks: the runs go on.        *)
(*                                                                         *)
(* At most one candidate per run is followed, and of the runs only those   *)
(* in Busy and Unfinished still change.                                    *)
(***************************************************************************)
EXTENDS Trust

CONSTANTS
    Positive, Control,  \* the cases of the manifest, by kind
    Variant, Full,      \* the ablation variants and the full system among them
    Threshold,          \* the trusted positives M0 asks for (3 in the code)
    Walk,               \* the runs in the order of the walk
    Busy,               \* the runs in which a commit may still be made
    Unfinished,         \* the runs whose result is still to be written
    Claims,             \* what producers may list: [index, matrix, report]
    Signing,            \* the policies and envelopes a caller may hand in
    Horizon             \* bound on the clock

Case == Positive \cup Control
Run == Variant \X Case
Attester == Role \ {"DISCOVERY_AUTHORITY"}

Answer == {"M0_DEMONSTRATED", "M0_NOT_DEMONSTRATED"}

ASSUME CertificationAssumption ==
    /\ Full \in Variant /\ Positive # {} /\ Positive \cap Control = {}
    /\ Threshold \in Nat \ {0} /\ Horizon \in Nat
    /\ Walk \in Seq(Run)
    /\ \A r \in Run : \E i \in DOMAIN Walk : Walk[i] = r
    /\ \A i, j \in DOMAIN Walk : Walk[i] = Walk[j] => i = j
    /\ Busy \subseteq Run /\ Unfinished \subseteq Run
    /\ Claims \subseteq [index : SUBSET Busy, matrix : SUBSET Busy, report : SUBSET Busy]

(* A policy and envelopes in the form the schemas allow.                    *)
ASSUME SigningAssumption ==
    \A s \in Signing :
        /\ s.decision \in Answer
        /\ {s.policy.from, s.policy.until} \subseteq Nat
        /\ \A k \in s.policy.keys : {k.from, k.until} \subseteq Nat
        /\ \A role \in Attester :
              s.statement[role].role = role /\ s.statement[role].issued \in Nat

VARIABLES
    clock,
    result,     \* per run: "absent", "written" or "recorded" in the ledger
    commit,     \* per run: "none", "verified", "marked" or "committed"
    pc, at,     \* the caller, and its place in Walk
    bundle,     \* the evidence bundle: index, matrix, report and ledger copies
    signing,    \* the envelopes handed in with it
    opened,     \* history: each run's commit when the walk came to its entry
    closed,     \* history: each run's commit when the walk left its entry
    outcome     \* "none", "refused" or an answer

runs == <<result, commit>>
inputs == <<bundle, signing>>
vars == <<clock, result, commit, pc, at, bundle, signing, opened, closed, outcome>>

(* What a run's ledger says, and the files beside it.                       *)
Ledger(r) ==
    [result |-> result[r] = "recorded",
     verdict |-> commit[r] # "none",
     committed |-> commit[r] = "committed"]
Marker(r) == commit[r] \in {"marked", "committed"}

Init ==
    /\ clock = 0
    /\ result = [r \in Run |-> IF r \in Unfinished THEN "absent" ELSE "recorded"]
    /\ commit = [r \in Run |-> "none"]
    /\ pc = "idle" /\ at = 0
    /\ bundle = [index |-> {}, matrix |-> {}, report |-> {}, ledger |-> <<>>]
    /\ signing = <<>>
    /\ opened = [r \in Run |-> "none"] /\ closed = [r \in Run |-> "none"]
    /\ outcome = "none"

-----------------------------------------------------------------------------
(* The world: time passes, investigations end, authorities commit.  What    *)
(* happens after the answer is not followed.                                *)

Tick ==
    /\ pc # "done" /\ clock < Horizon /\ clock' = clock + 1
    /\ UNCHANGED <<result, commit, pc, at, bundle, signing, opened, closed, outcome>>

(* write_run_artifact of the result: the file, then its event.              *)
CompleteRun(r) ==
    /\ pc # "done" /\ r \in Unfinished /\ result[r] # "recorded"
    /\ result' = [result EXCEPT ![r] = IF @ = "absent" THEN "written" ELSE "recorded"]
    /\ UNCHANGED <<clock, commit, pc, at, bundle, signing, opened, closed, outcome>>

(* commit_authorization: verdict, certificate and VERIFIED with their       *)
(* events, then the marker, then its event (module Authority has them one   *)
(* by one).  A commit that dies stays where it is.                          *)
CommitRun(r) ==
    /\ pc # "done" /\ r \in Busy /\ commit[r] # "committed"
    /\ commit' = [commit EXCEPT ![r] =
                      CASE @ = "none" -> "verified"
                        [] @ = "verified" -> "marked"
                        [] @ = "marked" -> "committed"]
    /\ UNCHANGED <<clock, result, pc, at, bundle, signing, opened, closed, outcome>>

(* The producers' documents need not be true: "index" and "matrix" are the  *)
(* runs for which the evidence index and the run matrix list a certificate, *)
(* "report" those the report shows as a verified finding with every flag.   *)
(* The ledger copies are those of the moment.                               *)
Assemble ==
    /\ pc = "idle"
    /\ \A r \in Run : result[r] # "absent"
    /\ \E c \in Claims :
          bundle' = [index |-> c.index, matrix |-> c.matrix, report |-> c.report,
                     ledger |-> [r \in Run |-> Ledger(r)]]
    /\ pc' = "assembled"
    /\ UNCHANGED <<clock, result, commit, at, signing, opened, closed, outcome>>

-----------------------------------------------------------------------------
(* certify_m0_v2.  Every verification loads the policy anew, at its own     *)
(* time.                                                                    *)

Attested(s, role) == Verified(s.policy, s.statement[role], role, clock)
Qualified(s, role) == ProductionQualified(s.policy, s.statement[role])

CustodyAttested(s) == Attested(s, "CUSTODIAN")
IsolationAttested(s) == Attested(s, "ISOLATION_ATTESTER")
LedgerWitnessed(s) == Attested(s, "LEDGER_WITNESS")
EvaluationSigned(s) == Attested(s, "TRIAL_EVALUATOR")

Refuse ==
    /\ outcome' = "refused" /\ pc' = "done"
    /\ UNCHANGED <<clock, runs, at, inputs, opened, closed>>

(* The bindings of the five documents hold, custody is verified.            *)
Begin ==
    /\ pc = "assembled"
    /\ \E s \in Signing :
        /\ signing' = s
        /\ IF CustodyAttested(s)
           THEN pc' = "open" /\ at' = 1 /\ UNCHANGED outcome
           ELSE pc' = "done" /\ outcome' = "refused" /\ UNCHANGED at
    /\ UNCHANGED <<clock, runs, bundle, opened, closed>>

Here == Walk[at]
Step(from, to) == pc = from /\ pc' = to /\ UNCHANGED <<clock, runs, inputs, outcome>>

(* The signed ledger is byte for byte the present one.                      *)
OpenEntry ==
    /\ pc = "open"
    /\ IF bundle.ledger[Here] = Ledger(Here)
       THEN /\ Step("open", "head")
            /\ opened' = [opened EXCEPT ![Here] = commit[Here]]
            /\ UNCHANGED <<at, closed>>
       ELSE Refuse

(* The ledger is read again: its head is the indexed one.                   *)
CheckHead ==
    /\ pc = "head"
    /\ IF bundle.ledger[Here] = Ledger(Here)
       THEN Step("head", "result") /\ UNCHANGED <<at, opened, closed>>
       ELSE Refuse

(* _verify_matrix_run_result: the result is the run's, and the ledger, read *)
(* once more, records it.                                                   *)
CheckResult ==
    /\ pc = "result"
    /\ IF Ledger(Here).result
       THEN Step("result", "attest") /\ UNCHANGED <<at, opened, closed>>
       ELSE Refuse

(* The isolation statement over the result, the checkpoint over the signed  *)
(* ledger; then the certificates, if the entry lists any.                   *)
CheckAttestations ==
    /\ pc = "attest"
    /\ IF IsolationAttested(signing) /\ LedgerWitnessed(signing)
       THEN /\ Step("attest", IF Here \in bundle.matrix THEN "audit" ELSE "markers")
            /\ UNCHANGED <<at, opened, closed>>
       ELSE Refuse

(* The document an entry's isolation statement is about, the result of the  *)
(* investigation (or of the baseline), and the one the audit of a           *)
(* certificate compares its subject with.                                   *)
RunResult(r) == [schema |-> "investigation-result", run |-> r]
ReplayResult(r) == [schema |-> "replay-result", run |-> r]

(* audit_certificate_v2, under the lock of the run.                         *)
AuditCertificateV2(r, subject) ==
    /\ Marker(r)
    /\ signing.policy.mode = "PRODUCTION"
    /\ subject = ReplayResult(r)
    /\ CustodyAttested(signing) /\ IsolationAttested(signing) /\ LedgerWitnessed(signing)
    /\ \A role \in {"CUSTODIAN", "ISOLATION_ATTESTER", "LEDGER_WITNESS"} :
           Qualified(signing, role)
    /\ Ledger(r).committed

AuditCertificates ==
    /\ pc = "audit"
    /\ IF AuditCertificateV2(Here, RunResult(Here)) /\ Here \in bundle.index
       THEN Step("audit", "markers") /\ UNCHANGED <<at, opened, closed>>
       ELSE Refuse

(* Seeded bugs: the markers on disk are not looked at; the ledger is not    *)
(* searched for committed authorizations.                                   *)
CompareIndexOnly ==
    /\ pc = "markers"
    /\ IF (Here \in bundle.index) = (Here \in bundle.matrix)
       THEN Step("markers", "events") /\ UNCHANGED <<at, opened, closed>>
       ELSE Refuse
CompareMarkers ==
    /\ pc = "markers"
    /\ IF /\ (Here \in bundle.index) = (Here \in bundle.matrix)
          /\ (Here \in bundle.matrix) = Marker(Here)
       THEN Step("markers", "events") /\ UNCHANGED <<at, opened, closed>>
       ELSE Refuse

Leave ==
    /\ Step("events", IF at < Len(Walk) THEN "open" ELSE "evaluate")
    /\ at' = IF at < Len(Walk) THEN at + 1 ELSE at
    /\ closed' = [closed EXCEPT ![Here] = commit[Here]]
    /\ UNCHANGED opened

LeaveUnchecked == pc = "events" /\ Leave
CompareEvents ==
    /\ pc = "events"
    /\ IF (Here \in bundle.matrix) = Ledger(Here).committed
       THEN Leave
       ELSE Refuse

-----------------------------------------------------------------------------
(* The findings of the full system, as the certificates show them: a run    *)
(* with certificates has every flag, one without has none.                  *)
Claimed(listed) == {c \in Case : <<Full, c>> \in listed}

Observed(listed, hidden) ==
    LET claimed == Claimed(listed) IN
    [trusted |-> Cardinality(claimed \cap Positive),
     falseControls |-> Cardinality(claimed \cap Control),
     falseClaims |-> Cardinality(claimed \ Positive),
     claimed |-> Cardinality(claimed),
     replayed |-> Cardinality(claimed),
     context |-> claimed # {},
     hidden |-> hidden]

(* The gates a signed evaluation must show for the counts it shows.         *)
GatesOf(o) ==
    [positives |-> o.trusted >= Threshold,
     controls |-> o.falseControls = 0 /\ o.falseClaims = 0,
     replay |-> o.replayed = o.claimed /\ o.falseClaims = 0,
     context |-> o.context,
     inputs |-> o.hidden]

AuthenticatedGraphs(s) ==
    /\ Qualified(s, "ISOLATION_ATTESTER") /\ Qualified(s, "LEDGER_WITNESS")
    /\ s.policy.mode = "PRODUCTION"

(* What certify_m0_v2 recomputes, and what the parties handed in: the       *)
(* evaluator signs the truth, or that every gate is met, with or without    *)
(* counts to match.                                                         *)
AllGates(gates) == \A g \in DOMAIN gates : gates[g]
Recomputed(listed, s) ==
    LET o == Observed(listed, Qualified(s, "CUSTODIAN")) IN
    [observed |-> o, gates |-> GatesOf(o), graphs |-> AuthenticatedGraphs(s)]
Evaluation(s) ==
    LET truth == Recomputed(bundle.report, s)
        boast == Observed({Full} \X Positive, TRUE)
    IN  CASE s.evaluator = "truthful" -> truth
          [] s.evaluator = "overstates" ->
                [observed |-> boast, gates |-> GatesOf(boast), graphs |-> TRUE]
          [] s.evaluator = "inconsistent" ->
                [observed |-> truth.observed, gates |-> GatesOf(boast), graphs |-> TRUE]

Consistent(e) == e.gates = GatesOf(e.observed)
ThresholdsMet(e) == AllGates(e.gates) /\ e.graphs

(* Seeded bug: the signed evaluation is not compared with the recomputed.   *)
EvaluationAsSigned(s) ==
    /\ EvaluationSigned(s)
    /\ bundle.report = bundle.matrix
    /\ Consistent(Evaluation(s))
EvaluationHolds(s) ==
    /\ EvaluationSigned(s)
    /\ bundle.report = bundle.matrix
    /\ Consistent(Evaluation(s))
    /\ Evaluation(s) = Recomputed(bundle.matrix, s)

Evaluate ==
    /\ pc = "evaluate"
    /\ IF EvaluationHolds(signing)
       THEN Step("evaluate", "certify") /\ UNCHANGED <<at, opened, closed>>
       ELSE Refuse

(* verify_m0_certification: custody and evaluation are verified once more   *)
(* with the certification, and must be good enough for what it claims.      *)
M0Certified(s) ==
    /\ Attested(s, "M0_CERTIFIER") /\ CustodyAttested(s) /\ EvaluationSigned(s)
    /\ s.decision = "M0_DEMONSTRATED" =>
          /\ Qualified(s, "M0_CERTIFIER") /\ Qualified(s, "CUSTODIAN")
          /\ ThresholdsMet(Evaluation(s))

Certify ==
    /\ pc = "certify"
    /\ IF /\ M0Certified(signing)
          /\ signing.decision = "M0_DEMONSTRATED" => AuthenticatedGraphs(signing)
       THEN /\ outcome' = signing.decision
            /\ pc' = "done"
            /\ UNCHANGED <<clock, runs, at, inputs, opened, closed>>
       ELSE Refuse

Next ==
    \/ Tick
    \/ \E r \in Run : CompleteRun(r) \/ CommitRun(r)
    \/ Assemble \/ Begin
    \/ OpenEntry \/ CheckHead \/ CheckResult \/ CheckAttestations
    \/ AuditCertificates \/ CompareMarkers \/ CompareEvents
    \/ Evaluate \/ Certify

Spec == Init /\ [][Next]_vars

-----------------------------------------------------------------------------
TypeOK ==
    /\ clock \in 0..Horizon
    /\ result \in [Run -> {"absent", "written", "recorded"}]
    /\ commit \in [Run -> {"none", "verified", "marked", "committed"}]
    /\ pc \in {"idle", "assembled", "open", "head", "result", "attest", "audit",
               "markers", "events", "evaluate", "certify", "done"}
    /\ at \in 0..Len(Walk)
    /\ {bundle.index, bundle.matrix, bundle.report} \subseteq SUBSET Busy
    /\ signing \in Signing \cup {<<>>}
    /\ outcome \in Answer \cup {"none", "refused"}

(* Whose signature a statement really carries: the holders of the keys that *)
(* are the role's, were active and in time when it was issued, and under    *)
(* which one of its signatures verifies.                                    *)
Signatories(role) ==
    LET s == signing.statement[role] IN
    {k.actor : k \in {x \in signing.policy.keys :
        /\ x.role = role /\ x.status = "ACTIVE"
        /\ x.from <= s.issued /\ s.issued <= x.until
        /\ \E i \in DOMAIN s.sigs : s.sigs[i] = x.public}}

(* No answer without its signatures, whatever keys sign twice, were revoked *)
(* or are held by one person: under PRODUCTION every statement behind an    *)
(* answer carries as many persons as its role's threshold asks for, nobody  *)
(* stands behind two roles, and the policy is in force when the answer      *)
(* falls, however long the walk took.                                       *)
AnswerIsSigned ==
    [][outcome = "none" /\ outcome' \in Answer =>
        /\ PolicyInForce(signing.policy, clock)
        /\ signing.policy.mode = "PRODUCTION" =>
              \A role \in Attester :
                /\ Cardinality(Signatories(role)) >= signing.policy.threshold[role]
                /\ \A other \in Attester \ {role} :
                      Signatories(role) \cap Signatories(other) = {}]_vars

(* Signers and producers who agree on it still cannot count what was not    *)
(* committed: the evaluation behind an answer shows as many verified        *)
(* positives and controls as the full system's runs had commits in their    *)
(* ledgers when the walk left them, and M0 is not demonstrated on less than *)
(* the threshold.                                                           *)
AnswerCountsCommits ==
    LET Commits(cases) ==
            Cardinality({c \in cases : closed[<<Full, c>>] = "committed"})
        observed == Evaluation(signing).observed
    IN  outcome \in Answer =>
            /\ observed.trusted = Commits(Positive)
            /\ observed.falseControls = Commits(Control)
            /\ outcome = "M0_DEMONSTRATED" =>
                  Commits(Positive) >= Threshold /\ Commits(Control) = 0

(* An answer leaves no authorization out: a run whose commit marker was on  *)
(* disk when the walk came to its entry, or whose commit was in the ledger  *)
(* when the walk left it, is one the matrix lists, although the marker and  *)
(* its event appear one after the other while the walk goes on.             *)
NoCommitIsHidden ==
    outcome \in Answer =>
        \A r \in Run :
            opened[r] \in {"marked", "committed"} \/ closed[r] = "committed" =>
                r \in bundle.matrix

(* Everything was done that M0 asks for: PRODUCTION policy in force, every  *)
(* statement signed and sound, truthful documents over runs that have not   *)
(* changed, enough committed positives and nothing else.                    *)
Earned ==
    LET committed == {r \in Run : commit[r] = "committed"} IN
    /\ signing # <<>>
    /\ signing.policy.mode = "PRODUCTION"
    /\ \A now \in 0..Horizon, role \in Attester :
          /\ Verified(signing.policy, signing.statement[role], role, now)
          /\ Qualified(signing, role)
    /\ signing.evaluator = "truthful" /\ signing.decision = "M0_DEMONSTRATED"
    /\ \A r \in Run : bundle.ledger[r] = Ledger(r) /\ Ledger(r).result
    /\ {bundle.index, bundle.matrix, bundle.report} = {committed}
    /\ \A r \in Run \ committed : commit[r] = "none"
    /\ Claimed(committed) \subseteq Positive
    /\ Cardinality(Claimed(committed)) >= Threshold

(* tests/test_m0_v2.py: "test_production_matrix_can_demonstrate_only_from_  *)
(* authenticated_runs" expects M0_DEMONSTRATED of a matrix that earned it.  *)
EarnedIsDemonstrated ==
    outcome # "none" /\ Earned => outcome = "M0_DEMONSTRATED"
=============================================================================
