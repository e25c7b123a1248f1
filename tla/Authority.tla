----------------------------- MODULE Authority -----------------------------
(***************************************************************************)
(* unasked/authority.py: prepare_authorization, commit_authorization with  *)
(* authorize, and the certificate audit, over the evidence of module       *)
(* RunStore.  A preparation is a pure read that external authorities sign; *)
(* any operation may come between it and its commit.  The gates that read  *)
(* documents this model does not tell apart (signatures, schemas, CAS      *)
(* digests, actor identities) are taken to pass.                           *)
(***************************************************************************)
EXTENDS RunStore

CONSTANT Kernel     \* callers of the authority kernel, each with one preparation

VARIABLES
    prepared,   \* the authorization each caller prepared last
    signed      \* the graph the commit of a candidate was checked against

authorityVars == <<vars, prepared, signed>>

(* Seeded bug: the reviews are forgotten, by the graph and by the gates.    *)
NoRequiredReview == {}
RequiredReview == Review
SignedFile ==
    {"candidate", "hypothesis", "plan", "environment", "result",
     "replay_environment", "replay"} \cup RequiredReview
Unprepared == [cand |-> 0]
Graph(c) ==
    [cand |-> c, files |-> [n \in SignedFile |-> file[c][n]],
     states |-> <<history[c], tail[c]>>, observations |-> observations,
     scan |-> scan, expectations |-> expectations,
     ledger |-> Len(ledger)]

(* evaluate: the gates over the evidence on disk.  A SUPPORTED state may    *)
(* rest on an execution that did not succeed; the gate does not accept it.  *)
ExperimentComplete(c) ==
    /\ Present(c, "plan") /\ Present(c, "environment")
    /\ file[c]["result"] = "SUPPORTS"
CleanReplayPassed(c) ==
    /\ Present(c, "replay_environment")
    /\ file[c]["replay"] = "PASS"
ReviewsApproved(c) == \A type \in RequiredReview : Present(c, type)
(* From identity_bound and declared_knowledge_boundary: no identifier is    *)
(* recorded twice, and the sources of the scan are those of the records.    *)
IntakeBound ==
    /\ scan /\ tail[0] # "garbled"
    /\ \A i \in 1..Found : Cardinality(Noted(i)) = 1
LegalHistory(c) == HistoryValid(c) /\ CurrentState(c) \in {"REPRODUCED", "VERIFIED"}
GatesPass(c) ==
    /\ ReadCandidate(c) /\ IntakeBound
    /\ ExperimentComplete(c) /\ CleanReplayPassed(c) /\ ReviewsApproved(c)
    /\ ~torn /\ LegalHistory(c)

AuthorityInit == Init /\ prepared = [k \in Kernel |-> Unprepared]
                      /\ signed = [c \in Candidate |-> Unprepared]

(* Under the lock, so while no operation is in progress.                    *)
Prepare(k, c) ==
    /\ job = <<>>
    /\ In(c, "REPRODUCED") /\ GatesPass(c)
    /\ prepared' = [prepared EXCEPT ![k] = Graph(c)]
    /\ UNCHANGED <<vars, signed>>

(* Seeded bug: VERIFIED is recorded before the certificate is written.      *)
AuthorizationStateFirst(c) ==
    Artifact(c, "verdict", "written", "VERDICT_AUTHORIZED")
    \o Transition(c, "VERIFIED", "written")
    \o Artifact(c, "certificate", "written", "CERTIFICATE_ISSUED")
Authorization(c) ==
    Artifact(c, "verdict", "written", "VERDICT_AUTHORIZED")
    \o Artifact(c, "certificate", "written", "CERTIFICATE_ISSUED")
    \o Transition(c, "VERIFIED", "written")
CommitWrites(c) ==
    Authorization(c)
    \o OneWrite("verify", c, "certificate", "absent")
    \o Artifact(c, "marker", "written", "AUTHORIZATION_COMMITTED")
Uncommitted(c) == \A n \in {"verdict", "certificate", "marker"} : ~Present(c, n)

(* Seeded bugs: the preparation is used unchecked, for any candidate; it is *)
(* not compared with the graph of now.                                      *)
CommitAnyPreparation(k, c) ==
    /\ prepared[k] # Unprepared
    /\ Uncommitted(c) /\ In(c, "REPRODUCED") /\ GatesPass(c)
    /\ Start(CommitWrites(c))
    /\ signed' = [signed EXCEPT ![c] = prepared[k]]
    /\ UNCHANGED prepared
CommitStale(k, c) == prepared[k].cand = c /\ CommitAnyPreparation(k, c)

Commit(k, c) ==
    /\ prepared[k].cand = c
    /\ Uncommitted(c) /\ In(c, "REPRODUCED")
    /\ GatesPass(c)
    /\ Graph(c) = prepared[k]
    /\ Start(CommitWrites(c))
    /\ signed' = [signed EXCEPT ![c] = Graph(c)]
    /\ UNCHANGED prepared

(* A read between the writes: the whole ledger and the history.             *)
VerifyStore ==
    /\ Doing("verify") /\ Steady /\ UNCHANGED <<prepared, signed>>
    /\ \/ ~torn /\ Readable(w.cand) /\ Continue /\ UNCHANGED store
       \/ (torn \/ ~Readable(w.cand)) /\ Raise

AuthorityNext ==
    \/ Next /\ UNCHANGED <<prepared, signed>>
    \/ VerifyStore
    \/ \E k \in Kernel, c \in Candidate : Prepare(k, c) \/ Commit(k, c)

AuthoritySpec == AuthorityInit /\ [][AuthorityNext]_authorityVars

(* An operation that holds the lock goes on to its next write.              *)
Progress ==
    WF_authorityVars(VerifyStore \/ (Perform /\ UNCHANGED <<prepared, signed>>))

-----------------------------------------------------------------------------
(* _audit_certificate.                                                     *)

Places(c, types, of) ==
    {i \in DOMAIN ledger : /\ ledger[i].cand = c
                           /\ ledger[i].type \in types
                           /\ ledger[i].of = of}
(* The candidate is taken to name every observation and expectation 1.     *)
EvidenceEvents(c) ==
    {Places(0, {"KNOWLEDGE_SCAN_COMPLETED"}, "scan"),
     Places(1, {"EXPECTATION_RECORDED"}, "expectation"),
     Places(c, {"EXPERIMENT_PLANNED"}, "plan"),
     Places(c, {"EXECUTION_ENVIRONMENT_RECORDED"}, "environment"),
     Places(c, {"EXPERIMENT_EXECUTED"}, "result"),
     Places(c, {"REPLAY_ENVIRONMENT_RECORDED", "EXTERNAL_REPLAY_ENVIRONMENT_IMPORTED"},
            "replay_environment"),
     Places(c, {"REPLAY_COMPLETED", "EXTERNAL_REPLAY_IMPORTED"}, "replay")}
    \cup {Places(c, {"REVIEW_RECORDED"}, type) : type \in Review}
    \cup {Places(i, {"OBSERVATION_RECORDED"}, "observation") : i \in 1..Found}
ArtifactEventsBound(c) == \A places \in EvidenceEvents(c) : Cardinality(places) = 1

(* The four events of the commit, once each, one behind the other, the      *)
(* first directly behind the ledger that was signed.                        *)
IssuanceBound(c) ==
    \E v \in DOMAIN ledger :
        /\ v = signed[c].ledger + 1
        /\ Places(c, {"VERDICT_AUTHORIZED"}, "verdict") = {v}
        /\ Places(c, {"CERTIFICATE_ISSUED"}, "certificate") = {v + 1}
        /\ Places(c, {"STATE_TRANSITION"}, "VERIFIED") = {v + 2}
        /\ Places(c, {"AUTHORIZATION_COMMITTED"}, "marker") = {v + 3}

Audit(c) ==
    /\ \A n \in {"verdict", "certificate", "marker"} : Present(c, n)
    /\ In(c, "VERIFIED")
    /\ GatesPass(c)
    /\ \A n \in SignedFile : file[c][n] = signed[c].files[n]
    /\ ArtifactEventsBound(c)
    /\ IssuanceBound(c)

-----------------------------------------------------------------------------
(* Nothing came between what the authorities signed and the verdict: the    *)
(* verdict is the event directly behind the signed ledger, the evidence is  *)
(* still the signed one, and the history only had VERIFIED and what follows *)
(* it added.  So of two preparations over one ledger head at most one gets  *)
(* its verdict into the ledger.                                             *)
VerdictFollowsSignedGraph ==
    \A c \in Candidate : \A i \in Places(c, {"VERDICT_AUTHORIZED"}, "verdict") :
        LET g == signed[c] IN
        /\ i = g.ledger + 1
        /\ \A n \in DOMAIN g.files : file[c][n] = g.files[n]
        /\ SubSeq(history[c], 1, Len(g.states[1])) = g.states[1]
        /\ \A j \in Len(g.states[1]) + 1..Len(history[c]) :
                history[c][j].to \in {"VERIFIED", "STALE", "REVOKED"} \cup Rejection

(* Every event an audit relies on was in the ledger before the verdict,     *)
(* although the audit compares no positions of evidence events.             *)
AuditedEvidencePrecedesVerdict ==
    \A c \in Candidate : Audit(c) =>
        /\ \A places \in EvidenceEvents(c) : \A i \in places : i <= signed[c].ledger
        /\ \A i \in Places(c, {"STATE_TRANSITION"}, "REPRODUCED") : i <= signed[c].ledger

(* A certificate that audits keeps auditing whatever is done to other       *)
(* candidates or added to the run, until its candidate is withdrawn, or a   *)
(* write that failed part-way spoils the ledger or the history.             *)
AuditIsStable ==
    [][\A c \in Candidate : Audit(c) => (Audit(c) \/ torn \/ ~In(c, "VERIFIED"))']_authorityVars

(* The authority implements what module Authorizations promises: evidence   *)
(* is frozen from the beginning of a commit on, commits are carried out one *)
(* at a time and over what was prepared, and neither an interrupted commit  *)
(* nor a certificate that ceased to audit is ever made good.                *)
Committing(c) ==
    \E i \in DOMAIN job : job[i].value = "AUTHORIZATION_COMMITTED" /\ job[i].cand = c
EvidenceOf(c) == [n \in SignedFile |-> file[c][n]]
Promise == INSTANCE Authorizations WITH
    Evidence <- [SignedFile -> Content],
    evidence <- [c \in Candidate |-> EvidenceOf(c)],
    offers <- {[cand |-> prepared[k].cand, evidence |-> prepared[k].files] :
                   k \in {l \in Kernel : prepared[l] # Unprepared}},
    status <- [c \in Candidate |->
                 IF Committing(c) THEN "committing" ELSE IF Audit(c) THEN "valid"
                 ELSE IF Present(c, "verdict") THEN "void" ELSE "open"]
ImplementsAuthorizations == Promise!Spec

(* Committing gets done: without a fault, a commit that began ends in a     *)
(* certificate that audits, whatever other callers prepared meanwhile.      *)
CommitCompletes ==
    \A c \in Candidate :
        Doing("file") /\ w.of = "verdict" /\ w.cand = c ~> faults > 0 \/ Audit(c)

(* A VERIFIED candidate of an idle run whose certificate does not audit was *)
(* interrupted in its commit, or lost to the ledger the event of a piece of *)
(* evidence, which no gate of the commit looks for, or a later write was    *)
(* cut short.                                                               *)
UnauditableOnlyByFault ==
    \A c \in Candidate :
        job = <<>> /\ In(c, "VERIFIED") /\ ~Audit(c) =>
            \/ Places(c, {"AUTHORIZATION_COMMITTED"}, "marker") = {}
            \/ ~ArtifactEventsBound(c)
            \/ torn

(* authority.py: "Atomically serialize one VERIFIED transition".  In a run  *)
(* at rest, a candidate that was moved to VERIFIED has its commit marker in *)
(* the ledger.                                                              *)
CommitIsAtomic ==
    \A c \in Candidate :
        job = <<>> /\ (\E i \in DOMAIN history[c] : history[c][i].to = "VERIFIED") =>
            Places(c, {"AUTHORIZATION_COMMITTED"}, "marker") # {}
=============================================================================
