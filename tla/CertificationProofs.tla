----------------------- MODULE CertificationProofs -----------------------
(***************************************************************************)
(* What an answer of certify_m0_v2 rests on, for every set of cases, every *)
(* order of the walk and every policy.  The invariant says what the walk   *)
(* has settled: of the entries behind it, of the one it is at, and that it *)
(* has not touched the ones ahead.  Nothing is said of which certificates  *)
(* an audit accepts, so the theorems do not rest on that it refuses.       *)
(***************************************************************************)
EXTENDS Certification, TLAPS

AtEntry == {"open", "head", "result", "attest", "audit", "markers", "events"}
Walked == {"evaluate", "certify"}
Marked == {"marked", "committed"}

TypeInv ==
    /\ clock \in Nat
    /\ commit \in [Run -> {"none", "verified", "marked", "committed"}]
    /\ opened \in [Run -> {"none", "verified", "marked", "committed"}]
    /\ closed \in [Run -> {"none", "verified", "marked", "committed"}]
    /\ pc \in {"idle", "assembled", "done"} \cup AtEntry \cup Walked
    /\ at \in Nat
    /\ pc \in AtEntry \cup Walked => at \in 1..Len(Walk) /\ signing \in Signing
    /\ pc # "done" => outcome = "none"
    /\ outcome \in Answer \cup {"none", "refused"}

(* An entry the walk has left: its commits are listed, and only they.       *)
Settled(r) ==
    /\ opened[r] \in Marked => r \in bundle.matrix
    /\ closed[r] = "committed" <=> r \in bundle.matrix
Untouched(r) == opened[r] = "none" /\ closed[r] = "none"

WalkInv ==
    /\ pc \in {"idle", "assembled"} => \A r \in Run : Untouched(r)
    /\ pc \in AtEntry =>
          /\ \A i \in 1..Len(Walk) : i < at => Settled(Walk[i])
          /\ \A i \in 1..Len(Walk) : at < i => Untouched(Walk[i])
          /\ closed[Here] = "none"
          /\ opened[Here] \in Marked => Marker(Here)
    /\ pc = "open" => Untouched(Here)
    /\ pc = "events" => (opened[Here] \in Marked => Here \in bundle.matrix)
    /\ pc \in Walked => \A r \in Run : Settled(r)
    /\ outcome \in Answer => \A r \in Run : Settled(r)

(* The statements over an entry are verified for the whole walk, although   *)
(* the policy is loaded anew for each.                                      *)
Signed(role) == Enough(signing.policy, signing.statement[role])
SignedInv ==
    pc \in Walked \/ (pc \in AtEntry /\ (at > 1 \/ pc \in {"audit", "markers", "events"})) =>
        Signed("ISOLATION_ATTESTER") /\ Signed("LEDGER_WITNESS")

(* What was signed is what was recomputed.                                  *)
Counted ==
    /\ Consistent(Evaluation(signing))
    /\ Evaluation(signing) = Recomputed(bundle.matrix, signing)
CountInv ==
    /\ pc = "certify" \/ outcome \in Answer => Counted
    /\ outcome = "M0_DEMONSTRATED" => ThresholdsMet(Evaluation(signing))

Inv == TypeInv /\ WalkInv /\ SignedInv /\ CountInv

-----------------------------------------------------------------------------
LEMMA WalkFacts ==
    /\ Walk \in Seq(Run) /\ Len(Walk) \in Nat \ {0}
    /\ \A i \in 1..Len(Walk) : Walk[i] \in Run
    /\ \A r \in Run : \E i \in 1..Len(Walk) : Walk[i] = r
    /\ \A i, j \in 1..Len(Walk) : Walk[i] = Walk[j] => i = j
  <1>1. Walk \in Seq(Run) /\ DOMAIN Walk = 1..Len(Walk) /\ Len(Walk) \in Nat
    BY CertificationAssumption
  <1>2. PICK c : c \in Positive
    BY CertificationAssumption
  <1>3. <<Full, c>> \in Run
    BY <1>2, CertificationAssumption DEF Run, Case
  <1>4. Len(Walk) # 0
    BY <1>1, <1>3, CertificationAssumption
  <1> QED  BY <1>1, <1>4, CertificationAssumption

(* The runs go on while the walk does, and a marker stays.                  *)
LEMMA WorldKeeps ==
    ASSUME Inv,
           Tick \/ (\E r \in Run : CompleteRun(r) \/ CommitRun(r))
    PROVE  Inv'
  <1>1. /\ UNCHANGED <<pc, at, bundle, signing, opened, closed, outcome>>
        /\ commit' \in [Run -> {"none", "verified", "marked", "committed"}]
        /\ clock' \in Nat
        /\ \A r \in Run : commit[r] \in Marked => commit'[r] \in Marked
    <2>1. CASE Tick
      BY <2>1 DEF Tick, Inv, TypeInv
    <2>2. ASSUME NEW r \in Run, CompleteRun(r)  PROVE <1>1!:
      BY <2>2 DEF CompleteRun, Inv, TypeInv
    <2>3. ASSUME NEW r \in Run, CommitRun(r)  PROVE <1>1!:
      BY <2>3 DEF CommitRun, Inv, TypeInv, Marked
    <2> QED  BY <2>1, <2>2, <2>3
  <1>2. TypeInv'
    BY <1>1 DEF Inv, TypeInv
  <1>3. WalkInv'
    <2>1. pc \in AtEntry => Here \in Run /\ Here' = Here
      BY <1>1, WalkFacts DEF Inv, TypeInv, Here
    <2>2. pc \in AtEntry /\ Marker(Here) => Marker(Here)'
      BY <1>1, <2>1 DEF Marker, Marked, Here
    <2> QED  BY <1>1, <2>1, <2>2 DEF Inv, WalkInv, Settled, Untouched, Here
  <1>4. SignedInv'
    BY <1>1 DEF Inv, SignedInv, Signed
  <1>5. CountInv'
    BY <1>1 DEF Inv, CountInv, Counted, Evaluation
  <1> QED  BY <1>2, <1>3, <1>4, <1>5 DEF Inv

(* A refusal ends the walk without an answer.                               *)
LEMMA RefusalKeeps == ASSUME Inv, Refuse  PROVE Inv'
  <1>1. /\ pc' = "done" /\ outcome' = "refused"
        /\ UNCHANGED <<clock, commit, at, signing, opened, closed>>
    BY DEF Refuse, runs, inputs
  <1>2. TypeInv'
    BY <1>1 DEF Inv, TypeInv, AtEntry, Walked
  <1> QED  BY <1>1, <1>2 DEF Inv, WalkInv, SignedInv, CountInv, AtEntry, Walked, Answer

LEMMA AssembleKeeps == ASSUME Inv, Assemble  PROVE Inv'
  <1>1. /\ pc = "idle" /\ pc' = "assembled" /\ outcome = "none"
        /\ UNCHANGED <<clock, commit, at, signing, opened, closed, outcome>>
    BY DEF Assemble, Inv, TypeInv
  <1>2. TypeInv'
    BY <1>1 DEF Inv, TypeInv, AtEntry, Walked
  <1>3. WalkInv'
    BY <1>1 DEF Inv, WalkInv, Untouched, AtEntry, Walked, Answer
  <1> QED  BY <1>1, <1>2, <1>3 DEF Inv, SignedInv, CountInv, AtEntry, Walked, Answer

LEMMA BeginKeeps == ASSUME Inv, Begin  PROVE Inv'
  <1>1. /\ pc = "assembled" /\ outcome = "none" /\ signing' \in Signing
        /\ UNCHANGED <<clock, commit, bundle, opened, closed>>
        /\ \/ pc' = "open" /\ at' = 1 /\ outcome' = outcome
           \/ pc' = "done" /\ outcome' = "refused" /\ at' = at
    BY DEF Begin, runs, Inv, TypeInv
  <1>2. TypeInv'
    BY <1>1, WalkFacts DEF Inv, TypeInv, AtEntry, Walked
  <1>3. \A r \in Run : Untouched(r)'
    BY <1>1 DEF Inv, WalkInv, Untouched
  <1>4. CASE pc' = "open" /\ at' = 1 /\ outcome' = outcome
    <2>1. WalkInv'
      BY <1>1, <1>3, <1>4, WalkFacts
         DEF WalkInv, Untouched, AtEntry, Walked, Answer, Marked, Here
    <2>2. SignedInv' /\ CountInv'
      BY <1>1, <1>4 DEF SignedInv, CountInv, AtEntry, Walked, Answer
    <2> QED  BY <1>2, <2>1, <2>2 DEF Inv
  <1>5. CASE pc' = "done" /\ outcome' = "refused"
    BY <1>2, <1>5 DEF Inv, WalkInv, SignedInv, CountInv, AtEntry, Walked, Answer
  <1> QED  BY <1>1, <1>4, <1>5

(* A step within an entry settles nothing and touches nothing else.         *)
LEMMA WithinEntry ==
    ASSUME Inv, NEW from \in AtEntry, NEW to \in AtEntry \ {"open"}, Step(from, to),
           UNCHANGED <<at, closed>>,
           \A r \in Run : r # Here => opened'[r] = opened[r],
           opened' \in [Run -> {"none", "verified", "marked", "committed"}],
           opened'[Here] \in Marked => Marker(Here),
           to = "events" => (opened'[Here] \in Marked => Here \in bundle.matrix),
           to \in {"audit", "markers", "events"} =>
               Signed("ISOLATION_ATTESTER") /\ Signed("LEDGER_WITNESS")
    PROVE  Inv'
  <1>1. /\ pc = from /\ pc' = to /\ outcome' = outcome /\ outcome = "none"
        /\ UNCHANGED <<clock, commit, bundle, signing, at, closed>>
    BY DEF Step, runs, inputs, Inv, TypeInv, AtEntry
  <1>2. at \in 1..Len(Walk) /\ Here \in Run /\ Here' = Here
    BY <1>1, WalkFacts DEF Inv, TypeInv, Here
  <1>3. TypeInv'
    BY <1>1 DEF Inv, TypeInv, AtEntry, Walked
  <1>4. \A i \in 1..Len(Walk) : i # at => Walk[i] \in Run /\ Walk[i] # Here
    BY <1>2, WalkFacts DEF Here
  <1>5. WalkInv'
    <2>1. \A i \in 1..Len(Walk) : i < at => Settled(Walk[i])'
      BY <1>1, <1>2, <1>4 DEF Inv, WalkInv, Settled
    <2>2. \A i \in 1..Len(Walk) : at < i => Untouched(Walk[i])'
      BY <1>1, <1>2, <1>4 DEF Inv, WalkInv, Untouched
    <2>3. closed'[Here] = "none" /\ Marker(Here)' = Marker(Here)
      BY <1>1, <1>2 DEF Inv, WalkInv, Marker
    <2> QED
      BY <1>1, <1>2, <2>1, <2>2, <2>3 DEF WalkInv, AtEntry, Walked, Answer
  <1>6. SignedInv'
    BY <1>1 DEF Inv, SignedInv, Signed, AtEntry, Walked
  <1>7. CountInv'
    BY <1>1 DEF CountInv, AtEntry, Answer
  <1> QED  BY <1>3, <1>5, <1>6, <1>7 DEF Inv

LEMMA EntryKeeps ==
    ASSUME Inv, OpenEntry \/ CheckHead \/ CheckResult \/ CheckAttestations
                \/ AuditCertificates \/ CompareMarkers
    PROVE  Inv'
  <1> DEFINE Advance(from, to) == Step(from, to) /\ UNCHANGED <<at, opened, closed>>
  <1>1. pc \in AtEntry => Here \in Run
    BY WalkFacts DEF Inv, TypeInv, Here
  <1>2. opened \in [Run -> {"none", "verified", "marked", "committed"}]
    BY DEF Inv, TypeInv
  <1>3. ASSUME NEW from \in AtEntry, NEW to \in AtEntry \ {"open", "events"}, Advance(from, to),
               to \in {"audit", "markers"} =>
                   Signed("ISOLATION_ATTESTER") /\ Signed("LEDGER_WITNESS")
        PROVE  Inv'
    <2>1. pc \in AtEntry
      BY <1>3 DEF Step
    <2>2. opened[Here] \in Marked => Marker(Here)
      BY <2>1 DEF Inv, WalkInv
    <2> QED  BY <1>2, <1>3, <2>2, WithinEntry
  <1>4. CASE OpenEntry
    <2>1. CASE Refuse  BY <2>1, RefusalKeeps
    <2>2. CASE /\ Step("open", "head") /\ opened' = [opened EXCEPT ![Here] = commit[Here]]
               /\ UNCHANGED <<at, closed>>
      <3>1. Here \in Run
        BY <1>1, <2>2 DEF Step, AtEntry
      <3>2. commit[Here] \in {"none", "verified", "marked", "committed"}
        BY <3>1 DEF Inv, TypeInv
      <3>3. /\ opened' \in [Run -> {"none", "verified", "marked", "committed"}]
            /\ opened'[Here] = commit[Here]
            /\ \A r \in Run : r # Here => opened'[r] = opened[r]
        BY <1>2, <2>2, <3>1, <3>2
      <3>4. opened'[Here] \in Marked => Marker(Here)
        BY <3>3 DEF Marked, Marker
      <3>5. "open" \in AtEntry /\ "head" \in AtEntry \ {"open"}
        BY DEF AtEntry
      <3> QED  BY <2>2, <3>3, <3>4, <3>5, WithinEntry
    <2> QED  BY <1>4, <2>1, <2>2 DEF OpenEntry
  <1>5. CASE CheckHead
    <2>1. CASE Refuse  BY <2>1, RefusalKeeps
    <2>2. CASE Advance("head", "result")  BY <2>2, <1>3 DEF AtEntry
    <2> QED  BY <1>5, <2>1, <2>2 DEF CheckHead
  <1>6. CASE CheckResult
    <2>1. CASE Refuse  BY <2>1, RefusalKeeps
    <2>2. CASE Advance("result", "attest")  BY <2>2, <1>3 DEF AtEntry
    <2> QED  BY <1>6, <2>1, <2>2 DEF CheckResult
  <1>7. CASE CheckAttestations
    <2>1. CASE Refuse  BY <2>1, RefusalKeeps
    <2>2. CASE /\ IsolationAttested(signing) /\ LedgerWitnessed(signing)
               /\ Advance("attest", IF Here \in bundle.matrix THEN "audit" ELSE "markers")
      <3>1. signing \in Signing
        BY <2>2 DEF Inv, TypeInv, Step, AtEntry
      <3>2. Signed("ISOLATION_ATTESTER") /\ Signed("LEDGER_WITNESS")
        BY <2>2 DEF IsolationAttested, LedgerWitnessed, Attested, Verified, Signed
      <3> QED  BY <2>2, <3>2, <1>3 DEF AtEntry
    <2> QED  BY <1>7, <2>1, <2>2 DEF CheckAttestations
  <1>8. CASE AuditCertificates
    <2>1. CASE Refuse  BY <2>1, RefusalKeeps
    <2>2. CASE Advance("audit", "markers")
      <3>1. Signed("ISOLATION_ATTESTER") /\ Signed("LEDGER_WITNESS")
        BY <2>2 DEF Inv, SignedInv, Step, AtEntry
      <3> QED  BY <2>2, <3>1, <1>3 DEF AtEntry
    <2> QED  BY <1>8, <2>1, <2>2 DEF AuditCertificates
  <1>9. CASE CompareMarkers
    <2>1. CASE Refuse  BY <2>1, RefusalKeeps
    <2>2. CASE /\ (Here \in bundle.matrix) = Marker(Here)
               /\ Advance("markers", "events")
      <3>1. Signed("ISOLATION_ATTESTER") /\ Signed("LEDGER_WITNESS")
        BY <2>2 DEF Inv, SignedInv, Step, AtEntry
      <3>2. opened[Here] \in Marked => Marker(Here)
        BY <2>2 DEF Inv, WalkInv, Step, AtEntry
      <3>3. "markers" \in AtEntry /\ "events" \in AtEntry \ {"open"}
        BY DEF AtEntry
      <3> QED  BY <1>2, <2>2, <3>1, <3>2, <3>3, WithinEntry
    <2> QED  BY <1>9, <2>1, <2>2 DEF CompareMarkers
  <1> QED  BY <1>4, <1>5, <1>6, <1>7, <1>8, <1>9

(* Leaving an entry settles it: its marker was compared when the walk was   *)
(* past the moment it came, its commit when it leaves.                      *)
LEMMA LeaveKeeps == ASSUME Inv, CompareEvents  PROVE Inv'
  <1>1. CASE Refuse  BY <1>1, RefusalKeeps
  <1>2. CASE pc = "events" /\ (Here \in bundle.matrix) = Ledger(Here).committed /\ Leave
    <2>1. /\ pc = "events" /\ outcome' = outcome /\ outcome = "none"
          /\ UNCHANGED <<clock, commit, bundle, signing, opened>>
          /\ closed' = [closed EXCEPT ![Here] = commit[Here]]
          /\ pc' = IF at < Len(Walk) THEN "open" ELSE "evaluate"
          /\ at' = IF at < Len(Walk) THEN at + 1 ELSE at
      BY <1>2 DEF Leave, Step, runs, inputs, Inv, TypeInv
    <2>2. at \in 1..Len(Walk) /\ Here \in Run /\ signing \in Signing
      BY <2>1, WalkFacts DEF Inv, TypeInv, AtEntry, Here
    <2>3. commit[Here] \in {"none", "verified", "marked", "committed"}
      BY <2>2 DEF Inv, TypeInv
    <2>4. /\ closed' \in [Run -> {"none", "verified", "marked", "committed"}]
          /\ closed'[Here] = commit[Here]
          /\ \A r \in Run : r # Here => closed'[r] = closed[r]
      BY <2>1, <2>2, <2>3 DEF Inv, TypeInv
    <2>5. TypeInv'
      <3>1. pc' \in {"open", "evaluate"} /\ at' \in 1..Len(Walk)
        BY <2>1, <2>2, WalkFacts
      <3> QED  BY <2>1, <2>2, <2>4, <3>1 DEF Inv, TypeInv, AtEntry, Walked
    <2>6. \A i \in 1..Len(Walk) : i # at => Walk[i] \in Run /\ Walk[i] # Here
      BY <2>2, WalkFacts DEF Here
    <2>7. \A i \in 1..Len(Walk) : i <= at => Settled(Walk[i])'
      <3> SUFFICES ASSUME NEW i \in 1..Len(Walk), i <= at
                   PROVE  /\ opened[Walk[i]] \in Marked => Walk[i] \in bundle.matrix
                          /\ closed'[Walk[i]] = "committed" <=> Walk[i] \in bundle.matrix
        BY <2>1 DEF Settled
      <3>1. CASE i = at
        <4>1. (Here \in bundle.matrix) = (commit[Here] = "committed")
          BY <1>2 DEF Ledger
        <4>2. opened[Here] \in Marked => Here \in bundle.matrix
          BY <2>1 DEF Inv, WalkInv
        <4> QED  BY <3>1, <4>1, <4>2, <2>4 DEF Here
      <3>2. CASE i # at
        <4>1. i < at
          BY <3>2, <2>2
        <4>2. Settled(Walk[i]) /\ closed'[Walk[i]] = closed[Walk[i]]
          BY <4>1, <3>2, <2>1, <2>4, <2>6 DEF Inv, WalkInv, AtEntry
        <4> QED  BY <4>2 DEF Settled
      <3> QED  BY <3>1, <3>2
    <2>8. \A i \in 1..Len(Walk) : at < i => Untouched(Walk[i])'
      BY <2>1, <2>2, <2>4, <2>6 DEF Inv, WalkInv, Untouched, AtEntry
    <2>9. SignedInv' /\ CountInv'
      <3>1. Signed("ISOLATION_ATTESTER") /\ Signed("LEDGER_WITNESS")
        BY <2>1 DEF Inv, SignedInv, AtEntry
      <3> QED
        BY <2>1, <3>1 DEF SignedInv, Signed, CountInv, AtEntry, Walked, Answer
    <2>10. CASE at < Len(Walk)
      <3>1. pc' = "open" /\ at' = at + 1 /\ at' \in 1..Len(Walk) /\ Here' = Walk[at + 1]
        BY <2>1, <2>2, <2>10, WalkFacts DEF Here
      <3>2. Untouched(Here)'
        BY <2>2, <2>8, <2>10, <3>1, WalkFacts DEF Untouched
      <3>3. \A i \in 1..Len(Walk) : i < at' => Settled(Walk[i])'
        BY <2>2, <2>7, <3>1
      <3>4. \A i \in 1..Len(Walk) : at' < i => Untouched(Walk[i])'
        BY <2>2, <2>8, <3>1
      <3>5. WalkInv'
        BY <2>1, <3>1, <3>2, <3>3, <3>4 DEF WalkInv, Untouched, AtEntry, Walked, Answer, Marked
      <3> QED  BY <2>5, <2>9, <3>5 DEF Inv
    <2>11. CASE ~(at < Len(Walk))
      <3>1. pc' = "evaluate"
        BY <2>1, <2>11
      <3>2. \A r \in Run : Settled(r)'
        <4> SUFFICES ASSUME NEW r \in Run  PROVE Settled(r)'
          OBVIOUS
        <4>1. PICK i \in 1..Len(Walk) : Walk[i] = r
          BY WalkFacts
        <4>2. i <= at
          BY <2>2, <2>11, WalkFacts
        <4>3. Settled(Walk[i])'
          BY <4>2, <2>7
        <4> QED  BY <4>1, <4>3
      <3>3. WalkInv'
        BY <2>1, <3>1, <3>2 DEF WalkInv, AtEntry, Walked, Answer
      <3> QED  BY <2>5, <2>9, <3>3 DEF Inv
    <2> QED  BY <2>10, <2>11
  <1> QED  BY <1>1, <1>2 DEF CompareEvents

LEMMA EvaluateKeeps == ASSUME Inv, Evaluate  PROVE Inv'
  <1>1. CASE Refuse  BY <1>1, RefusalKeeps
  <1>2. CASE EvaluationHolds(signing) /\ Step("evaluate", "certify")
             /\ UNCHANGED <<at, opened, closed>>
    <2>1. /\ pc = "evaluate" /\ pc' = "certify" /\ outcome' = outcome /\ outcome = "none"
          /\ UNCHANGED <<clock, commit, bundle, signing, at, opened, closed>>
      BY <1>2 DEF Step, runs, inputs, Inv, TypeInv
    <2>2. TypeInv'
      BY <2>1 DEF Inv, TypeInv, AtEntry, Walked
    <2>3. WalkInv'
      BY <2>1 DEF Inv, WalkInv, Settled, AtEntry, Walked, Answer
    <2>4. SignedInv'
      BY <2>1 DEF Inv, SignedInv, Signed, AtEntry, Walked
    <2>5. CountInv'
      <3>1. Counted
        BY <1>2 DEF EvaluationHolds, Counted
      <3> QED  BY <2>1, <3>1 DEF CountInv, Counted, Evaluation, Answer
    <2> QED  BY <2>2, <2>3, <2>4, <2>5 DEF Inv
  <1> QED  BY <1>1, <1>2 DEF Evaluate

LEMMA CertifyKeeps == ASSUME Inv, Certify  PROVE Inv'
  <1>1. CASE Refuse  BY <1>1, RefusalKeeps
  <1>2. CASE /\ pc = "certify" /\ M0Certified(signing) /\ outcome' = signing.decision
             /\ pc' = "done" /\ UNCHANGED <<clock, runs, at, inputs, opened, closed>>
    <2>1. UNCHANGED <<clock, commit, bundle, signing, at, opened, closed>>
      BY <1>2 DEF runs, inputs
    <2>2. outcome' \in Answer
      BY <1>2, SigningAssumption DEF Inv, TypeInv, Walked
    <2>3. TypeInv'
      BY <1>2, <2>1, <2>2 DEF Inv, TypeInv, AtEntry, Walked
    <2>4. WalkInv'
      BY <1>2, <2>1 DEF Inv, WalkInv, Settled, AtEntry, Walked
    <2>5. SignedInv'
      BY <1>2 DEF SignedInv, AtEntry, Walked
    <2>6. CountInv'
      <3>1. Counted /\ (signing.decision = "M0_DEMONSTRATED" => ThresholdsMet(Evaluation(signing)))
        BY <1>2 DEF Inv, CountInv, M0Certified
      <3> QED  BY <1>2, <2>1, <3>1 DEF CountInv, Counted, Evaluation
    <2> QED  BY <2>3, <2>4, <2>5, <2>6 DEF Inv
  <1> QED  BY <1>1, <1>2 DEF Certify

LEMMA Keeps == Inv /\ [Next]_vars => Inv'
  <1> SUFFICES ASSUME Inv, [Next]_vars  PROVE Inv'
    OBVIOUS
  <1>1. CASE UNCHANGED vars
    <2>1. UNCHANGED <<clock, commit, pc, at, bundle, signing, opened, closed, outcome>>
      BY <1>1 DEF vars
    <2>2. TypeInv'
      BY <2>1 DEF Inv, TypeInv
    <2>3. WalkInv'
      BY <2>1 DEF Inv, WalkInv, Settled, Untouched, Here, Marker
    <2>4. SignedInv' /\ CountInv'
      BY <2>1 DEF Inv, SignedInv, Signed, CountInv, Counted, Evaluation
    <2> QED  BY <2>2, <2>3, <2>4 DEF Inv
  <1>2. CASE Next
    BY <1>2, WorldKeeps, AssembleKeeps, BeginKeeps, EntryKeeps, LeaveKeeps, EvaluateKeeps,
       CertifyKeeps DEF Next
  <1> QED  BY <1>1, <1>2

LEMMA Always == Spec => []Inv
  <1>1. Init => Inv
    <2> SUFFICES ASSUME Init  PROVE Inv
      OBVIOUS
    <2>1. TypeInv
      BY DEF Init, TypeInv, AtEntry, Walked
    <2>2. WalkInv
      BY DEF Init, WalkInv, Untouched, AtEntry, Walked, Answer
    <2> QED  BY <2>1, <2>2 DEF Init, Inv, SignedInv, CountInv, AtEntry, Walked, Answer
  <1> QED  BY <1>1, Keeps, PTL DEF Spec

-----------------------------------------------------------------------------
(* No answer leaves an authorization out that a run showed when the walk    *)
(* came to it, or had recorded when the walk left it.                       *)
THEOREM CommitsAreListed == Spec => []NoCommitIsHidden
  <1>1. Inv => NoCommitIsHidden
    BY DEF Inv, WalkInv, Settled, Marked, NoCommitIsHidden
  <1> QED  BY Always, <1>1, PTL

(* The numbers behind an answer are those of the commits in the ledgers,    *)
(* whatever producers and signers agreed on, and enough of them for M0.     *)
THEOREM CommitsAreCounted == Spec => []AnswerCountsCommits
  <1>1. Inv => AnswerCountsCommits
    <2> DEFINE Listed == Claimed(bundle.matrix)
               Commits(cases) == {c \in cases : closed[<<Full, c>>] = "committed"}
               observed == Evaluation(signing).observed
    <2> SUFFICES ASSUME Inv, outcome \in Answer
                 PROVE  /\ observed.trusted = Cardinality(Commits(Positive))
                        /\ observed.falseControls = Cardinality(Commits(Control))
                        /\ outcome = "M0_DEMONSTRATED" =>
                              /\ Cardinality(Commits(Positive)) >= Threshold
                              /\ Cardinality(Commits(Control)) = 0
      BY DEF AnswerCountsCommits
    <2>1. \A c \in Case : c \in Listed <=> closed[<<Full, c>>] = "committed"
      BY CertificationAssumption DEF Inv, WalkInv, Settled, Claimed, Run
    <2>2. /\ Listed \cap Positive = Commits(Positive)
          /\ Listed \cap Control = Commits(Control)
      BY <2>1 DEF Claimed, Case
    <2>3. /\ observed.trusted = Cardinality(Listed \cap Positive)
          /\ observed.falseControls = Cardinality(Listed \cap Control)
      BY DEF Inv, CountInv, Counted, Recomputed, Observed
    <2>4. ASSUME outcome = "M0_DEMONSTRATED"
          PROVE  observed.trusted >= Threshold /\ observed.falseControls = 0
      <3>1. AllGates(GatesOf(observed))
        BY <2>4 DEF Inv, CountInv, Counted, ThresholdsMet, Consistent
      <3> QED  BY <3>1 DEF AllGates, GatesOf
    <2> QED  BY <2>2, <2>3, <2>4
  <1> QED  BY Always, <1>1, PTL

-----------------------------------------------------------------------------
(* Under a policy that loads, the keys that qualify a statement are its     *)
(* signatories: the window of the policy holds those of its keys.           *)
LEMMA SignatoriesQualify ==
    ASSUME signing \in Signing, NEW role \in Attester, NEW now, Loads(signing.policy, now)
    PROVE  Signatories(role) = Actors(Qualifying(signing.policy, signing.statement[role]))
  <1> DEFINE p == signing.policy
             s == signing.statement[role]
  <1>1. /\ p.from \in Nat /\ p.until \in Nat /\ s.issued \in Nat /\ s.role = role
        /\ \A k \in p.keys : k.from \in Nat /\ k.until \in Nat
    BY SigningAssumption
  <1>2. \A k \in p.keys : p.from <= k.from /\ k.until <= p.until
    BY DEF Loads, KeysWithinPolicy
  <1>3. Qualifying(p, s) =
            {k \in p.keys : /\ k.role = role /\ k.status = "ACTIVE"
                            /\ k.from <= s.issued /\ s.issued <= k.until
                            /\ \E i \in DOMAIN s.sigs : s.sigs[i] = k.public}
    BY <1>1, <1>2 DEF Qualifying, Accepted, KeysFor
  <1> QED  BY <1>3 DEF Signatories, Actors

(* Enough persons stand behind each statement, and none behind two.         *)
LEMMA PersonsBehind ==
    ASSUME signing \in Signing, signing.policy.mode = "PRODUCTION",
           NEW now, Loads(signing.policy, now), \A role \in Attester : Signed(role)
    PROVE  \A role \in Attester :
             /\ Cardinality(Signatories(role)) >= signing.policy.threshold[role]
             /\ \A other \in Attester \ {role} : Signatories(role) \cap Signatories(other) = {}
  <1>1. ASSUME NEW role \in Attester
        PROVE  Cardinality(Signatories(role)) >= signing.policy.threshold[role]
    <2>1. signing.statement[role].role = role
      BY SigningAssumption
    <2> QED  BY <2>1, SignatoriesQualify DEF Signed, Enough, Identities
  <1>2. ASSUME NEW role \in Attester, NEW other \in Attester \ {role}
        PROVE  Signatories(role) \cap Signatories(other) = {}
    <2>1. \A k, l \in signing.policy.keys : k.actor = l.actor => k.role = l.role
      BY DEF Loads, OneRolePerActor
    <2> QED  BY <2>1 DEF Signatories
  <1> QED  BY <1>1, <1>2

(* Every statement behind an answer is signed by as many persons as its     *)
(* role asks for, nobody stands behind two of them, and the policy is in    *)
(* force when the answer falls.                                             *)
THEOREM AnswersAreSigned == Spec => AnswerIsSigned
  <1> DEFINE Behind ==
        outcome = "none" /\ outcome' \in Answer =>
          /\ PolicyInForce(signing.policy, clock)
          /\ signing.policy.mode = "PRODUCTION" =>
              \A role \in Attester :
                /\ Cardinality(Signatories(role)) >= signing.policy.threshold[role]
                /\ \A other \in Attester \ {role} :
                      Signatories(role) \cap Signatories(other) = {}
  <1>1. ASSUME Inv, [Next]_vars, outcome = "none", outcome' \in Answer
        PROVE  Certify /\ outcome' = signing.decision /\ M0Certified(signing)
    BY <1>1 DEF Next, vars, Tick, CompleteRun, CommitRun, Assemble, Begin, OpenEntry, CheckHead,
         CheckResult, CheckAttestations, AuditCertificates, CompareMarkers, CompareEvents, Leave,
         Evaluate, Certify, Refuse, Step, Answer
  <1>2. Inv /\ [Next]_vars => Behind
    <2> SUFFICES ASSUME Inv, [Next]_vars, outcome = "none", outcome' \in Answer
                 PROVE  Behind
      OBVIOUS
    <2>1. M0Certified(signing) /\ pc = "certify" /\ signing \in Signing
      BY <1>1 DEF Certify, Inv, TypeInv, Walked
    <2>2. /\ Loads(signing.policy, clock)
          /\ Signed("M0_CERTIFIER") /\ Signed("CUSTODIAN") /\ Signed("TRIAL_EVALUATOR")
      BY <2>1 DEF M0Certified, CustodyAttested, EvaluationSigned, Attested, Verified, Signed
    <2>3. Signed("ISOLATION_ATTESTER") /\ Signed("LEDGER_WITNESS")
      BY <2>1 DEF Inv, SignedInv, Walked
    <2>4. \A role \in Attester : Signed(role)
      BY <2>2, <2>3 DEF Attester, Role
    <2>5. PolicyInForce(signing.policy, clock)
      BY <2>2 DEF Loads
    <2> QED  BY <2>1, <2>2, <2>4, <2>5, PersonsBehind
  <1> QED  BY Always, <1>2, PTL DEF Spec, AnswerIsSigned
=============================================================================
