-------------------------- MODULE LifecycleProofs --------------------------
(***************************************************************************)
(* Whatever is tried, a candidate's history is a beginning of the main     *)
(* path, with at most one record that leaves it at the end; and every      *)
(* record was made by a role that may make it.                             *)
(***************************************************************************)
EXTENDS Lifecycle, TLAPS

Path ==
    << "SIGNAL", "CANDIDATE", "HYPOTHESIZED", "TESTABLE", "SUPPORTED", "REPRODUCED",
       "VERIFIED" >>
Off == Rejection \cup {"REVOKED"}
Record == [to : State, role : Role]

OnPath(i) == i \in 1..7 /\ history[i].to = Path[i]
PathInv ==
    history # <<>> =>
        /\ \A i \in 1..Len(history) - 1 : OnPath(i)
        /\ OnPath(Len(history)) \/ Current \in Off
RoleInv ==
    \A i \in 1..Len(history) :
        history[i].to # "SIGNAL" => MayMove(history[i].role, history[i].to)
LifeInv == history \in Seq(Record) /\ PathInv /\ RoleInv

-----------------------------------------------------------------------------
(* The states off the main path and the end of it lead to Off at most, each *)
(* state on it to the next one.                                             *)
LEMMA Successors ==
    /\ \A s \in Off : Allowed(s) = {}
    /\ \A i \in 1..7 : Allowed(Path[i]) \subseteq
          (IF i < 7 THEN {Path[i + 1]} ELSE {}) \cup Off
  <1>1. \A s \in Off : Allowed(s) = {}
    BY DEF Off, Rejection, Allowed
  <1>2. ASSUME NEW i \in 1..7
        PROVE  Allowed(Path[i]) \subseteq (IF i < 7 THEN {Path[i + 1]} ELSE {}) \cup Off
    <2>1. i \in {1, 2, 3, 4, 5, 6, 7}
      OBVIOUS
    <2>2. CASE i = 1  BY <2>2 DEF Path, Allowed, Off
    <2>3. CASE i = 2  BY <2>3 DEF Path, Allowed, Off
    <2>4. CASE i = 3  BY <2>4 DEF Path, Allowed, Off
    <2>5. CASE i = 4  BY <2>5 DEF Path, Allowed, Off
    <2>6. CASE i = 5  BY <2>6 DEF Path, Allowed, Off
    <2>7. CASE i = 6  BY <2>7 DEF Path, Allowed, Off
    <2>8. CASE i = 7  BY <2>8 DEF Path, Allowed, Off, Rejection
    <2> QED  BY <2>1, <2>2, <2>3, <2>4, <2>5, <2>6, <2>7, <2>8
  <1> QED  BY <1>1, <1>2

(* Adding a permitted successor of the last record keeps the invariant.     *)
LEMMA MoveKeeps ==
    ASSUME LifeInv, history # <<>>, NEW to \in State, NEW role \in Role,
           to \in Allowed(Current), MayMove(role, to), Move(to, role)
    PROVE  LifeInv'
  <1> DEFINE r == [to |-> to, role |-> role]
  <1>0. PICK n \in Nat : n = Len(history)
    BY DEF LifeInv
  <1>1. r \in Record  BY DEF Record
  <1>2. history \in Seq(Record) /\ n \in Nat \ {0} /\ n = Len(history)
    BY <1>0 DEF LifeInv
  <1>3. history' = Append(history, r)
    BY DEF Move
  <1>4. /\ history' \in Seq(Record) /\ Len(history') = n + 1
        /\ history'[n + 1] = r
        /\ \A i \in 1..n : history'[i] = history[i]
    BY <1>1, <1>2, <1>3
  <1>5. RoleInv'
    <2> SUFFICES ASSUME NEW i \in 1..n + 1, history'[i].to # "SIGNAL"
                 PROVE  MayMove(history'[i].role, history'[i].to)
      BY <1>4 DEF RoleInv
    <2>1. CASE i = n + 1  BY <2>1, <1>4
    <2>2. CASE i \in 1..n  BY <2>2, <1>2, <1>4 DEF LifeInv, RoleInv
    <2> QED  BY <2>1, <2>2, <1>2
  <1>6. Current \notin Off
    BY Successors
  <1>7. /\ \A i \in 1..n - 1 : OnPath(i)
        /\ OnPath(n)
    BY <1>2, <1>6 DEF LifeInv, PathInv
  <1>8. n \in 1..7 /\ Current = Path[n]
    BY <1>2, <1>7 DEF OnPath, Current
  <1>9. to \in Off \/ (n < 7 /\ to = Path[n + 1])
    <2>1. Allowed(Path[n]) \subseteq (IF n < 7 THEN {Path[n + 1]} ELSE {}) \cup Off
      BY <1>8, Successors
    <2>2. to \in Allowed(Path[n])
      BY <1>8
    <2> QED  BY <2>1, <2>2
  <1>10. \A i \in 1..n : OnPath(i)'
    <2> SUFFICES ASSUME NEW i \in 1..n  PROVE i \in 1..7 /\ history'[i].to = Path[i]
      BY DEF OnPath
    <2>1. i \in 1..n - 1 \/ i = n
      BY <1>2
    <2>2. OnPath(i)
      BY <2>1, <1>7
    <2> QED  BY <2>2, <1>4 DEF OnPath
  <1>11. OnPath(n + 1)' \/ history'[n + 1].to \in Off
    <2>1. n + 1 \in 1..7 \/ to \in Off
      BY <1>9, <1>8, <1>2
    <2> QED  BY <2>1, <1>9, <1>4 DEF OnPath
  <1>12. PathInv'
    BY <1>10, <1>11, <1>4, <1>2 DEF PathInv, OnPath, Current
  <1> QED  BY <1>4, <1>5, <1>12 DEF LifeInv

LEMMA StepKeeps == LifeInv /\ [Next]_history => LifeInv'
  <1> SUFFICES ASSUME LifeInv, [Next]_history  PROVE LifeInv'
    OBVIOUS
  <1>1. ASSUME NEW role \in Role, CreateCandidate(role)  PROVE LifeInv'
    <2> DEFINE a == [to |-> "SIGNAL", role |-> role]
               b == [to |-> "CANDIDATE", role |-> role]
               c == [to |-> "HYPOTHESIZED", role |-> role]
    <2>1. history' = <<a, b, c>>
      BY <1>1 DEF CreateCandidate
    <2>2. a \in Record /\ b \in Record /\ c \in Record
      BY DEF Record, State
    <2>3. history' \in Seq(Record) /\ Len(history') = 3
      BY <2>1, <2>2
    <2>4. history'[1] = a /\ history'[2] = b /\ history'[3] = c
      BY <2>1
    <2>5. PathInv'
      BY <2>3, <2>4 DEF PathInv, OnPath, Path, Current
    <2>6. MayMove(role, "CANDIDATE") /\ MayMove(role, "HYPOTHESIZED")
      BY <1>1 DEF CreateCandidate, MayMove, NeededFor
    <2>7. RoleInv'
      BY <2>3, <2>4, <2>6 DEF RoleInv
    <2> QED  BY <2>3, <2>5, <2>7 DEF LifeInv
  <1>2. ASSUME NEW role \in Role, NEW to \in State, TransitionCandidate(to, role)
        PROVE  LifeInv'
    BY <1>2, MoveKeeps DEF TransitionCandidate
  <1>3. ASSUME NEW role \in Role, AuthorizeVerified(role)  PROVE LifeInv'
    <2>1. "VERIFIED" \in State /\ "VERIFIED" \in Allowed(Current)
      BY <1>3 DEF AuthorizeVerified, State, Allowed
    <2> QED  BY <1>3, <2>1, MoveKeeps DEF AuthorizeVerified
  <1>4. CASE UNCHANGED history
    BY <1>4 DEF LifeInv, PathInv, RoleInv, OnPath, Current
  <1> QED  BY <1>1, <1>2, <1>3, <1>4 DEF Next

LEMMA Lives == Spec => []LifeInv
  <1>1. Init => LifeInv
    BY DEF Init, LifeInv, PathInv, RoleInv
  <1> QED  BY <1>1, StepKeeps, PTL DEF Spec

-----------------------------------------------------------------------------
(* Three hands: the roles that propose, that reproduce and that authorize   *)
(* are never the same, in any history, because policy.py gives no role two  *)
(* of the capabilities that project.py asks for.                            *)
THEOREM DutiesSeparated == Spec => []SeparationOfDuties
  <1>1. LifeInv => SeparationOfDuties
    <2> SUFFICES ASSUME LifeInv  PROVE SeparationOfDuties
      OBVIOUS
    <2>1. ASSUME NEW i \in DOMAIN history, history[i].to # "SIGNAL"
          PROVE  NeededFor(history[i].to) \subseteq Capabilities(history[i].role)
      BY <2>1 DEF LifeInv, RoleInv, MayMove
    <2>2. \A role \in RolesFor("CANDIDATE") : "PROPOSE_CANDIDATE" \in Capabilities(role)
      BY <2>1 DEF RolesFor, NeededFor
    <2>3. \A role \in RolesFor("SUPPORTED") : "SUBMIT_EVIDENCE" \in Capabilities(role)
      BY <2>1 DEF RolesFor, NeededFor
    <2>4. \A role \in RolesFor("REPRODUCED") : "REPLAY" \in Capabilities(role)
      BY <2>1 DEF RolesFor, NeededFor
    <2>5. \A role \in RolesFor("VERIFIED") : "AUTHORIZE_VERDICT" \in Capabilities(role)
      BY <2>1 DEF RolesFor, NeededFor
    <2>6. \A s : \A role \in RolesFor(s) : role \in Role
      <3>1. \A i \in DOMAIN history : history[i] \in Record
        BY DEF LifeInv
      <3> QED  BY <3>1 DEF RolesFor, Record
    <2>7. \A role \in Role : ~ ("PROPOSE_CANDIDATE" \in Capabilities(role)
                                /\ "REPLAY" \in Capabilities(role))
      BY DEF Role, Capabilities
    <2>8. \A role \in Role : "AUTHORIZE_VERDICT" \in Capabilities(role) =>
              {"PROPOSE_CANDIDATE", "SUBMIT_EVIDENCE", "REPLAY"} \cap Capabilities(role) = {}
      BY DEF Role, Capabilities
    <2> QED
      BY <2>2, <2>3, <2>4, <2>5, <2>6, <2>7, <2>8 DEF SeparationOfDuties, Disjoint
  <1> QED  BY Lives, <1>1, PTL

(* A VERIFIED candidate went through every state of the main path, in order *)
(* and once: ALLOWED_TRANSITIONS has no way around and no way back.         *)
THEOREM CameTheWholeWay == Spec => []VerifiedCameTheWholeWay
  <1>1. LifeInv => VerifiedCameTheWholeWay
    <2> SUFFICES ASSUME LifeInv, NEW i \in DOMAIN history, history[i].to = "VERIFIED"
                 PROVE  [j \in 1..i |-> history[j].to] = Path
      BY DEF VerifiedCameTheWholeWay, Path
    <2>1. history \in Seq(Record) /\ history # <<>> /\ i \in 1..Len(history)
      BY DEF LifeInv
    <2>2. "VERIFIED" \notin Off
      BY DEF Off, Rejection
    <2>3. \A j \in 1..i : OnPath(j)
      BY <2>1, <2>2 DEF LifeInv, PathInv, Current
    <2>4. i \in 1..7 /\ Path[i] = "VERIFIED"
      BY <2>1, <2>3 DEF OnPath
    <2>5. i = 7
      BY <2>4 DEF Path
    <2>6. [j \in 1..i |-> history[j].to] = [j \in 1..7 |-> Path[j]]
      BY <2>3, <2>5 DEF OnPath
    <2>7. Path = [j \in 1..7 |-> Path[j]]
      BY DEF Path
    <2> QED  BY <2>6, <2>7
  <1> QED  BY Lives, <1>1, PTL
=============================================================================
