--------------------------- MODULE RunStoreProofs ---------------------------
(***************************************************************************)
(* The evidence of a run, first under the operations of RunStore alone:    *)
(* the invariant IInv of the writes an operation still has to make, and    *)
(* what follows from it.  Then the claims of the ledger (ClaimInv), the    *)
(* records and events of a scan (IntakeInv), the authority of module       *)
(* Authority: what a commit freezes, how far its writes have come (AInv),  *)
(* and that it implements Authorizations; and last what is lost for good   *)
(* (TurnInv).                                                              *)
(***************************************************************************)
EXTENDS RunStoreInvariants, FiniteSetTheorems, WellFoundedInduction, TLAPS

LEMMA Concat ==
    ASSUME NEW a \in Seq(Write), NEW b \in Seq(Write)
    PROVE  /\ a \o b \in Seq(Write) /\ Len(a \o b) = Len(a) + Len(b)
           /\ Len(a) \in Nat /\ Len(b) \in Nat
           /\ \A i \in 1..Len(a) : (a \o b)[i] = a[i]
           /\ \A i \in 1..Len(b) : (a \o b)[Len(a) + i] = b[i]
  OBVIOUS

LEMMA ThenOne ==
    ASSUME NEW a \in Seq(Write), NEW b \in Seq(Write), Len(b) = 1
    PROVE  /\ a \o b \in Seq(Write) /\ Len(a \o b) = Len(a) + 1
           /\ \A i \in 1..Len(a) : (a \o b)[i] = a[i]
           /\ (a \o b)[Len(a) + 1] = b[1]
  <1>1. /\ a \o b \in Seq(Write) /\ Len(a \o b) = Len(a) + Len(b)
        /\ \A i \in 1..Len(a) : (a \o b)[i] = a[i]
        /\ \A i \in 1..Len(b) : (a \o b)[Len(a) + i] = b[i]
    BY Concat
  <1>2. 1 \in 1..Len(b)  OBVIOUS
  <1> QED  BY <1>1, <1>2

LEMMA PlainConcat ==
    ASSUME NEW a, NEW b, Plain(a), Plain(b)  PROVE  Plain(a \o b)
  BY DEF Plain, AllFormed

LEMMA BringsConcat ==
    ASSUME NEW a, NEW b, Plain(a), Plain(b), NEW c, NEW name, NEW v,
           Brings(a, c, name, v) \/ Brings(b, c, name, v)
    PROVE  Brings(a \o b, c, name, v)
  <1>1. a \in Seq(Write) /\ b \in Seq(Write)  BY DEF Plain, AllFormed
  <1>2. CASE Brings(a, c, name, v)  BY <1>1, <1>2 DEF Brings
  <1>3. CASE Brings(b, c, name, v)
    <2>1. PICK i \in 1..Len(b) :
            b[i].kind = "file" /\ b[i].cand = c /\ b[i].of = name /\ b[i].value = v
      BY <1>3 DEF Brings
    <2>2. Len(a) + i \in 1..Len(a \o b) /\ (a \o b)[Len(a) + i] = b[i]  BY <1>1
    <2> QED  BY <2>1, <2>2 DEF Brings
  <1> QED  BY <1>2, <1>3

LEMMA OneWriteIs ==
    ASSUME NEW kind \in WriteKind, NEW c \in Number, NEW of \in Subject,
           NEW value \in Content \cup EventType
    PROVE  /\ OneWrite(kind, c, of, value) \in Seq(Write)
           /\ Len(OneWrite(kind, c, of, value)) = 1
           /\ OneWrite(kind, c, of, value)[1] =
                [kind |-> kind, cand |-> c, of |-> of, value |-> value]
  BY DEF OneWrite, Write

LEMMA ArtifactIsPlain ==
    ASSUME NEW c \in Candidate, NEW name \in FileName, NEW v \in Content \ {"absent"},
           NEW type \in EventType
    PROVE  Plain(Artifact(c, name, v, type)) /\ Brings(Artifact(c, name, v, type), c, name, v)
  <1> DEFINE s == Artifact(c, name, v, type)
  <1>1. c \in Number /\ name \in Subject /\ {"file", "event"} \subseteq WriteKind
    BY DEF Number, Subject, WriteKind
  <1>2. /\ s \in Seq(Write) /\ Len(s) = 2
        /\ s[1] = Record("file", c, name, v) /\ s[2] = Record("event", c, name, type)
    BY <1>1 DEF Artifact, OneWrite, Write, Record
  <1> HIDE DEF s
  <1> QED  BY <1>2 DEF Plain, AllFormed, Formed, Brings, Record, s

LEMMA CommandsArePlain ==
    ASSUME NEW c \in Candidate, NEW n \in Nat, NEW type \in EventType
    PROVE  Plain(CommandRecords(c, n, type))
  <1> DEFINE s == CommandRecords(c, n, type)
  <1>1. c \in Number /\ "command" \in Subject /\ "written" \in Content
        /\ "command" \in WriteKind /\ "event" \in WriteKind
    BY DEF Number, Subject, Content, WriteKind
  <1>2. s = [i \in 1..2 * n |->
               [kind |-> IF i % 2 = 1 THEN "command" ELSE "event", cand |-> c,
                of |-> "command", value |-> IF i % 2 = 1 THEN "written" ELSE type]]
    BY DEF CommandRecords
  <1> HIDE DEF s
  <1>3. ASSUME NEW i \in 1..2 * n
        PROVE  s[i] \in Write /\ Formed(s[i]) /\ s[i].kind \in {"command", "event"}
    <2>1. CASE i % 2 = 1
      <3>1. s[i] = [kind |-> "command", cand |-> c, of |-> "command", value |-> "written"]
        BY <1>2, <2>1
      <3> QED  BY <3>1, <1>1 DEF Write, Formed
    <2>2. CASE i % 2 # 1
      <3>1. s[i] = [kind |-> "event", cand |-> c, of |-> "command", value |-> type]
        BY <1>2, <2>2
      <3> QED  BY <3>1, <1>1 DEF Write, Formed
    <2> QED  BY <2>1, <2>2
  <1>4. DOMAIN s = 1..2 * n /\ 2 * n \in Nat  BY <1>2
  <1>5. s \in Seq(Write) /\ Len(s) = 2 * n  BY <1>2, <1>3, <1>4
  <1>6. Plain(s)  BY <1>3, <1>5 DEF Plain, AllFormed
  <1> QED  BY <1>6 DEF s

-----------------------------------------------------------------------------
(* What the writes of the operation in progress still need.                *)

LEMMA PlainIsGood ==
    ASSUME NEW s, Plain(s)  PROVE  Good(s)
  BY DEF Plain, Good, Chained, Warranted, Indexed, Scanned, Rooted

LEMMA TransitionIs ==
    ASSUME NEW c \in Candidate, NEW to \in State, NEW v \in Content
    PROVE  /\ AllFormed(Transition(c, to, v)) /\ Len(Transition(c, to, v)) = 3
           /\ Transition(c, to, v)[1] =
                 [kind |-> "state", cand |-> c, of |-> to, value |-> v]
           /\ Transition(c, to, v)[2] =
                 [kind |-> "event", cand |-> c, of |-> to, value |-> "STATE_TRANSITION"]
           /\ Transition(c, to, v)[3] =
                 [kind |-> "index", cand |-> c, of |-> to, value |-> "absent"]
  <1> DEFINE t == Transition(c, to, v)
  <1>1. /\ c \in Number /\ to \in Subject /\ {"state", "event", "index"} \subseteq WriteKind
        /\ "absent" \in Content /\ "STATE_TRANSITION" \in EventType
    BY DEF Number, Subject, WriteKind, Content, EventType
  <1>2. /\ t \in Seq(Write) /\ Len(t) = 3
        /\ t[1] = [kind |-> "state", cand |-> c, of |-> to, value |-> v]
        /\ t[2] = [kind |-> "event", cand |-> c, of |-> to, value |-> "STATE_TRANSITION"]
        /\ t[3] = [kind |-> "index", cand |-> c, of |-> to, value |-> "absent"]
    BY <1>1 DEF Transition, OneWrite, Write
  <1> HIDE DEF t
  <1>3. AllFormed(t)  BY <1>1, <1>2 DEF AllFormed, Formed
  <1> QED  BY <1>2, <1>3 DEF t

(* A move behind writes that bring its evidence.                            *)
LEMMA MoveAfterPlain ==
    ASSUME NEW a, Plain(a), NEW c \in Candidate, NEW to \in State, NEW v \in Content,
           c \in dirs, tail[c] = "whole" => Follows(c, to),
           Warrants(to, v),
           EvidenceFile(to) # "none" =>
               file[c][EvidenceFile(to)] = v \/ Brings(a, c, EvidenceFile(to), v)
    PROVE  Good(a \o Transition(c, to, v))
  <1> DEFINE t == Transition(c, to, v)  s == a \o t  n == Len(a)
  <1>1. /\ AllFormed(t) /\ Len(t) = 3
        /\ t[1] = [kind |-> "state", cand |-> c, of |-> to, value |-> v]
        /\ t[2] = [kind |-> "event", cand |-> c, of |-> to, value |-> "STATE_TRANSITION"]
        /\ t[3] = [kind |-> "index", cand |-> c, of |-> to, value |-> "absent"]
    BY TransitionIs
  <1> HIDE DEF t
  <1>2. a \in Seq(Write) /\ t \in Seq(Write) /\ n \in Nat  BY <1>1 DEF Plain, AllFormed
  <1>3. /\ s \in Seq(Write) /\ Len(s) = n + 3
        /\ \A i \in 1..n : s[i] = a[i]
        /\ s[n + 1] = t[1] /\ s[n + 2] = t[2] /\ s[n + 3] = t[3]
    <2>1. /\ s \in Seq(Write) /\ Len(s) = n + Len(t)
          /\ \A i \in 1..n : s[i] = a[i]
          /\ \A i \in 1..Len(t) : s[n + i] = t[i]
      BY <1>2, Concat
    <2> QED  BY <2>1, <1>1
  <1> HIDE DEF s, n
  <1>a. /\ AllFormed(a) /\ n = Len(a)
        /\ \A i \in 1..n : a[i].kind \notin {"state", "index", "scan"}
    BY DEF Plain, n
  <1>4. \A i \in 1..Len(s) : i \in 1..n \/ i = n + 1 \/ i = n + 2 \/ i = n + 3
    BY <1>2, <1>3
  <1>5. AllFormed(s)  BY <1>1, <1>2, <1>3, <1>4, <1>a DEF AllFormed
  <1>6. /\ \A i \in 1..Len(s) : s[i].kind = "state" => i = n + 1
        /\ \A i \in 1..Len(s) : s[i].kind = "index" => i = n + 3
        /\ \A i \in 1..Len(s) : s[i].kind # "scan"
    <2>1. /\ s[n + 1].kind = "state" /\ s[n + 2].kind = "event" /\ s[n + 3].kind = "index"
      BY <1>1, <1>3
    <2>2. \A i \in 1..n : s[i].kind \notin {"state", "index", "scan"}  BY <1>3, <1>a
    <2> QED  BY <1>4, <2>1, <2>2
  <1>7. Chained(s)
    <2>1. Stateless(s, 1, n)  BY <1>2, <1>3, <1>a DEF Stateless
    <2> QED  BY <1>1, <1>2, <1>3, <1>6, <2>1 DEF Chained
  <1>8. Warranted(s)
    <2> SUFFICES ASSUME NEW i \in 1..Len(s), s[i].kind = "state"
                 PROVE  /\ Warrants(s[i].of, s[i].value)
                        /\ EvidenceFile(s[i].of) # "none" =>
                              \/ file[s[i].cand][EvidenceFile(s[i].of)] = s[i].value
                              \/ \E j \in 1..(i - 1) :
                                    IsFile(s[j], s[i].cand, EvidenceFile(s[i].of), s[i].value)
      BY DEF Warranted
    <2>0. i = n + 1  BY <1>6
    <2>a. s[i] = t[1]  BY <1>3, <2>0
    <2>1. i - 1 = n /\ s[i].cand = c /\ s[i].of = to /\ s[i].value = v
      <3>1. i - 1 = n  BY <1>2, <2>0
      <3>2. s[i].cand = c /\ s[i].of = to /\ s[i].value = v  BY <1>1, <2>a
      <3> QED  BY <3>1, <3>2
    <2>2. EvidenceFile(to) # "none" =>
              \/ file[c][EvidenceFile(to)] = v
              \/ \E j \in 1..n : IsFile(s[j], c, EvidenceFile(to), v)
      BY <1>3, <1>a DEF Brings, IsFile
    <2> QED  BY <2>1, <2>2
  <1>9. Indexed(s)
    <2>1. n + 1 \in 1..n + 2 /\ IsState(s[n + 1], c, to)  BY <1>1, <1>2, <1>3 DEF IsState
    <2> QED  BY <1>1, <1>2, <1>3, <1>6, <2>1 DEF Indexed
  <1>10. Scanned(s)  BY <1>6 DEF Scanned
  <1>11. Rooted(s)  BY <1>1, <1>3, <1>6 DEF Rooted
  <1> QED  BY <1>5, <1>7, <1>8, <1>9, <1>10, <1>11 DEF Good, s, t

LEMMA ProposalIs ==
    ASSUME NEW c \in Candidate  PROVE  Proposes(Proposal(c), c) /\ AllFormed(Proposal(c))
  <1> DEFINE s == Proposal(c)
  <1>1. /\ c \in Number
        /\ {"mkdir", "file", "state", "event", "index"} \subseteq WriteKind
        /\ {"candidate", "hypothesis"} \subseteq FileName
        /\ {"SIGNAL", "CANDIDATE", "HYPOTHESIZED"} \subseteq State
        /\ {"candidate", "hypothesis", "SIGNAL", "CANDIDATE", "HYPOTHESIZED"} \subseteq Subject
        /\ {"absent", "written"} \subseteq Content
        /\ {"CANDIDATE_PROPOSED", "STATE_TRANSITION"} \subseteq EventType
    BY DEF Number, WriteKind, FileName, Subject, State, Content, EventType
  <1>2. Proposes(s, c)  BY DEF Proposes, Proposal, Transition, OneWrite, Record
  <1>3. s \in Seq(Write)  BY <1>1 DEF Proposal, Transition, OneWrite, Write
  <1> HIDE DEF s
  <1>4. \A i \in 1..Len(s) : Formed(s[i])  BY <1>1, <1>2 DEF Proposes, Formed, Record
  <1> QED  BY <1>2, <1>3, <1>4 DEF AllFormed, s

LEMMA ProposalIsGood ==
    ASSUME NEW c \in Candidate, history[c] = <<>>  PROVE  Good(Proposal(c))
  <1> DEFINE s == Proposal(c)
  <1>1. Proposes(s, c) /\ AllFormed(s)  BY ProposalIs
  <1> HIDE DEF s
  <1>2. \A i \in 1..Len(s) : i \in {1, 2, 3, 4, 5, 6, 7, 8, 9, 10, 11}  BY <1>1 DEF Proposes
  <1>3. /\ \A i \in 1..Len(s) : s[i].kind = "state" => i \in {4, 5, 8}
        /\ \A i \in 1..Len(s) : s[i].kind = "index" => i \in {7, 10}
        /\ \A i \in 1..Len(s) : s[i].kind # "scan"
    BY <1>1, <1>2 DEF Proposes, Record
  <1>4. "CANDIDATE" \in Allowed("SIGNAL") /\ "HYPOTHESIZED" \in Allowed("CANDIDATE")
    BY DEF Allowed
  <1>5. Stateless(s, 1, 3) /\ Stateless(s, 5, 4) /\ Stateless(s, 6, 7)
    BY <1>1, <1>2 DEF Proposes, Record, Stateless
  <1>6. Chained(s)  BY <1>1, <1>3, <1>4, <1>5 DEF Proposes, Record, Chained, Follows
  <1>7. Warranted(s)
    <2>1. \A to \in {"SIGNAL", "CANDIDATE", "HYPOTHESIZED"} :
              EvidenceFile(to) = "none" /\ Warrants(to, "absent")
      BY DEF EvidenceFile, Warrants
    <2> QED  BY <1>1, <1>3, <2>1 DEF Proposes, Record, Warranted
  <1>8. Indexed(s)
    <2>1. IsState(s[5], c, "CANDIDATE") /\ IsState(s[8], c, "HYPOTHESIZED")
      BY <1>1 DEF Proposes, Record, IsState
    <2> QED  BY <1>1, <1>3, <2>1 DEF Proposes, Record, Indexed
  <1>9. Scanned(s)  BY <1>3 DEF Scanned
  <1>10. Rooted(s)  BY <1>1, <1>3 DEF Proposes, Record, Rooted
  <1> QED  BY <1>1, <1>6, <1>7, <1>8, <1>9, <1>10 DEF Good, s

LEMMA TypedBy ==
    ASSUME NEW T, NEW s \in Seq(Write), \A i \in 1..Len(s) : s[i] \in T  PROVE  s \in Seq(T)
  OBVIOUS

(* The places of a scan: two for each observation found, and three.         *)
LEMMA ScanPlaces ==
    /\ Found \in Nat
    /\ \A o \in 1..Found : 2 * o - 1 \in 1..2 * Found /\ 2 * o \in 1..2 * Found
    /\ \A i \in 1..2 * Found + 3 :
          \/ \E o \in 1..Found : i = 2 * o - 1 \/ i = 2 * o
          \/ i \in {2 * Found + 1, 2 * Found + 2, 2 * Found + 3}
  <1>1. Found \in Nat  BY RunStoreAssumption
  <1>2. ASSUME NEW i \in 1..2 * Found  PROVE  \E o \in 1..Found : i = 2 * o - 1 \/ i = 2 * o
    <2>1. (i + 1) \div 2 \in 1..Found  BY <1>1
    <2>2. i = 2 * ((i + 1) \div 2) - 1 \/ i = 2 * ((i + 1) \div 2)  BY <1>1
    <2> QED  BY <2>1, <2>2
  <1>3. \A i \in 1..2 * Found + 3 :
           i \in 1..2 * Found \/ i \in {2 * Found + 1, 2 * Found + 2, 2 * Found + 3}
    BY <1>1
  <1>4. \A o \in 1..Found : 2 * o - 1 \in 1..2 * Found /\ 2 * o \in 1..2 * Found  BY <1>1
  <1> QED  BY <1>1, <1>2, <1>3, <1>4

LEMMA WithOne ==
    ASSUME NEW q \in Seq(Write), NEW a \in Seq(Write), Len(a) = 1
    PROVE  \E p \in Seq(Write) : p = q \o a /\ Len(p) = Len(q) + 1
              /\ p[Len(q) + 1] = a[1] /\ \A i \in 1..Len(q) : p[i] = q[i]
  <1>1. PICK p : p = q \o a  OBVIOUS
  <1>2. /\ q \o a \in Seq(Write) /\ Len(q \o a) = Len(q) + 1
        /\ (q \o a)[Len(q) + 1] = a[1] /\ \A i \in 1..Len(q) : (q \o a)[i] = q[i]
    BY ThenOne
  <1>3. /\ p \in Seq(Write) /\ Len(p) = Len(q) + 1
        /\ p[Len(q) + 1] = a[1] /\ \A i \in 1..Len(q) : p[i] = q[i]
    BY <1>1, <1>2
  <1> QED  BY <1>1, <1>3

LEMMA ObservingWrites == Observes(Observing)
  <1> DEFINE n == 2 * Found
             r == ObservationRecords
             x == Record("event", 0, "run", "OBSERVATION_BATCH_CAPTURED")
             y == Record("scan", 0, "scan", "written")
             z == Record("event", 0, "scan", "KNOWLEDGE_SCAN_COMPLETED")
  <1>1. /\ {"observation", "event", "scan"} \subseteq WriteKind
        /\ {"observation", "run", "scan"} \subseteq Subject /\ "written" \in Content
        /\ {"OBSERVATION_RECORDED", "OBSERVATION_BATCH_CAPTURED", "KNOWLEDGE_SCAN_COMPLETED"}
              \subseteq EventType
        /\ {0} \cup (1..Found) \subseteq Number
    BY DEF Number, WriteKind, Subject, Content, EventType
  <1>2. r = [i \in 1..n |->
               Record(IF i % 2 = 1 THEN "observation" ELSE "event", (i + 1) \div 2,
                      "observation", IF i % 2 = 1 THEN "written" ELSE "OBSERVATION_RECORDED")]
    BY DEF ObservationRecords, Record
  <1>3. ASSUME NEW o \in 1..Found
        PROVE  /\ r[2 * o - 1] = Record("observation", o, "observation", "written")
               /\ r[2 * o] = Record("event", o, "observation", "OBSERVATION_RECORDED")
    <2>1. /\ (2 * o - 1) % 2 = 1 /\ ((2 * o - 1) + 1) \div 2 = o
          /\ (2 * o) % 2 # 1 /\ (2 * o + 1) \div 2 = o
      BY ScanPlaces
    <2> QED  BY <1>2, <2>1, ScanPlaces
  <1>4. PICK q \in Seq(Write) : q = r /\ Len(q) = n
    <2>1. ASSUME NEW i \in 1..n  PROVE  r[i] \in Write
      <3>1. (i + 1) \div 2 \in Number  BY <1>1, ScanPlaces
      <3> QED  BY <1>1, <1>2, <3>1 DEF Record, Write
    <2> QED  BY <1>2, <2>1, ScanPlaces
  <1>5. PICK a \in Seq(Write) : a = OneWrite("event", 0, "run", "OBSERVATION_BATCH_CAPTURED")
                               /\ Len(a) = 1 /\ a[1] = x
    BY <1>1, OneWriteIs DEF Record
  <1>6. PICK b \in Seq(Write) : b = OneWrite("scan", 0, "scan", "written")
                               /\ Len(b) = 1 /\ b[1] = y
    BY <1>1, OneWriteIs DEF Record
  <1>7. PICK e \in Seq(Write) : e = OneWrite("event", 0, "scan", "KNOWLEDGE_SCAN_COMPLETED")
                               /\ Len(e) = 1 /\ e[1] = z
    BY <1>1, OneWriteIs DEF Record
  <1> HIDE DEF r, x, y, z
  <1>8. PICK p \in Seq(Write) : p = q \o a /\ Len(p) = Len(q) + 1
           /\ p[Len(q) + 1] = a[1] /\ \A i \in 1..Len(q) : p[i] = q[i]
    BY <1>5, WithOne
  <1>9. PICK t \in Seq(Write) : t = p \o b /\ Len(t) = Len(p) + 1
           /\ t[Len(p) + 1] = b[1] /\ \A i \in 1..Len(p) : t[i] = p[i]
    BY <1>6, WithOne
  <1>10. PICK s \in Seq(Write) : s = t \o e /\ Len(s) = Len(t) + 1
           /\ s[Len(t) + 1] = e[1] /\ \A i \in 1..Len(t) : s[i] = t[i]
    BY <1>7, WithOne
  <1>11. Observing = s
    <2>1. Observing = ((q \o a) \o b) \o e  BY <1>4, <1>5, <1>6, <1>7 DEF Observing, r
    <2> QED  BY <1>8, <1>9, <1>10, <2>1, Zenon
  <1>12. PICK m \in Nat : m = n  BY ScanPlaces
  <1>13. /\ Len(s) = m + 3 /\ s[m + 1] = x /\ s[m + 2] = y /\ s[m + 3] = z
         /\ \A i \in 1..m : s[i] = q[i]
    <2>1. Len(q) = m  BY <1>4, <1>12
    <2>2. Len(p) = m + 1 /\ p[m + 1] = x /\ \A i \in 1..m : p[i] = q[i]  BY <1>5, <1>8, <2>1
    <2>3. /\ Len(t) = m + 2 /\ t[m + 2] = y /\ t[m + 1] = x
          /\ \A i \in 1..m : t[i] = q[i]
      <3>1. Len(p) + 1 = m + 2 /\ m + 1 \in 1..Len(p) /\ 1..m \subseteq 1..Len(p)  BY <2>2
      <3> QED  BY <1>6, <1>9, <2>2, <3>1
    <2>4. Len(t) + 1 = m + 3 /\ {m + 1, m + 2} \subseteq 1..Len(t) /\ 1..m \subseteq 1..Len(t)
      BY <2>3
    <2> QED  BY <1>7, <1>10, <2>3, <2>4
  <1>14. Observes(s)  BY <1>3, <1>4, <1>12, <1>13, ScanPlaces DEF Observes, x, y, z
  <1> QED  BY <1>11, <1>14

LEMMA ObservingIs ==
    LET s == Observing IN
    /\ AllFormed(s) /\ Len(s) = 2 * Found + 3
    /\ \A o \in 1..Found :
          /\ s[2 * o - 1].kind = "observation" /\ s[2 * o - 1].cand = o
          /\ Logs(s[2 * o], o)
    /\ s[2 * Found + 1].kind = "event"
    /\ \A i \in 1..Len(s) :
          /\ s[i].kind \notin {"state", "index", "file"}
          /\ s[i].kind = "scan" => i = 2 * Found + 2
  <1>1. PICK s : s = Observing  OBVIOUS
  <1>2. Observes(s)  BY <1>1, ObservingWrites
  <1>3. \A i \in 1..Len(s) :
           \/ \E o \in 1..Found : i = 2 * o - 1 \/ i = 2 * o
           \/ i \in {2 * Found + 1, 2 * Found + 2, 2 * Found + 3}
    BY <1>2, ScanPlaces DEF Observes
  <1>4. {"OBSERVATION_RECORDED", "OBSERVATION_BATCH_CAPTURED", "KNOWLEDGE_SCAN_COMPLETED"}
           \subseteq EventType
    BY DEF EventType
  <1>5. ASSUME NEW o \in 1..Found
        PROVE  LET x == s[2 * o - 1]  y == s[2 * o] IN
               /\ x.kind = "observation" /\ x.cand = o /\ Logs(y, o) /\ y.kind = "event"
               /\ Formed(x) /\ Formed(y)
    <2>1. /\ s[2 * o - 1] = Record("observation", o, "observation", "written")
          /\ s[2 * o] = Record("event", o, "observation", "OBSERVATION_RECORDED")
      BY <1>2 DEF Observes
    <2> QED  BY <1>4, <2>1 DEF Formed, Record, Logs
  <1>6. \A i \in {2 * Found + 1, 2 * Found + 2, 2 * Found + 3} :
           /\ Formed(s[i]) /\ s[i].kind \in {"event", "scan"}
           /\ s[i].kind = "scan" => i = 2 * Found + 2
    BY <1>2, <1>4 DEF Observes, Formed, Record
  <1>7. \A i \in 1..Len(s) :
           /\ Formed(s[i]) /\ s[i].kind \notin {"state", "index", "file"}
           /\ s[i].kind = "scan" => i = 2 * Found + 2
    BY <1>3, <1>5, <1>6
  <1>8. s \in Seq(Write) /\ Len(s) = 2 * Found + 3 /\ s[2 * Found + 1].kind = "event"
    BY <1>2 DEF Observes, Record
  <1> QED  BY <1>1, <1>5, <1>7, <1>8 DEF AllFormed

LEMMA ObservingIsGood == Good(Observing)
  <1> DEFINE s == Observing
  <1>1. /\ AllFormed(s) /\ Len(s) = 2 * Found + 3
        /\ \A o \in 1..Found :
              /\ s[2 * o - 1].kind = "observation" /\ s[2 * o - 1].cand = o
              /\ Logs(s[2 * o], o)
        /\ s[2 * Found + 1].kind = "event"
        /\ \A i \in 1..Len(s) :
              /\ s[i].kind \notin {"state", "index", "file"}
              /\ s[i].kind = "scan" => i = 2 * Found + 2
    BY ObservingIs
  <1> HIDE DEF s
  <1>2. Chained(s) /\ Warranted(s) /\ Indexed(s) /\ Rooted(s)
    BY <1>1 DEF Chained, Warranted, Indexed, Rooted
  <1>3. Scanned(s)
    <2>1. ASSUME NEW o \in 1..Found
          PROVE  /\ \E j \in 1..2 * Found + 1 :
                       s[j].kind = "observation" /\ s[j].cand = o
                 /\ \E j, k \in 1..2 * Found + 1 :
                       j < k /\ Logs(s[j], o) /\ s[k].kind = "event"
      <3>1. /\ 2 * o - 1 \in 1..2 * Found + 1 /\ 2 * o \in 1..2 * Found + 1
            /\ 2 * Found + 1 \in 1..2 * Found + 1 /\ 2 * o < 2 * Found + 1
        BY RunStoreAssumption
      <3> QED  BY <1>1, <3>1
    <2> SUFFICES ASSUME NEW i \in 1..Len(s), s[i].kind = "scan", NEW o \in 1..Found
                 PROVE  /\ \/ OnRecord(o)
                           \/ \E j \in 1..(i - 1) :
                                 s[j].kind = "observation" /\ s[j].cand = o
                        /\ \/ Logged(o) # {}
                           \/ torn /\ \E k \in 1..(i - 1) : s[k].kind = "event"
                           \/ \E j, k \in 1..(i - 1) :
                                 j < k /\ Logs(s[j], o) /\ s[k].kind = "event"
      BY DEF Scanned
    <2>2. i = 2 * Found + 2  BY <1>1
    <2>3. i - 1 = 2 * Found + 1  BY <2>2, RunStoreAssumption
    <2> QED  BY <2>1, <2>3
  <1> QED  BY <1>1, <1>2, <1>3 DEF Good, s

-----------------------------------------------------------------------------
(* Every operation starts with writes whose needs are met.                 *)

LEMMA EvidenceFiles ==
    /\ EvidenceFile("TESTABLE") = "plan" /\ EvidenceFile("SUPPORTED") = "result"
    /\ EvidenceFile("REPRODUCED") = "replay"
    /\ \A to : to \notin {"TESTABLE", "SUPPORTED", "REPRODUCED"} => EvidenceFile(to) = "none"
  BY DEF EvidenceFile

LEMMA ExpectingIsPlain ==
    ASSUME NEW e \in 1..MaxExpectations  PROVE  Plain(Expecting(e))
  <1> DEFINE s == Expecting(e)
  <1>1. /\ e \in Number /\ {"expectation", "event"} \subseteq WriteKind
        /\ "expectation" \in Subject /\ "written" \in Content
        /\ "EXPECTATION_RECORDED" \in EventType
    BY DEF Number, WriteKind, Subject, Content, EventType
  <1>2. /\ s \in Seq(Write) /\ Len(s) = 2
        /\ s[1] = Record("expectation", e, "expectation", "written")
        /\ s[2] = Record("event", e, "expectation", "EXPECTATION_RECORDED")
    BY <1>1 DEF Expecting, OneWrite, Write, Record
  <1> HIDE DEF s
  <1> QED  BY <1>1, <1>2 DEF Plain, AllFormed, Formed, Record, s

(* How many commands an experiment records is a number.                     *)
LEMMA RecordedCount == ASSUME NEW complete PROVE Recorded(complete) \subseteq Nat
  BY RunStoreAssumption DEF Recorded

LEMMA ExecutionIsPlain ==
    ASSUME NEW c \in Candidate, NEW outcome \in Outcome, NEW n \in Nat
    PROVE  Plain(Execution(c, outcome, n))
  <1> DEFINE a == Artifact(c, "environment", "written", "EXECUTION_ENVIRONMENT_RECORDED")
             b == Artifact(c, "result", outcome, "EXPERIMENT_EXECUTED")
             d == CommandRecords(c, n, "COMMAND_RESULT_RECORDED")
  <1>1. /\ "environment" \in FileName /\ "result" \in FileName
        /\ "written" \in Content \ {"absent"} /\ outcome \in Content \ {"absent"}
        /\ "EXECUTION_ENVIRONMENT_RECORDED" \in EventType
        /\ "EXPERIMENT_EXECUTED" \in EventType /\ "COMMAND_RESULT_RECORDED" \in EventType
    BY DEF FileName, Content, EventType, Outcome
  <1>2. n \in Nat  OBVIOUS
  <1>3. Plain(a) /\ Plain(b) /\ Plain(d)  BY <1>1, <1>2, ArtifactIsPlain, CommandsArePlain
  <1>4. Execution(c, outcome, n) = (a \o b) \o d  BY DEF Execution
  <1> HIDE DEF a, b, d
  <1> QED  BY <1>3, <1>4, PlainConcat

(* The writes of a replay, local or imported, before its move.              *)
LEMMA ReplayingIs ==
    ASSUME NEW c \in Candidate, NEW status \in ReplayStatus, NEW n \in Nat
    PROVE  /\ \E a : /\ Plain(a) /\ Brings(a, c, "replay", status)
                     /\ Replaying(c, status, n) = a \o Reproduced(c, status)
           /\ \E a : /\ Plain(a) /\ Brings(a, c, "replay", status)
                     /\ Importing(c, status) = a \o Reproduced(c, status)
  <1> DEFINE a == Artifact(c, "replay_environment", "written", "REPLAY_ENVIRONMENT_RECORDED")
             b == Artifact(c, "replay", status, "REPLAY_COMPLETED")
             d == CommandRecords(c, n, "REPLAY_COMMAND_RECORDED")
             f == Artifact(c, "replay_environment", "written",
                           "EXTERNAL_REPLAY_ENVIRONMENT_IMPORTED")
             g == Artifact(c, "replay", status, "EXTERNAL_REPLAY_IMPORTED")
  <1>1. /\ "replay_environment" \in FileName /\ "replay" \in FileName
        /\ "written" \in Content \ {"absent"} /\ status \in Content \ {"absent"}
        /\ "REPLAY_ENVIRONMENT_RECORDED" \in EventType /\ "REPLAY_COMPLETED" \in EventType
        /\ "REPLAY_COMMAND_RECORDED" \in EventType
        /\ "EXTERNAL_REPLAY_ENVIRONMENT_IMPORTED" \in EventType
        /\ "EXTERNAL_REPLAY_IMPORTED" \in EventType
    BY DEF FileName, Content, EventType, ReplayStatus
  <1>2. n \in Nat  OBVIOUS
  <1>3. Plain(a) /\ Plain(b) /\ Brings(b, c, "replay", status)  BY <1>1, ArtifactIsPlain
  <1>4. Plain(d)  BY <1>1, <1>2, CommandsArePlain
  <1>5. Plain(f) /\ Plain(g) /\ Brings(g, c, "replay", status)  BY <1>1, ArtifactIsPlain
  <1>6. /\ Replaying(c, status, n) = ((a \o b) \o d) \o Reproduced(c, status)
        /\ Importing(c, status) = (f \o g) \o Reproduced(c, status)
    BY DEF Replaying, Importing
  <1> HIDE DEF a, b, d, f, g
  <1>7. Plain(a \o b) /\ Brings(a \o b, c, "replay", status)
    BY <1>3, PlainConcat, BringsConcat
  <1>8. Plain((a \o b) \o d) /\ Brings((a \o b) \o d, c, "replay", status)
    BY <1>4, <1>7, PlainConcat, BringsConcat
  <1>9. Plain(f \o g) /\ Brings(f \o g, c, "replay", status)
    BY <1>5, PlainConcat, BringsConcat
  <1> QED  BY <1>6, <1>8, <1>9

LEMMA NoWrites == Plain(<<>>)
  <1>1. <<>> \in Seq(Write) /\ Len(<<>>) = 0  OBVIOUS
  <1> QED  BY <1>1 DEF Plain, AllFormed

LEMMA AppendNothing ==
    ASSUME NEW s \in Seq(Write)  PROVE  s \o <<>> = s /\ <<>> \o s = s
  OBVIOUS

(* A move of a candidate whose history was read.                            *)
LEMMA ReadableMove ==
    ASSUME TypeOK, NEW a, Plain(a), NEW c \in Candidate, Readable(c),
           NEW to \in State, to \in Allowed(CurrentState(c)), NEW v \in Content,
           Warrants(to, v),
           EvidenceFile(to) # "none" =>
               file[c][EvidenceFile(to)] = v \/ Brings(a, c, EvidenceFile(to), v)
    PROVE  Good(a \o Transition(c, to, v))
  <1>1. c \in dirs /\ history[c] # <<>>  BY DEF Readable
  <1>2. Follows(c, to)  BY <1>1 DEF Follows
  <1> QED  BY <1>1, <1>2, MoveAfterPlain

LEMMA ReproducedIsGood ==
    ASSUME TypeOK, NEW a, Plain(a), NEW c \in Candidate, In(c, "SUPPORTED"),
           NEW status \in ReplayStatus, Brings(a, c, "replay", status)
    PROVE  Good(a \o Reproduced(c, status))
  <1>1. CASE status = "PASS"
    <2>1. Readable(c) /\ CurrentState(c) = "SUPPORTED"  BY DEF In
    <2>2. "REPRODUCED" \in State /\ "REPRODUCED" \in Allowed("SUPPORTED") /\ "PASS" \in Content
      BY DEF State, Allowed, Content, ReplayStatus
    <2>3. Warrants("REPRODUCED", "PASS")  BY DEF Warrants
    <2>4. EvidenceFile("REPRODUCED") = "replay"  BY EvidenceFiles
    <2>5. Good(a \o Transition(c, "REPRODUCED", "PASS"))
      BY <1>1, <2>1, <2>2, <2>3, <2>4, ReadableMove
    <2> QED  BY <1>1, <2>5 DEF Reproduced
  <1>2. CASE status # "PASS"
    <2>1. a \o Reproduced(c, status) = a
      BY <1>2, AppendNothing DEF Reproduced, Plain, AllFormed
    <2> QED  BY <2>1, PlainIsGood
  <1> QED  BY <1>1, <1>2

LEMMA OperationStarts ==
    ASSUME TypeOK, DirInv, Operation
    PROVE  /\ job = <<>> /\ UNCHANGED <<store, listing, faults>>
           /\ Good(job')
  <1>1. CASE Observe  BY <1>1, ObservingIsGood DEF Observe, Start
  <1>2. CASE AddExpectation
    <2>1. expectations + 1 \in 1..MaxExpectations
      BY <1>2, RunStoreAssumption DEF AddExpectation, TypeOK
    <2>2. Good(Expecting(expectations + 1))  BY <2>1, ExpectingIsPlain, PlainIsGood
    <2> QED  BY <1>2, <2>2 DEF AddExpectation, Start
  <1>3. ASSUME NEW c \in Candidate, CreateCandidate(c)
        PROVE  job = <<>> /\ UNCHANGED <<store, listing, faults>> /\ Good(job')
    <2>1. history[c] = <<>>  BY <1>3 DEF CreateCandidate, DirInv
    <2> QED  BY <1>3, <2>1, ProposalIsGood DEF CreateCandidate, Start
  <1>4. ASSUME NEW c \in Candidate, PlanExperiment(c)
        PROVE  job = <<>> /\ UNCHANGED <<store, listing, faults>> /\ Good(job')
    <2> DEFINE a == Artifact(c, "plan", "written", "EXPERIMENT_PLANNED")
    <2>1. Readable(c) /\ CurrentState(c) = "HYPOTHESIZED"  BY <1>4 DEF PlanExperiment, In
    <2>2. /\ "TESTABLE" \in State /\ "TESTABLE" \in Allowed("HYPOTHESIZED")
          /\ "written" \in Content \ {"absent"} /\ "plan" \in FileName
          /\ "EXPERIMENT_PLANNED" \in EventType
      BY DEF State, Allowed, Content, FileName, EventType
    <2>3. Plain(a) /\ Brings(a, c, "plan", "written")  BY <2>2, ArtifactIsPlain
    <2>4. Warrants("TESTABLE", "written") /\ EvidenceFile("TESTABLE") = "plan"
      BY EvidenceFiles DEF Warrants
    <2> HIDE DEF a
    <2>5. Good(a \o Transition(c, "TESTABLE", "written"))
      BY <2>1, <2>2, <2>3, <2>4, ReadableMove
    <2>6. Good(Planning(c))  BY <2>5 DEF Planning, a
    <2> QED  BY <1>4, <2>6 DEF PlanExperiment, Start
  <1>5. ASSUME NEW c \in Candidate, ExecuteExperiment(c)
        PROVE  job = <<>> /\ UNCHANGED <<store, listing, faults>> /\ Good(job')
    <2>1. PICK outcome \in Outcome, n \in Nat : Start(Execution(c, outcome, n))
      BY <1>5, RecordedCount DEF ExecuteExperiment
    <2>2. Good(Execution(c, outcome, n))  BY ExecutionIsPlain, PlainIsGood
    <2> QED  BY <2>1, <2>2 DEF Start
  <1>6. ASSUME NEW c \in Candidate, NEW to \in State, TransitionCandidate(c, to)
        PROVE  job = <<>> /\ UNCHANGED <<store, listing, faults>> /\ Good(job')
    <2> DEFINE v == IF EvidenceFile(to) = "none" THEN "absent" ELSE file[c][EvidenceFile(to)]
    <2>1. Readable(c) /\ to \in Allowed(CurrentState(c)) /\ EvidenceSuffices(c, to)
      BY <1>6 DEF TransitionCandidate
    <2>2. v \in Content /\ Warrants(to, v)
      <3>1. CASE to \notin {"TESTABLE", "SUPPORTED", "REPRODUCED"}
        BY <3>1, EvidenceFiles DEF Warrants, Content
      <3>2. {"plan", "result", "replay"} \subseteq FileName  BY DEF FileName
      <3>3. \A n \in FileName : file[c][n] \in Content  BY DEF TypeOK
      <3>4. CASE to = "TESTABLE"
        BY <3>2, <3>3, <3>4, <2>1, EvidenceFiles DEF EvidenceSuffices, Present, Warrants
      <3>5. CASE to = "SUPPORTED"
        BY <3>2, <3>3, <3>5, <2>1, EvidenceFiles DEF EvidenceSuffices, Supporting, Warrants
      <3>6. CASE to = "REPRODUCED"
        BY <3>2, <3>3, <3>6, <2>1, EvidenceFiles DEF EvidenceSuffices, Warrants
      <3> QED  BY <3>1, <3>4, <3>5, <3>6
    <2>3. EvidenceFile(to) # "none" => file[c][EvidenceFile(to)] = v  OBVIOUS
    <2> HIDE DEF v
    <2>4. Good(<<>> \o Transition(c, to, v))  BY <2>1, <2>2, <2>3, NoWrites, ReadableMove
    <2>5. Good(Transition(c, to, v))
      BY <2>2, <2>4, AppendNothing, TransitionIs DEF AllFormed
    <2> QED  BY <1>6, <2>5 DEF TransitionCandidate, Start, v
  <1>7. ASSUME NEW c \in Candidate, Replay(c)
        PROVE  job = <<>> /\ UNCHANGED <<store, listing, faults>> /\ Good(job')
    <2>1. PICK status \in ReplayStatus, n \in Nat : Start(Replaying(c, status, n))
      BY <1>7, RecordedCount DEF Replay
    <2>2. In(c, "SUPPORTED")  BY <1>7 DEF Replay
    <2>3. Good(Replaying(c, status, n))  BY <2>2, ReplayingIs, ReproducedIsGood
    <2> QED  BY <2>1, <2>3 DEF Start
  <1>8. ASSUME NEW c \in Candidate, ImportExternalReplay(c)
        PROVE  job = <<>> /\ UNCHANGED <<store, listing, faults>> /\ Good(job')
    <2>1. PICK status \in ReplayStatus : Start(Importing(c, status))
      BY <1>8 DEF ImportExternalReplay
    <2>2. In(c, "SUPPORTED")  BY <1>8 DEF ImportExternalReplay
    <2>3. Good(Importing(c, status))  BY <2>2, ReplayingIs, ReproducedIsGood
    <2> QED  BY <2>1, <2>3 DEF Start
  <1>9. ASSUME NEW c \in Candidate, AddReview(c)
        PROVE  job = <<>> /\ UNCHANGED <<store, listing, faults>> /\ Good(job')
    <2>1. PICK type \in Review : Start(Reviewing(c, type))  BY <1>9 DEF AddReview
    <2>2. /\ type \in FileName /\ "written" \in Content \ {"absent"}
          /\ "REVIEW_RECORDED" \in EventType
      BY RunStoreAssumption DEF FileName, Content, EventType
    <2>3. Good(Reviewing(c, type))  BY <2>2, ArtifactIsPlain, PlainIsGood DEF Reviewing
    <2> QED  BY <2>1, <2>3 DEF Start
  <1> QED  BY <1>1, <1>2, <1>3, <1>4, <1>5, <1>6, <1>7, <1>8, <1>9 DEF Operation

-----------------------------------------------------------------------------
(* What carrying out the next write does to the store.                     *)

LEMMA NextWrite ==
    ASSUME job # <<>>, AllFormed(job)
    PROVE  /\ w = job[1] /\ w \in Write /\ Formed(w)
           /\ Len(job) \in Nat \ {0}
           /\ AllFormed(Tail(job)) /\ Len(Tail(job)) = Len(job) - 1
           /\ \A i \in 1..Len(job) - 1 : Tail(job)[i] = job[i + 1]
  <1>1. job \in Seq(Write) /\ \A i \in 1..Len(job) : Formed(job[i])  BY DEF AllFormed
  <1>2. /\ Len(job) \in Nat \ {0} /\ 1 \in 1..Len(job)
        /\ Tail(job) \in Seq(Write) /\ Len(Tail(job)) = Len(job) - 1
        /\ \A i \in 1..Len(job) - 1 : Tail(job)[i] = job[i + 1]
    BY <1>1
  <1>3. w = job[1]  BY <1>1, <1>2 DEF w
  <1> QED  BY <1>1, <1>2, <1>3 DEF AllFormed

LEMMA SameIntake ==
    /\ UNCHANGED <<observations, tail>> => \A o : OnRecord(o)' = OnRecord(o)
    /\ UNCHANGED ledger => \A o : Logged(o)' = Logged(o)
  BY DEF OnRecord, Noted, Logged

LEMMA AppendTyped ==
    ASSUME NEW s \in Seq(1..Found), NEW o \in 1..Found
    PROVE  Append(s, o) \in Seq(1..Found)
  OBVIOUS

LEMMA GrownHistory ==
    ASSUME TypeOK, NEW c \in Candidate, NEW r \in StateRecord
    PROVE  [history EXCEPT ![c] = Append(@, r)] \in [Candidate -> Seq(StateRecord)]
  <1>1. history \in [Candidate -> Seq(StateRecord)] /\ history[c] \in Seq(StateRecord)
    BY DEF TypeOK
  <1>2. Append(history[c], r) \in Seq(StateRecord)  BY <1>1
  <1> QED  BY <1>1, <1>2

LEMMA Performed ==
    ASSUME TypeOK, AllFormed(job), Perform \/ PartialAppend
    PROVE  /\ job # <<>> /\ TypeOK'
           /\ \/ Effect /\ job' \in {<<>>, Tail(job)}
              \/ UNCHANGED <<store, listing>> /\ job' = <<>>
  <1>1. job # <<>>
    BY DEF Perform, PartialAppend, MakeDirectory, WriteOnce, AppendState, AppendCommand,
           AppendExpectation, AppendObservation, WriteScan, AppendEvent, UpsertIndex, Doing
  <1>2. /\ w = job[1] /\ w \in Write /\ Formed(w)
        /\ Tail(job) \in Seq(Write) /\ <<>> \in Seq(Write)
    BY <1>1, NextWrite DEF AllFormed
  <1>3. 0 \notin Candidate  BY DEF Candidate
  <1>4. \A o : w.kind # "event" => ~Logs(w, o)  BY DEF Logs
  <1>5. CASE MakeDirectory
    <2>1. w.kind = "mkdir" /\ w.cand \in Candidate
      BY <1>2, <1>5 DEF MakeDirectory, Doing, Formed
    <2>2. TypeOK'
      BY <1>2, <1>5, <2>1 DEF MakeDirectory, Continue, Steady, records, intake, TypeOK
    <2>3. Effect /\ job' = Tail(job)  BY <1>4, <1>5, <2>1, SameIntake
      DEF MakeDirectory, Continue, Steady, records, intake, TypeOK, Effect, OnFiles,
          OnHistory, OnIntake, OnLedger, OnIndex, Present
    <2> QED  BY <1>1, <2>2, <2>3
  <1>6. CASE AppendCommand
    <2>1. w.kind = "command" /\ w.cand \in Candidate
      BY <1>2, <1>6 DEF AppendCommand, Doing, Formed
    <2>2. TypeOK'
      <3>1. commands' \in [Candidate -> Nat]
        <4>1. commands \in [Candidate -> Nat]
              /\ commands' = [commands EXCEPT ![w.cand] = @ + 1]
          BY <1>6 DEF AppendCommand, TypeOK
        <4> QED  BY <2>1, <4>1
      <3>2. job' \in Seq(Write)  BY <1>2, <1>6 DEF AppendCommand, Continue
      <3>3. UNCHANGED <<dirs, file, history, tail, expectations, intake, ledger, torn,
                        index, listing, faults>>
        BY <1>6 DEF AppendCommand, Steady
      <3> QED  BY <3>1, <3>2, <3>3 DEF intake, TypeOK
    <2>3. Effect /\ job' = Tail(job)  BY <1>4, <1>6, <2>1, SameIntake
      DEF AppendCommand, Continue, Steady, records, intake, TypeOK, Effect, OnFiles,
          OnHistory, OnIntake, OnLedger, OnIndex, Present
    <2> QED  BY <1>1, <2>2, <2>3
  <1>7. CASE AppendExpectation
    <2>1. w.kind = "expectation"  BY <1>2, <1>7 DEF AppendExpectation, Doing, Formed
    <2>2. TypeOK'
      BY <1>2, <1>7, <2>1 DEF AppendExpectation, Continue, Steady, records, intake, TypeOK
    <2>3. Effect /\ job' = Tail(job)  BY <1>4, <1>7, <2>1, SameIntake
      DEF AppendExpectation, Continue, Steady, records, intake, TypeOK, Effect, OnFiles,
          OnHistory, OnIntake, OnLedger, OnIndex, Present
    <2> QED  BY <1>1, <2>2, <2>3
  <1>8. CASE WriteScan
    <2>1. w.kind = "scan"  BY <1>2, <1>8 DEF WriteScan, Doing, Formed
    <2>2. TypeOK'
      BY <1>2, <1>8, <2>1 DEF WriteScan, Continue, Steady, records, intake, TypeOK
    <2>3. Effect /\ job' = Tail(job)  BY <1>4, <1>8, <2>1, SameIntake
      DEF WriteScan, Continue, Steady, records, intake, TypeOK, Effect, OnFiles,
          OnHistory, OnIntake, OnLedger, OnIndex, Present
    <2> QED  BY <1>1, <2>2, <2>3
  <1>9. CASE UpsertIndex
    <2>1. w.kind = "index" /\ w.cand \in Candidate /\ w.of \in State
      BY <1>2, <1>9 DEF UpsertIndex, Doing, Formed
    <2>2. TypeOK'
      BY <1>2, <1>9, <2>1 DEF UpsertIndex, Continue, Steady, records, intake, TypeOK
    <2>3. Effect /\ job' = Tail(job)  BY <1>4, <1>9, <2>1, SameIntake
      DEF UpsertIndex, Continue, Steady, records, intake, TypeOK, Effect, OnFiles,
          OnHistory, OnIntake, OnLedger, OnIndex, Present
    <2> QED  BY <1>1, <2>2, <2>3
  <1>10. CASE WriteOnce
    <2>1. w.kind = "file" /\ w.cand \in Candidate /\ w.of \in FileName /\ w.value \in Content
      BY <1>2, <1>10 DEF WriteOnce, Doing, Formed
    <2>2. CASE Raise
      <3>1. UNCHANGED <<store, listing, faults>> /\ job' = <<>>
        BY <1>10, <2>2 DEF WriteOnce, Raise, Steady
      <3>2. TypeOK'  BY <1>2, <3>1 DEF store, records, intake, TypeOK
      <3> QED  BY <1>1, <3>1, <3>2
    <2>3. CASE /\ ~Present(w.cand, w.of) /\ Continue
               /\ file' = [file EXCEPT ![w.cand][w.of] = w.value]
               /\ UNCHANGED <<dirs, records, intake, ledger, torn, index>>
      <3>1. TypeOK'
        BY <1>2, <1>10, <2>1, <2>3 DEF WriteOnce, Continue, Steady, records, intake, TypeOK
      <3>2. OnFiles  BY <2>1, <2>3 DEF OnFiles, Present, TypeOK
      <3>3. OnHistory /\ OnIntake /\ OnLedger /\ OnIndex  BY <1>4, <2>1, <2>3, SameIntake
        DEF records, intake, TypeOK, OnHistory, OnIntake, OnLedger, OnIndex
      <3>4. listing' = listing /\ job' = Tail(job)
        BY <1>10, <2>3 DEF WriteOnce, Steady, Continue
      <3> QED  BY <1>1, <3>1, <3>2, <3>3, <3>4 DEF Effect
    <2> QED  BY <1>10, <2>2, <2>3 DEF WriteOnce
  <1>11. CASE AppendState
    <2>1. /\ w.kind = "state" /\ w.cand \in Candidate
          /\ [to |-> w.of, evidence |-> w.value] \in StateRecord
      BY <1>2, <1>11 DEF AppendState, Doing, Formed, StateRecord
    <2>2. TypeOK'
      <3>1. tail' \in [Candidate \cup {0} -> {"whole", "nonl", "garbled"}]
        BY <1>11 DEF AppendState, TypeOK
      <3>2. history' \in [Candidate -> Seq(StateRecord)]
        <4>1. [history EXCEPT ![w.cand] = Append(@, [to |-> w.of, evidence |-> w.value])]
                  \in [Candidate -> Seq(StateRecord)]
          BY <2>1, GrownHistory
        <4>2. history \in [Candidate -> Seq(StateRecord)]  BY DEF TypeOK
        <4> QED  BY <1>11, <4>1, <4>2 DEF AppendState
      <3>3. job' \in Seq(Write) /\ UNCHANGED <<listing, faults>>
        BY <1>2, <1>11 DEF AppendState, Continue, Steady
      <3>4. UNCHANGED <<dirs, file, commands, expectations, intake, ledger, torn, index>>
        BY <1>11 DEF AppendState
      <3> QED  BY <3>1, <3>2, <3>3, <3>4 DEF intake, TypeOK
    <2>3. OnHistory  BY <1>11, <2>1 DEF AppendState, OnHistory, Extended, TypeOK
    <2>4. \A o : OnRecord(o)' = OnRecord(o)
      <3>1. tail'[0] = tail[0]  BY <1>3, <1>11, <2>1 DEF AppendState, TypeOK
      <3> QED  BY <1>11, <3>1 DEF AppendState, intake, OnRecord, Noted
    <2>5. OnFiles /\ OnIntake /\ OnLedger /\ OnIndex  BY <1>4, <1>11, <2>1, <2>4, SameIntake
      DEF AppendState, intake, TypeOK, OnFiles, OnIntake, OnLedger, OnIndex
    <2>6. listing' = listing /\ job' = Tail(job)  BY <1>11 DEF AppendState, Steady, Continue
    <2> QED  BY <1>1, <2>2, <2>3, <2>5, <2>6 DEF Effect
  <1>12. CASE AppendObservation
    <2>1. w.kind = "observation" /\ w.cand \in 1..Found
      BY <1>2, <1>12 DEF AppendObservation, Doing, Formed
    <2>2. TypeOK'
      <3>1. tail' \in [Candidate \cup {0} -> {"whole", "nonl", "garbled"}]
        BY <1>12 DEF AppendObservation, TypeOK
      <3>2. observations' \in Seq(1..Found)
        <4>1. observations \in Seq(1..Found)  BY DEF TypeOK
        <4>2. observations' = Append(observations, w.cand) \/ observations' = observations
          BY <1>12 DEF AppendObservation
        <4> QED  BY <2>1, <4>1, <4>2, AppendTyped
      <3>3. job' \in Seq(Write) /\ UNCHANGED <<listing, faults>>
        BY <1>2, <1>12 DEF AppendObservation, Continue, Steady
      <3>4. UNCHANGED <<dirs, file, history, commands, expectations, scan, ledger, torn, index>>
        BY <1>12 DEF AppendObservation
      <3> QED  BY <3>1, <3>2, <3>3, <3>4 DEF TypeOK
    <2>3. OnHistory  BY <1>3, <1>12, <2>1 DEF AppendObservation, OnHistory, TypeOK
    <2>4. OnIntake
      <3>1. scan' = scan /\ scan \in BOOLEAN  BY <1>12 DEF AppendObservation, TypeOK
      <3>2. CASE tail[0] = "whole"
        <4>1. observations' = Append(observations, w.cand) /\ observations \in Seq(1..Found)
              /\ tail' = tail
          BY <1>12, <3>2 DEF AppendObservation, TypeOK
        <4>2. ASSUME NEW o \in 1..Found, o = w.cand  PROVE  Noted(o)' # {}
          <5>1. Len(observations') \in DOMAIN observations'
                /\ observations'[Len(observations')] = o
            BY <4>1, <4>2
          <5> QED  BY <5>1 DEF Noted
        <4>3. \A o : Noted(o) # {} => Noted(o)' # {}
          <5>1. \A k \in DOMAIN observations :
                    k \in DOMAIN observations' /\ observations'[k] = observations[k]
            BY <2>1, <4>1
          <5> QED  BY <5>1 DEF Noted
        <4>4. ASSUME NEW o \in 1..Found, OnRecord(o) \/ w.cand = o  PROVE  OnRecord(o)'
          BY <4>1, <4>2, <4>3, <4>4 DEF OnRecord
        <4> QED  BY <2>1, <3>1, <4>4 DEF OnIntake
      <3>3. CASE tail[0] # "whole"
        <4>1. tail'[0] = "garbled"  BY <1>12, <3>3 DEF AppendObservation, TypeOK
        <4> QED  BY <2>1, <3>1, <4>1 DEF OnIntake, OnRecord
      <3> QED  BY <3>2, <3>3
    <2>5. OnFiles /\ OnLedger /\ OnIndex
      BY <1>4, <1>12, <2>1, SameIntake DEF AppendObservation, TypeOK, OnFiles, OnLedger, OnIndex
    <2>6. listing' = listing /\ job' = Tail(job)
      BY <1>12 DEF AppendObservation, Steady, Continue
    <2> QED  BY <1>1, <2>2, <2>3, <2>4, <2>5, <2>6 DEF Effect
  <1>13. CASE AppendEvent
    <2>1. w.kind = "event" /\ w.value \in EventType
      BY <1>2, <1>13 DEF AppendEvent, Doing, Formed
    <2>2. CASE torn /\ Raise
      <3>1. UNCHANGED <<store, listing, faults>> /\ job' = <<>>
        BY <1>13, <2>2 DEF AppendEvent, Raise, Steady
      <3>2. TypeOK'  BY <1>2, <3>1 DEF store, records, intake, TypeOK
      <3> QED  BY <1>1, <3>1, <3>2
    <2> DEFINE e == [type |-> w.value, cand |-> w.cand, of |-> w.of]
    <2>3. CASE /\ ~torn /\ Continue
               /\ ledger' = Append(ledger, e)
               /\ UNCHANGED <<dirs, file, records, intake, torn, index>>
      <3>1. e \in Event  BY <1>2, <2>1 DEF Event, Write
      <3>2. TypeOK'
        BY <1>2, <1>13, <2>3, <3>1 DEF AppendEvent, Continue, Steady, records, intake, TypeOK
      <3>3. ledger \in Seq(Event)  BY DEF TypeOK
      <3>4. \A o : Logged(o) # {} => Logged(o)' # {}
        <4>1. \A k \in DOMAIN ledger : k \in DOMAIN ledger' /\ ledger'[k] = ledger[k]
          BY <2>3, <3>1, <3>3
        <4> QED  BY <4>1 DEF Logged
      <3>5. \A o \in 1..Found : Logs(w, o) => Logged(o)' # {}
        <4>1. Len(ledger') \in DOMAIN ledger' /\ ledger'[Len(ledger')] = e
          BY <2>3, <3>1, <3>3
        <4> QED  BY <4>1 DEF Logs, Logged
      <3>6. OnLedger  BY <2>3, <3>4, <3>5 DEF OnLedger, TypeOK
      <3>7. OnFiles /\ OnHistory /\ OnIntake /\ OnIndex  BY <2>1, <2>3, SameIntake
        DEF records, intake, TypeOK, OnFiles, OnHistory, OnIntake, OnIndex
      <3>8. listing' = listing /\ job' = Tail(job)
        BY <1>13, <2>3 DEF AppendEvent, Steady, Continue
      <3> QED  BY <1>1, <3>2, <3>6, <3>7, <3>8 DEF Effect
    <2> QED  BY <1>13, <2>2, <2>3 DEF AppendEvent
  <1>14. CASE PartialAppend
    <2>1. /\ job' \in {<<>>, Tail(job)} /\ faults < MaxFaults /\ faults' = faults + 1
          /\ UNCHANGED <<dirs, file, commands, expectations, scan, ledger, index, listing>>
      BY <1>14 DEF PartialAppend
    <2>2. faults' \in 0..MaxFaults /\ job' \in Seq(Write)
      <3>1. faults \in 0..MaxFaults /\ MaxFaults \in Nat  BY RunStoreAssumption DEF TypeOK
      <3>2. faults' \in 0..MaxFaults  BY <2>1, <3>1
      <3> QED  BY <1>2, <2>1, <3>2
    <2>3. CASE w.kind = "event" /\ ~torn /\ torn' = TRUE /\ UNCHANGED <<history, tail, observations>>
      <3>1. TypeOK'  BY <2>1, <2>2, <2>3 DEF TypeOK
      <3>2. OnFiles /\ OnHistory /\ OnIntake /\ OnLedger /\ OnIndex
        BY <2>1, <2>3, SameIntake
        DEF TypeOK, OnFiles, OnHistory, OnIntake, OnLedger, OnIndex
      <3> QED  BY <1>1, <2>1, <3>1, <3>2 DEF Effect
    <2>4. CASE /\ w.kind = "state"
               /\ \/ /\ tail[w.cand] = "whole" /\ tail' = [tail EXCEPT ![w.cand] = "nonl"]
                     /\ history' = [history EXCEPT ![w.cand] =
                                       Append(@, [to |-> w.of, evidence |-> w.value])]
                  \/ /\ tail' = [tail EXCEPT ![w.cand] = "garbled"]
                     /\ UNCHANGED history
               /\ UNCHANGED <<torn, observations>>
      <3>1. /\ w.cand \in Candidate
            /\ [to |-> w.of, evidence |-> w.value] \in StateRecord
        BY <1>2, <2>4 DEF Formed, StateRecord
      <3>2. TypeOK'
        <4>1. tail' \in [Candidate \cup {0} -> {"whole", "nonl", "garbled"}]
          BY <2>4 DEF TypeOK
        <4>2. history' \in [Candidate -> Seq(StateRecord)]
          <5>1. [history EXCEPT ![w.cand] = Append(@, [to |-> w.of, evidence |-> w.value])]
                    \in [Candidate -> Seq(StateRecord)]
            BY <3>1, GrownHistory
          <5>2. history \in [Candidate -> Seq(StateRecord)]  BY DEF TypeOK
          <5> QED  BY <2>4, <5>1, <5>2
        <4> QED  BY <2>1, <2>2, <2>4, <4>1, <4>2 DEF TypeOK
      <3>3. OnHistory  BY <2>4, <3>1 DEF OnHistory, Extended, TypeOK
      <3>4. \A o : OnRecord(o)' = OnRecord(o)
        <4>1. tail'[0] = tail[0]  BY <1>3, <2>4, <3>1 DEF TypeOK
        <4> QED  BY <2>4, <4>1 DEF OnRecord, Noted
      <3>5. OnFiles /\ OnIntake /\ OnLedger /\ OnIndex
        BY <1>4, <2>1, <2>4, <3>4, SameIntake
        DEF TypeOK, OnFiles, OnIntake, OnLedger, OnIndex
      <3> QED  BY <1>1, <2>1, <3>2, <3>3, <3>5 DEF Effect
    <2>5. CASE /\ w.kind = "observation"
               /\ \/ /\ tail[0] = "whole" /\ tail' = [tail EXCEPT ![0] = "nonl"]
                     /\ observations' = Append(observations, w.cand)
                  \/ /\ tail' = [tail EXCEPT ![0] = "garbled"]
                     /\ UNCHANGED observations
               /\ UNCHANGED <<history, torn>>
      <3>1. w.cand \in 1..Found  BY <1>2, <2>5 DEF Formed
      <3>2. TypeOK'
        <4>1. tail' \in [Candidate \cup {0} -> {"whole", "nonl", "garbled"}]
          BY <2>5 DEF TypeOK
        <4>2. observations' \in Seq(1..Found)
          <5>1. observations \in Seq(1..Found)  BY DEF TypeOK
          <5>2. observations' = Append(observations, w.cand) \/ observations' = observations
            BY <2>5
          <5> QED  BY <3>1, <5>1, <5>2, AppendTyped
        <4> QED  BY <2>1, <2>2, <2>5, <4>1, <4>2 DEF TypeOK
      <3>3. OnHistory  BY <1>3, <2>5 DEF OnHistory, TypeOK
      <3>4. OnIntake
        <4>1. scan' = scan /\ scan \in BOOLEAN  BY <2>1 DEF TypeOK
        <4>2. CASE tail[0] = "whole" /\ observations' = Append(observations, w.cand)
          <5>1. observations \in Seq(1..Found)  BY DEF TypeOK
          <5>2. /\ Len(observations') \in DOMAIN observations'
                /\ observations'[Len(observations')] = w.cand
                /\ \A k \in DOMAIN observations :
                      k \in DOMAIN observations' /\ observations'[k] = observations[k]
            BY <3>1, <4>2, <5>1
          <5>3. \A o : Noted(o) # {} => Noted(o)' # {}  BY <5>2 DEF Noted
          <5>4. ASSUME NEW o \in 1..Found, o = w.cand  PROVE  Noted(o)' # {}
            BY <5>2, <5>4 DEF Noted
          <5>5. tail[0] = "garbled" => tail'[0] = "garbled"  BY <4>2
          <5>6. ASSUME NEW o \in 1..Found, OnRecord(o) \/ w.cand = o  PROVE  OnRecord(o)'
            BY <5>3, <5>4, <5>5, <5>6 DEF OnRecord
          <5> QED  BY <2>5, <4>1, <5>6 DEF OnIntake
        <4>3. CASE tail' = [tail EXCEPT ![0] = "garbled"]
          <5>1. tail'[0] = "garbled"  BY <4>3 DEF TypeOK
          <5> QED  BY <2>5, <4>1, <5>1 DEF OnIntake, OnRecord
        <4> QED  BY <2>5, <4>2, <4>3
      <3>5. OnFiles /\ OnLedger /\ OnIndex
        BY <1>4, <2>1, <2>5, SameIntake DEF TypeOK, OnFiles, OnLedger, OnIndex
      <3> QED  BY <1>1, <2>1, <3>2, <3>3, <3>4, <3>5 DEF Effect
    <2> QED  BY <1>14, <2>3, <2>4, <2>5 DEF PartialAppend
  <1> QED  BY <1>5, <1>6, <1>7, <1>8, <1>9, <1>10, <1>11, <1>12, <1>13, <1>14 DEF Perform

-----------------------------------------------------------------------------
(* A write that was carried out keeps what the writes behind it need.       *)

LEMMA ReachedStays ==
    ASSUME TypeOK, OnHistory, NEW c \in Candidate, NEW s, Reached(c, s)
    PROVE  Reached(c, s)'
  <1>1. CASE history'[c] = history[c] /\ (tail'[c] = tail[c] \/ tail'[c] = "garbled")
    BY <1>1 DEF Reached
  <1>2. CASE Extended(c, history'[c], tail'[c])
    <2>1. /\ tail[c] # "garbled" /\ history[c] \in Seq(StateRecord)
          /\ history'[c] = Append(history[c], [to |-> w.of, evidence |-> w.value])
      BY <1>2 DEF Extended, TypeOK
    <2>2. PICK i \in 1..Len(history[c]) : history[c][i].to = s  BY <2>1 DEF Reached
    <2>3. i \in 1..Len(history'[c]) /\ history'[c][i] = history[c][i]  BY <2>1
    <2> QED  BY <2>2, <2>3 DEF Reached
  <1> QED  BY <1>1, <1>2 DEF OnHistory

(* The record that is appended is the current state, or the history is lost. *)
LEMMA RecordLands ==
    ASSUME TypeOK, OnHistory, NEW c \in Candidate, NEW to \in State, IsState(w, c, to)
    PROVE  /\ Reached(c, to)'
           /\ tail'[c] = "whole" => history'[c] # <<>> /\ CurrentState(c)' = to
  <1>1. CASE tail'[c] = "garbled"  BY <1>1 DEF Reached
  <1>2. CASE Extended(c, history'[c], tail'[c])
    <2>1. /\ history[c] \in Seq(StateRecord)
          /\ history'[c] = Append(history[c], [to |-> to, evidence |-> w.value])
      BY <1>2 DEF Extended, TypeOK, IsState
    <2>2. /\ history'[c] # <<>> /\ Len(history'[c]) \in 1..Len(history'[c])
          /\ history'[c][Len(history'[c])] = [to |-> to, evidence |-> w.value]
      BY <2>1
    <2> QED  BY <2>2 DEF Reached, CurrentState
  <1> QED  BY <1>1, <1>2 DEF OnHistory, IsState

LEMMA FileStays ==
    ASSUME TypeOK, OnFiles, NEW c \in Candidate, NEW n \in FileName, NEW v, v # "absent",
           file[c][n] = v
    PROVE  file'[c][n] = v
  BY DEF OnFiles, Present

LEMMA RestIs ==
    ASSUME job # <<>>, AllFormed(job), job' = Tail(job)
    PROVE  Rest(job, job') /\ AllFormed(job') /\ w = job[1]
  BY NextWrite DEF Rest

LEMMA RestAt ==
    ASSUME NEW s, NEW t, Rest(s, t), NEW i \in 1..Len(t)
    PROVE  /\ i + 1 \in 1..Len(s) /\ t[i] = s[i + 1] /\ (i + 1) - 1 = i
           /\ \A k \in 1..i - 1 : t[k] = s[k + 1] /\ k + 1 \in 2..i
           /\ \A j \in 1..i : j # 1 => j - 1 \in 1..i - 1 /\ t[j - 1] = s[j]
  BY DEF Rest

LEMMA ChainedStays ==
    ASSUME TypeOK, OnHistory, NEW s, NEW t, Rest(s, t), w = s[1], AllFormed(s), Chained(s)
    PROVE  Chained(t)'
  <1> SUFFICES ASSUME NEW i \in 1..Len(t), t[i].kind = "state"
               PROVE  \/ /\ Stateless(t, 1, i - 1)
                         /\ tail'[t[i].cand] = "whole" => Follows(t[i].cand, t[i].of)'
                      \/ \E j \in 1..i - 1 :
                            /\ t[j].kind = "state" /\ t[j].cand = t[i].cand
                            /\ t[i].of \in Allowed(t[j].of)
                            /\ Stateless(t, j + 1, i - 1)
    BY DEF Chained, Stateless
  <1>1. /\ i + 1 \in 1..Len(s) /\ t[i] = s[i + 1] /\ (i + 1) - 1 = i
        /\ \A k \in 1..i - 1 : t[k] = s[k + 1] /\ k + 1 \in 2..i
        /\ \A j \in 1..i : j # 1 => j - 1 \in 1..i - 1 /\ t[j - 1] = s[j]
    BY RestAt
  <1>2. PICK c \in Candidate, to \in State : t[i].cand = c /\ t[i].of = to
    BY <1>1 DEF AllFormed, Formed
  <1>3. \/ /\ Stateless(s, 1, i)
           /\ tail[c] = "whole" => Follows(c, to)
        \/ \E j \in 1..i :
              /\ s[j].kind = "state" /\ s[j].cand = c
              /\ to \in Allowed(s[j].of)
              /\ Stateless(s, j + 1, i)
    BY <1>1, <1>2 DEF Chained
  <1>4. CASE /\ Stateless(s, 1, i)
             /\ tail[c] = "whole" => Follows(c, to)
    <2>1. Stateless(t, 1, i - 1)  BY <1>1, <1>4 DEF Stateless
    <2>2. w.kind # "state"  BY <1>1, <1>4 DEF Stateless
    <2>3. history'[c] = history[c] /\ tail'[c] = tail[c]  BY <2>2 DEF OnHistory
    <2>4. tail'[c] = "whole" => Follows(c, to)'  BY <1>4, <2>3 DEF Follows, CurrentState
    <2> QED  BY <1>2, <2>1, <2>4
  <1>5. ASSUME NEW j \in 1..i, s[j].kind = "state", s[j].cand = c, to \in Allowed(s[j].of),
               Stateless(s, j + 1, i)
        PROVE  \/ /\ Stateless(t, 1, i - 1)
                  /\ tail'[c] = "whole" => Follows(c, to)'
               \/ \E k \in 1..i - 1 :
                     /\ t[k].kind = "state" /\ t[k].cand = c
                     /\ to \in Allowed(t[k].of)
                     /\ Stateless(t, k + 1, i - 1)
    <2>1. CASE j = 1
      <3>1. Stateless(t, 1, i - 1)  BY <1>1, <1>5, <2>1 DEF Stateless
      <3>2. PICK from \in State : from = w.of /\ IsState(w, c, from)
        BY <1>1, <1>5, <2>1 DEF IsState, AllFormed, Formed
      <3>3. tail'[c] = "whole" => history'[c] # <<>> /\ CurrentState(c)' = from
        BY <3>2, RecordLands
      <3>4. to \in Allowed(from)  BY <1>5, <2>1, <3>2
      <3>5. tail'[c] = "whole" => Follows(c, to)'  BY <3>3, <3>4 DEF Follows
      <3> QED  BY <3>1, <3>5
    <2>2. CASE j # 1
      <3>1. j - 1 \in 1..i - 1 /\ t[j - 1] = s[j]  BY <1>1, <2>2
      <3>2. Stateless(t, (j - 1) + 1, i - 1)
        <4>1. ASSUME NEW k \in j..i - 1  PROVE  t[k].kind # "state"
          <5>1. k \in 1..i - 1 /\ k + 1 \in j + 1..i  OBVIOUS
          <5> QED  BY <1>1, <1>5, <5>1 DEF Stateless
        <4>2. (j - 1) + 1 = j  OBVIOUS
        <4> QED  BY <4>1, <4>2 DEF Stateless
      <3> QED  BY <1>5, <3>1, <3>2
    <2> QED  BY <2>1, <2>2
  <1> QED  BY <1>2, <1>3, <1>4, <1>5

LEMMA WarrantedStays ==
    ASSUME TypeOK, OnFiles, NEW s, NEW t, Rest(s, t), w = s[1], AllFormed(s), Warranted(s)
    PROVE  Warranted(t)'
  <1> SUFFICES ASSUME NEW i \in 1..Len(t), t[i].kind = "state"
               PROVE  /\ Warrants(t[i].of, t[i].value)
                      /\ EvidenceFile(t[i].of) # "none" =>
                            \/ file'[t[i].cand][EvidenceFile(t[i].of)] = t[i].value
                            \/ \E j \in 1..i - 1 :
                                  IsFile(t[j], t[i].cand, EvidenceFile(t[i].of), t[i].value)
    BY DEF Warranted
  <1>1. /\ i + 1 \in 1..Len(s) /\ t[i] = s[i + 1] /\ (i + 1) - 1 = i
        /\ \A j \in 1..i : j # 1 => j - 1 \in 1..i - 1 /\ t[j - 1] = s[j]
    BY RestAt
  <1>2. PICK c \in Candidate, to \in State, v \in Content :
            t[i].cand = c /\ t[i].of = to /\ t[i].value = v
    BY <1>1 DEF AllFormed, Formed
  <1>3. PICK n : n = EvidenceFile(to)  OBVIOUS
  <1>4. /\ Warrants(to, v)
        /\ n # "none" => file[c][n] = v \/ \E j \in 1..i : IsFile(s[j], c, n, v)
    BY <1>1, <1>2, <1>3 DEF Warranted
  <1>5. ASSUME n # "none"
        PROVE  file'[c][n] = v \/ \E j \in 1..i - 1 : IsFile(t[j], c, n, v)
    <2>1. n \in FileName /\ v # "absent"
      <3>1. {"plan", "result", "replay"} \subseteq FileName  BY DEF FileName
      <3>2. to \in {"TESTABLE", "SUPPORTED", "REPRODUCED"}  BY <1>3, <1>5, EvidenceFiles
      <3>3. n \in {"plan", "result", "replay"}  BY <1>3, <3>2, EvidenceFiles
      <3> QED  BY <1>3, <1>4, <1>5, <3>1, <3>3 DEF Warrants
    <2>2. CASE file[c][n] = v  BY <2>1, <2>2, FileStays
    <2>3. ASSUME NEW j \in 1..i, IsFile(s[j], c, n, v)
          PROVE  file'[c][n] = v \/ \E k \in 1..i - 1 : IsFile(t[k], c, n, v)
      <3>1. CASE j = 1  BY <2>3, <3>1 DEF IsFile, OnFiles
      <3>2. CASE j # 1
        <4>1. j - 1 \in 1..i - 1 /\ t[j - 1] = s[j]  BY <1>1, <3>2
        <4> QED  BY <2>3, <4>1
      <3> QED  BY <3>1, <3>2
    <2> QED  BY <1>4, <1>5, <2>2, <2>3
  <1> QED  BY <1>2, <1>3, <1>4, <1>5

LEMMA IndexedStays ==
    ASSUME TypeOK, OnHistory, NEW s, NEW t, Rest(s, t), w = s[1], AllFormed(s), Indexed(s)
    PROVE  Indexed(t)'
  <1> SUFFICES ASSUME NEW i \in 1..Len(t), t[i].kind = "index"
               PROVE  \/ Reached(t[i].cand, t[i].of)'
                      \/ \E j \in 1..i - 1 : IsState(t[j], t[i].cand, t[i].of)
    BY DEF Indexed, IsState
  <1>1. /\ i + 1 \in 1..Len(s) /\ t[i] = s[i + 1] /\ (i + 1) - 1 = i
        /\ \A j \in 1..i : j # 1 => j - 1 \in 1..i - 1 /\ t[j - 1] = s[j]
    BY RestAt
  <1>2. PICK c \in Candidate, to \in State : t[i].cand = c /\ t[i].of = to
    BY <1>1 DEF AllFormed, Formed
  <1>3. Reached(c, to) \/ \E j \in 1..i : IsState(s[j], c, to)  BY <1>1, <1>2 DEF Indexed
  <1>4. CASE Reached(c, to)
    <2>1. Reached(c, to)'  BY <1>4, ReachedStays
    <2> QED  BY <1>2, <2>1
  <1>5. ASSUME NEW j \in 1..i, IsState(s[j], c, to)
        PROVE  Reached(c, to)' \/ \E k \in 1..i - 1 : IsState(t[k], c, to)
    <2>1. CASE j = 1
      <3>1. IsState(w, c, to)  BY <1>5, <2>1
      <3>2. Reached(c, to)'  BY <3>1, RecordLands
      <3> QED  BY <3>2
    <2>2. CASE j # 1
      <3>1. j - 1 \in 1..i - 1 /\ t[j - 1] = s[j]  BY <1>1, <2>2
      <3> QED  BY <1>5, <3>1
    <2> QED  BY <2>1, <2>2
  <1> QED  BY <1>2, <1>3, <1>4, <1>5

LEMMA ScannedStays ==
    ASSUME TypeOK, OnIntake, OnLedger, NEW s, NEW t, Rest(s, t), w = s[1], Scanned(s)
    PROVE  Scanned(t)'
  <1> SUFFICES ASSUME NEW i \in 1..Len(t), t[i].kind = "scan", NEW o \in 1..Found
               PROVE  /\ OnRecord(o)' \/ \E j \in 1..i - 1 :
                                            t[j].kind = "observation" /\ t[j].cand = o
                      /\ \/ Logged(o)' # {}
                         \/ torn' /\ \E k \in 1..i - 1 : t[k].kind = "event"
                         \/ \E j, k \in 1..i - 1 :
                               j < k /\ Logs(t[j], o) /\ t[k].kind = "event"
    BY DEF Scanned, Logs
  <1>1. /\ i + 1 \in 1..Len(s) /\ t[i] = s[i + 1] /\ (i + 1) - 1 = i
        /\ \A j \in 1..i : j # 1 => j - 1 \in 1..i - 1 /\ t[j - 1] = s[j]
    BY RestAt
  <1>2. OnRecord(o) \/ \E j \in 1..i : s[j].kind = "observation" /\ s[j].cand = o
    BY <1>1 DEF Scanned
  <1>3. \/ Logged(o) # {}
        \/ torn /\ \E k \in 1..i : s[k].kind = "event"
        \/ \E j, k \in 1..i : j < k /\ Logs(s[j], o) /\ s[k].kind = "event"
    BY <1>1 DEF Scanned
  <1>4. OnRecord(o)' \/ \E j \in 1..i - 1 : t[j].kind = "observation" /\ t[j].cand = o
    <2>1. CASE OnRecord(o)  BY <2>1 DEF OnIntake
    <2>2. ASSUME NEW j \in 1..i, s[j].kind = "observation", s[j].cand = o
          PROVE  OnRecord(o)' \/ \E k \in 1..i - 1 : t[k].kind = "observation" /\ t[k].cand = o
      <3>1. CASE j = 1  BY <2>2, <3>1 DEF OnIntake
      <3>2. CASE j # 1  BY <1>1, <2>2, <3>2
      <3> QED  BY <3>1, <3>2
    <2> QED  BY <1>2, <2>1, <2>2
  <1>5. CASE Logged(o) # {}
    <2>1. Logged(o)' # {}  BY <1>5 DEF OnLedger
    <2> QED  BY <1>4, <2>1
  <1>6. ASSUME torn, NEW k \in 1..i, s[k].kind = "event"
        PROVE  torn' /\ \E j \in 1..i - 1 : t[j].kind = "event"
    <2>1. torn' /\ w.kind # "event"  BY <1>6 DEF OnLedger
    <2>2. k # 1  BY <1>6, <2>1
    <2>3. k - 1 \in 1..i - 1 /\ t[k - 1] = s[k]  BY <1>1, <2>2
    <2> QED  BY <1>6, <2>1, <2>3
  <1>7. ASSUME NEW j \in 1..i, NEW k \in 1..i, j < k, Logs(s[j], o), s[k].kind = "event"
        PROVE  \/ Logged(o)' # {}
               \/ torn' /\ \E l \in 1..i - 1 : t[l].kind = "event"
               \/ \E a, b \in 1..i - 1 : a < b /\ Logs(t[a], o) /\ t[b].kind = "event"
    <2>0. k # 1  BY <1>7
    <2>1. k - 1 \in 1..i - 1 /\ t[k - 1].kind = "event"  BY <1>1, <1>7, <2>0
    <2>2. CASE j = 1
      <3>1. w.kind = "event" /\ Logs(w, o)  BY <1>7, <2>2 DEF Logs
      <3>2. torn' \/ Logged(o)' # {}  BY <3>1 DEF OnLedger
      <3> QED  BY <2>1, <3>2
    <2>3. CASE j # 1
      <3>1. j - 1 \in 1..i - 1 /\ t[j - 1] = s[j]  BY <1>1, <2>3
      <3>2. j - 1 < k - 1 /\ Logs(t[j - 1], o)  BY <1>7, <3>1
      <3> QED  BY <2>1, <3>1, <3>2
    <2> QED  BY <2>2, <2>3
  <1> QED  BY <1>3, <1>4, <1>5, <1>6, <1>7

LEMMA RootedStays ==
    ASSUME OnFiles, NEW s, NEW t, Rest(s, t), w = s[1], Rooted(s)  PROVE  Rooted(t)'
  <1> SUFFICES ASSUME NEW i \in 1..Len(t), t[i].kind = "state"
               PROVE  \/ t[i].cand \in dirs'
                      \/ \E j \in 1..i - 1 : t[j].kind = "mkdir" /\ t[j].cand = t[i].cand
    BY DEF Rooted
  <1>1. /\ i + 1 \in 1..Len(s) /\ t[i] = s[i + 1] /\ (i + 1) - 1 = i
        /\ \A j \in 1..i : j # 1 => j - 1 \in 1..i - 1 /\ t[j - 1] = s[j]
    BY RestAt
  <1>2. dirs \subseteq dirs' /\ (w.kind = "mkdir" => w.cand \in dirs')  BY DEF OnFiles
  <1>3. t[i].cand \in dirs \/ \E j \in 1..i : s[j].kind = "mkdir" /\ s[j].cand = t[i].cand
    BY <1>1 DEF Rooted
  <1>4. ASSUME NEW j \in 1..i, s[j].kind = "mkdir", s[j].cand = t[i].cand
        PROVE  \/ t[i].cand \in dirs'
               \/ \E k \in 1..i - 1 : t[k].kind = "mkdir" /\ t[k].cand = t[i].cand
    <2>1. CASE j = 1  BY <1>2, <1>4, <2>1
    <2>2. CASE j # 1  BY <1>1, <1>4, <2>2
    <2> QED  BY <2>1, <2>2
  <1> QED  BY <1>2, <1>3, <1>4

LEMMA GoodStays ==
    ASSUME TypeOK, Good(job), job # <<>>, Effect, job' = Tail(job)  PROVE  Good(job)'
  <1>1. PICK s, t : s = job /\ t = job'  OBVIOUS
  <1>2. Rest(s, t) /\ w = s[1] /\ AllFormed(t)  BY <1>1, RestIs DEF Good
  <1>3. /\ AllFormed(s) /\ Chained(s) /\ Warranted(s) /\ Indexed(s) /\ Scanned(s)
        /\ Rooted(s)
    BY <1>1 DEF Good
  <1>4. /\ Chained(t)' /\ Warranted(t)' /\ Indexed(t)' /\ Scanned(t)' /\ Rooted(t)'
    BY <1>2, <1>3, ChainedStays, WarrantedStays, IndexedStays, ScannedStays, RootedStays
    DEF Effect
  <1>5. AllFormed(t)'  BY <1>2 DEF AllFormed, Formed
  <1>6. AllFormed(job)'  BY <1>1, <1>5 DEF AllFormed
  <1>7. Chained(job)'  BY <1>1, <1>4 DEF Chained
  <1>8. Warranted(job)'  BY <1>1, <1>4 DEF Warranted
  <1>9. Indexed(job)'  BY <1>1, <1>4 DEF Indexed
  <1>10. Scanned(job)'  BY <1>1, <1>4 DEF Scanned
  <1>11. Rooted(job)'  BY <1>1, <1>4 DEF Rooted
  <1> QED  BY <1>6, <1>7, <1>8, <1>9, <1>10, <1>11 DEF Good

LEMMA SameNeeds ==
    ASSUME UNCHANGED <<dirs, file, history, tail, observations, ledger, torn>>, Good(job')
    PROVE  Good(job)'
  <1>1. PICK t : t = job'  OBVIOUS
  <1>2. AllFormed(job)'  BY DEF Good, AllFormed, Formed
  <1>3. \A c, s : Reached(c, s)' = Reached(c, s) /\ Follows(c, s)' = Follows(c, s)
    BY DEF Reached, Follows, CurrentState
  <1>4. \A o : OnRecord(o)' = OnRecord(o) /\ Logged(o)' = Logged(o)
    BY DEF OnRecord, Noted, Logged
  <1>5. Chained(job)'  BY <1>1, <1>3 DEF Good, Chained
  <1>6. Warranted(job)'  BY <1>1 DEF Good, Warranted
  <1>7. Indexed(job)'  BY <1>1, <1>3 DEF Good, Indexed
  <1>8. Scanned(job)'  BY <1>1, <1>4 DEF Good, Scanned
  <1>9. Rooted(job)'  BY <1>1 DEF Good, Rooted
  <1> QED  BY <1>2, <1>5, <1>6, <1>7, <1>8, <1>9 DEF Good

-----------------------------------------------------------------------------
(* The invariants.                                                         *)

(* What the first write of the job may rely on.                             *)
LEMMA HeadNeeds ==
    ASSUME TypeOK, Good(job), job # <<>>
    PROVE  /\ w.kind = "state" =>
                 /\ w.cand \in Candidate /\ w.of \in State /\ w.cand \in dirs
                 /\ tail[w.cand] = "whole" => Follows(w.cand, w.of)
                 /\ Warrants(w.of, w.value)
                 /\ EvidenceFile(w.of) # "none" =>
                       file[w.cand][EvidenceFile(w.of)] = w.value
           /\ w.kind = "index" => Reached(w.cand, w.of)
           /\ w.kind = "scan" => \A o \in 1..Found : OnRecord(o) /\ Logged(o) # {}
  <1>1. w = job[1] /\ Formed(w) /\ 1 \in 1..Len(job)  BY NextWrite DEF Good
  <1>2. \A j : j \notin 1..1 - 1  OBVIOUS
  <1>3. Chained(job) /\ Warranted(job) /\ Indexed(job) /\ Scanned(job) /\ Rooted(job)
    BY DEF Good
  <1>4. ASSUME w.kind = "state"
        PROVE  /\ w.cand \in Candidate /\ w.of \in State
               /\ tail[w.cand] = "whole" => Follows(w.cand, w.of)
    BY <1>1, <1>2, <1>3, <1>4 DEF Chained, Formed
  <1>5. ASSUME w.kind = "state"  PROVE  w.cand \in dirs
    BY <1>1, <1>2, <1>3, <1>5 DEF Rooted
  <1>6. ASSUME w.kind = "state"
        PROVE  /\ Warrants(w.of, w.value)
               /\ EvidenceFile(w.of) # "none" =>
                     file[w.cand][EvidenceFile(w.of)] = w.value
    BY <1>1, <1>2, <1>3, <1>6 DEF Warranted
  <1>7. ASSUME w.kind = "index"  PROVE  Reached(w.cand, w.of)
    BY <1>1, <1>2, <1>3, <1>7 DEF Indexed
  <1>8. ASSUME w.kind = "scan", NEW o \in 1..Found  PROVE  OnRecord(o) /\ Logged(o) # {}
    BY <1>1, <1>2, <1>3, <1>8 DEF Scanned
  <1> QED  BY <1>4, <1>5, <1>6, <1>7, <1>8

(* A history is as it was, or has one record more, for which there was      *)
(* reason.                                                                  *)
LEMMA HistoryGrows ==
    ASSUME TypeOK, Good(job), job # <<>>, Effect, NEW c \in Candidate
    PROVE  \/ history'[c] = history[c]
           \/ \E to \in State, v \in Content :
                 /\ history'[c] = Append(history[c], [to |-> to, evidence |-> v])
                 /\ [to |-> to, evidence |-> v] \in StateRecord
                 /\ c \in dirs /\ Follows(c, to) /\ Warrants(to, v)
                 /\ EvidenceFile(to) # "none" => file[c][EvidenceFile(to)] = v
  <1>1. CASE w.kind = "state" /\ w.cand = c /\ Extended(c, history'[c], tail'[c])
    <2>1. /\ w.of \in State /\ c \in dirs /\ Follows(c, w.of) /\ Warrants(w.of, w.value)
          /\ EvidenceFile(w.of) # "none" => file[c][EvidenceFile(w.of)] = w.value
      BY <1>1, HeadNeeds DEF Extended
    <2>2. w.value \in Content  BY <1>1, NextWrite DEF Good, Formed
    <2>3. [to |-> w.of, evidence |-> w.value] \in StateRecord  BY <2>1, <2>2 DEF StateRecord
    <2> QED  BY <1>1, <2>1, <2>2, <2>3 DEF Extended
  <1> QED  BY <1>1 DEF Effect, OnHistory

LEMMA LegalStays ==
    ASSUME TypeOK, Good(job), job # <<>>, Effect, HistoryIsLegal  PROVE  HistoryIsLegal'
  <1> SUFFICES ASSUME NEW c \in Candidate, NEW i \in DOMAIN history'[c]
               PROVE  IF i = 1 THEN history'[c][i].to = "SIGNAL"
                      ELSE history'[c][i].to \in Allowed(history'[c][i - 1].to)
    BY DEF HistoryIsLegal
  <1>1. history[c] \in Seq(StateRecord)  BY DEF TypeOK
  <1>2. CASE history'[c] = history[c]  BY <1>2 DEF HistoryIsLegal
  <1>3. ASSUME NEW to \in State, NEW v, Follows(c, to),
               [to |-> to, evidence |-> v] \in StateRecord,
               history'[c] = Append(history[c], [to |-> to, evidence |-> v])
        PROVE  IF i = 1 THEN history'[c][i].to = "SIGNAL"
               ELSE history'[c][i].to \in Allowed(history'[c][i - 1].to)
    <2> DEFINE n == Len(history[c])
    <2>1. /\ n \in Nat /\ i \in 1..n + 1
          /\ \A k \in 1..n : history'[c][k] = history[c][k]
          /\ history'[c][n + 1] = [to |-> to, evidence |-> v]
          /\ DOMAIN history[c] = 1..n
      BY <1>1, <1>3
    <2>2. CASE i \in 1..n
      <3>1. IF i = 1 THEN history[c][i].to = "SIGNAL"
            ELSE history[c][i].to \in Allowed(history[c][i - 1].to)
        BY <2>1, <2>2 DEF HistoryIsLegal
      <3>2. i # 1 => i - 1 \in 1..n  BY <2>1, <2>2
      <3> QED  BY <2>1, <2>2, <3>1, <3>2
    <2>3. CASE i = n + 1 /\ n = 0
      <3>1. history[c] = <<>>  BY <1>1, <2>3
      <3> QED  BY <1>3, <2>1, <2>3, <3>1 DEF Follows
    <2>4. CASE i = n + 1 /\ n # 0
      <3>1. history[c] # <<>> /\ n \in 1..n /\ i - 1 = n /\ i # 1  BY <1>1, <2>1, <2>4
      <3>2. to \in Allowed(history[c][n].to)  BY <1>3, <3>1 DEF Follows, CurrentState
      <3> QED  BY <2>1, <2>4, <3>1, <3>2
    <2> QED  BY <2>1, <2>2, <2>3, <2>4
  <1> QED  BY <1>2, <1>3, HistoryGrows

LEMMA BackedStays ==
    ASSUME TypeOK, OnFiles, NEW c \in Candidate, NEW r, Backed(c, r)  PROVE  Backed(c, r)'
  <1>1. {"plan", "result", "replay"} \subseteq FileName  BY DEF FileName
  <1>2. \A n \in FileName : Present(c, n) => file'[c][n] = file[c][n]  BY DEF OnFiles
  <1>3. CASE r.to \notin {"TESTABLE", "SUPPORTED", "REPRODUCED"}
    BY <1>3, EvidenceFiles DEF Backed
  <1>4. CASE r.to = "TESTABLE"  BY <1>1, <1>2, <1>4, EvidenceFiles DEF Backed, Present
  <1>5. CASE r.to = "SUPPORTED"  BY <1>1, <1>2, <1>5, EvidenceFiles DEF Backed, Present
  <1>6. CASE r.to = "REPRODUCED"  BY <1>1, <1>2, <1>6, EvidenceFiles DEF Backed, Present
  <1> QED  BY <1>3, <1>4, <1>5, <1>6

LEMMA EvidencedStays ==
    ASSUME TypeOK, Good(job), job # <<>>, Effect, StateIsEvidenced  PROVE  StateIsEvidenced'
  <1> SUFFICES ASSUME NEW c \in Candidate, NEW i \in DOMAIN history'[c]
               PROVE  Backed(c, history[c][i])'
    BY DEF StateIsEvidenced, Backed
  <1>1. history[c] \in Seq(StateRecord) /\ OnFiles  BY DEF TypeOK, Effect
  <1>2. ASSUME NEW k \in DOMAIN history[c], history'[c][i] = history[c][k]
        PROVE  Backed(c, history[c][i])'
    <2>1. PICK r : r = history[c][k]  OBVIOUS
    <2>2. Backed(c, r)  BY <2>1 DEF StateIsEvidenced, Backed
    <2>3. Backed(c, r)'  BY <1>1, <2>2, BackedStays
    <2> QED  BY <1>2, <2>1, <2>3 DEF Backed
  <1>3. CASE history'[c] = history[c]  BY <1>2, <1>3
  <1>4. ASSUME NEW to \in State, NEW v, Warrants(to, v),
               EvidenceFile(to) # "none" => file[c][EvidenceFile(to)] = v,
               [to |-> to, evidence |-> v] \in StateRecord,
               history'[c] = Append(history[c], [to |-> to, evidence |-> v])
        PROVE  Backed(c, history[c][i])'
    <2>1. PICK r : r = [to |-> to, evidence |-> v]  OBVIOUS
    <2>2. Backed(c, r)
      <3>1. CASE to \notin {"TESTABLE", "SUPPORTED", "REPRODUCED"}
        BY <2>1, <3>1, EvidenceFiles DEF Backed
      <3>2. CASE to = "TESTABLE"
        BY <1>4, <2>1, <3>2, EvidenceFiles DEF Backed, Warrants, Present
      <3>3. CASE to = "SUPPORTED"
        BY <1>4, <2>1, <3>3, EvidenceFiles DEF Backed, Warrants, Supporting
      <3>4. CASE to = "REPRODUCED"  BY <1>4, <2>1, <3>4, EvidenceFiles DEF Backed, Warrants
      <3> QED  BY <3>1, <3>2, <3>3, <3>4
    <2>3. Backed(c, r)'  BY <1>1, <2>2, BackedStays
    <2>4. \/ i \in DOMAIN history[c] /\ history'[c][i] = history[c][i]
          \/ history'[c][i] = r
      BY <1>1, <1>4, <2>1
    <2> QED  BY <1>2, <2>3, <2>4 DEF Backed
  <1> QED  BY <1>3, <1>4, HistoryGrows

LEMMA StoreStays ==
    ASSUME TypeOK, Good(job), StoreInv, job # <<>>, Effect  PROVE  StoreInv'
  <1>1. DirInv'
    <2> SUFFICES ASSUME NEW c \in Candidate
                 PROVE  c \in dirs' \/ history'[c] = <<>>
      BY DEF DirInv
    <2>1. c \in dirs \/ history[c] = <<>>  BY DEF StoreInv, DirInv
    <2>2. c \in dirs \/ history'[c] = history[c]  BY HistoryGrows
    <2> QED  BY <2>1, <2>2 DEF Effect, OnFiles
  <1>2. HistoryIsLegal' /\ StateIsEvidenced'  BY LegalStays, EvidencedStays DEF StoreInv
  <1>3. IndexInv'
    <2> SUFFICES ASSUME NEW c \in Candidate
                 PROVE  index'[c] = NoRow \/ Reached(c, index[c])'
      BY DEF IndexInv
    <2>1. PICK s : s = index'[c]  OBVIOUS
    <2>2. s = NoRow \/ Reached(c, s)
      BY <2>1, HeadNeeds DEF StoreInv, IndexInv, Effect, OnIndex
    <2>3. s = NoRow \/ Reached(c, s)'  BY <2>2, ReachedStays DEF Effect
    <2> QED  BY <2>1, <2>3 DEF Reached
  <1>4. ListInv'
    <2> SUFFICES ASSUME NEW r \in Lister, listing'[r] # <<>>
                 PROVE  Reached(listing[r][1], listing[r][2])'
      BY DEF ListInv
    <2>1. listing' = listing /\ listing[r] \in Candidate \X State  BY DEF Effect, TypeOK
    <2>2. PICK c \in Candidate, s \in State : listing[r] = <<c, s>>  BY <2>1
    <2>3. Reached(c, s)  BY <2>1, <2>2 DEF StoreInv, ListInv
    <2>4. Reached(c, s)'  BY <2>3, ReachedStays DEF Effect
    <2>5. listing'[r][1] = c /\ listing'[r][2] = s  BY <2>1, <2>2
    <2> QED  BY <2>4, <2>5 DEF Reached
  <1>5. ScanIsBacked'
    <2> SUFFICES ASSUME scan', NEW o \in 1..Found
                 PROVE  OnRecord(o)' /\ Logged(o)' # {}
      BY DEF ScanIsBacked, OnRecord
    <2>1. scan \/ w.kind = "scan"  BY DEF Effect, OnIntake
    <2>2. OnRecord(o) /\ Logged(o) # {}
      BY <2>1, HeadNeeds DEF StoreInv, ScanIsBacked, OnRecord
    <2> QED  BY <2>2 DEF Effect, OnIntake, OnLedger
  <1> QED  BY <1>1, <1>2, <1>3, <1>4, <1>5 DEF StoreInv

LEMMA SameStore ==
    ASSUME StoreInv, UNCHANGED <<store, listing>>  PROVE  StoreInv'
  <1>1. UNCHANGED <<dirs, file, history, tail, observations, scan, ledger, torn, index, listing>>
    BY DEF store, records, intake
  <1>2. DirInv' /\ HistoryIsLegal'  BY <1>1 DEF StoreInv, DirInv, HistoryIsLegal
  <1>3. StateIsEvidenced'  BY <1>1 DEF StoreInv, StateIsEvidenced, Present
  <1>4. IndexInv' /\ ListInv'  BY <1>1 DEF StoreInv, IndexInv, ListInv, Reached
  <1>5. ScanIsBacked'  BY <1>1 DEF StoreInv, ScanIsBacked, Noted, Logged
  <1> QED  BY <1>2, <1>3, <1>4, <1>5 DEF StoreInv

LEMMA NothingIsGood ==
    ASSUME job' = <<>>  PROVE  Good(job)'
  <1>1. Len(job') = 0 /\ job' \in Seq(Write) /\ \A i : i \notin 1..0  OBVIOUS
  <1>2. AllFormed(job)'  BY <1>1 DEF AllFormed
  <1> QED  BY <1>1, <1>2 DEF Good, Chained, Warranted, Indexed, Scanned, Rooted

LEMMA InitHolds == Init => IInv
  <1> SUFFICES ASSUME Init  PROVE IInv  OBVIOUS
  <1> USE DEF Init
  <1>1. TypeOK
    <2>1. ledger \in Seq(Event)
      <3>1. [type |-> "RUN_CREATED", cand |-> 0, of |-> "run"] \in Event
        BY DEF Event, EventType, Number, Subject
      <3> QED  BY <3>1
    <2>2. file \in [Candidate -> [FileName -> Content]]  BY DEF Content
    <2>3. faults \in 0..MaxFaults  BY RunStoreAssumption
    <2>4. /\ history \in [Candidate -> Seq(StateRecord)]
          /\ tail \in [Candidate \cup {0} -> {"whole", "nonl", "garbled"}]
          /\ index \in [Candidate -> State \cup {NoRow}]
          /\ listing \in [Lister -> {<<>>} \cup (Candidate \X State)]
      OBVIOUS
    <2>5. observations \in Seq(1..Found) /\ job \in Seq(Write)  OBVIOUS
    <2>6. /\ dirs \subseteq Candidate /\ commands \in [Candidate -> Nat] /\ expectations \in Nat
          /\ scan \in BOOLEAN /\ torn \in BOOLEAN
      OBVIOUS
    <2> HIDE DEF Init
    <2> QED  BY <2>1, <2>2, <2>3, <2>4, <2>5, <2>6 DEF TypeOK
  <1>2. Good(job)  BY NoWrites, PlainIsGood
  <1>3. \A c \in Candidate : history[c] = <<>> /\ DOMAIN history[c] = {}  OBVIOUS
  <1>4. DirInv /\ HistoryIsLegal /\ StateIsEvidenced
    BY <1>3 DEF DirInv, HistoryIsLegal, StateIsEvidenced
  <1>5. IndexInv /\ ListInv /\ ScanIsBacked  BY DEF IndexInv, ListInv, ScanIsBacked
  <1> QED  BY <1>1, <1>2, <1>4, <1>5 DEF IInv, StoreInv

LEMMA NextKeeps == IInv /\ [Next]_vars => IInv'
  <1> SUFFICES ASSUME IInv, [Next]_vars  PROVE IInv'  OBVIOUS
  <1> USE DEF IInv
  <1>1. CASE Operation
    <2>1. UNCHANGED <<store, listing, faults>> /\ Good(job')
      BY <1>1, OperationStarts DEF StoreInv
    <2>2. UNCHANGED <<dirs, file, history, tail, observations, ledger, torn>>
      BY <2>1 DEF store, records, intake
    <2>3. job' \in Seq(Write)  BY <2>1 DEF Good, AllFormed
    <2>4. TypeOK'  BY <2>1, <2>3 DEF store, records, intake, TypeOK
    <2> QED  BY <2>1, <2>2, <2>4, SameNeeds, SameStore
  <1>2. CASE Perform \/ PartialAppend
    <2>1. /\ job # <<>> /\ TypeOK'
          /\ \/ Effect /\ job' \in {<<>>, Tail(job)}
             \/ UNCHANGED <<store, listing>> /\ job' = <<>>
      BY <1>2, Performed DEF Good
    <2>2. Good(job)'  BY <2>1, GoodStays, NothingIsGood
    <2>3. StoreInv'  BY <2>1, StoreStays, SameStore
    <2> QED  BY <2>1, <2>2, <2>3
  <1>3. CASE Crash
    <2>1. UNCHANGED <<store, listing>> /\ job' = <<>> /\ faults' = faults + 1
          /\ faults < MaxFaults
      BY <1>3 DEF Crash
    <2>2. faults' \in 0..MaxFaults  BY <2>1, RunStoreAssumption DEF TypeOK
    <2>3. TypeOK'  BY <2>1, <2>2 DEF store, records, intake, TypeOK
    <2> QED  BY <2>1, <2>3, SameStore, NothingIsGood
  <1>4. ASSUME NEW r \in Lister, NEW c \in Candidate, ListRead(r, c)  PROVE  IInv'
    <2>1. /\ UNCHANGED <<store, job, faults>> /\ Readable(c)
          /\ listing' = [listing EXCEPT ![r] = <<c, CurrentState(c)>>]
      BY <1>4 DEF ListRead
    <2>2. UNCHANGED <<dirs, file, history, tail, commands, expectations, observations, scan,
                      ledger, torn, index>>
      BY <2>1 DEF store, records, intake
    <2>3. CurrentState(c) \in State /\ Reached(c, CurrentState(c))
      <3>1. history[c] \in Seq(StateRecord) /\ history[c] # <<>>
        BY <2>1 DEF TypeOK, Readable
      <3>2. /\ Len(history[c]) \in 1..Len(history[c])
            /\ history[c][Len(history[c])] \in StateRecord
        BY <3>1
      <3> QED  BY <3>2 DEF CurrentState, Reached, StateRecord
    <2>4. listing' \in [Lister -> {<<>>} \cup (Candidate \X State)]
      BY <2>1, <2>3 DEF TypeOK
    <2>5. TypeOK'  BY <2>1, <2>2, <2>4 DEF TypeOK
    <2>6. Good(job)'
      <3>1. Good(job')  BY <2>1
      <3> QED  BY <2>2, <3>1, SameNeeds
    <2>7. ListInv'
      <3> SUFFICES ASSUME NEW q \in Lister, listing'[q] # <<>>
                   PROVE  Reached(listing[q][1], listing[q][2])'
        BY DEF ListInv
      <3>1. \A d, s : Reached(d, s)' = Reached(d, s)  BY <2>2 DEF Reached
      <3>2. CASE q = r
        <4>1. listing'[q] = <<c, CurrentState(c)>>  BY <2>1, <3>2 DEF TypeOK
        <4>2. listing'[q][1] = c /\ listing'[q][2] = CurrentState(c)  BY <4>1
        <4> QED  BY <2>2, <2>3, <4>2 DEF Reached
      <3>3. CASE q # r
        <4>1. listing'[q] = listing[q]  BY <2>1, <3>3 DEF TypeOK
        <4>2. Reached(listing[q][1], listing[q][2])  BY <4>1 DEF StoreInv, ListInv
        <4> QED  BY <2>2, <4>1, <4>2 DEF Reached
      <3> QED  BY <3>2, <3>3
    <2>8. DirInv' /\ HistoryIsLegal' /\ StateIsEvidenced' /\ IndexInv' /\ ScanIsBacked'
      <3>1. DirInv' /\ HistoryIsLegal'  BY <2>2 DEF StoreInv, DirInv, HistoryIsLegal
      <3>2. StateIsEvidenced'  BY <2>2 DEF StoreInv, StateIsEvidenced, Present
      <3>3. IndexInv' /\ ScanIsBacked'
        BY <2>2 DEF StoreInv, IndexInv, Reached, ScanIsBacked, Noted, Logged
      <3> QED  BY <3>1, <3>2, <3>3
    <2> QED  BY <2>5, <2>6, <2>7, <2>8 DEF StoreInv
  <1>5. ASSUME NEW r \in Lister, ListWrite(r)  PROVE  IInv'
    <2>1. /\ listing[r] # <<>>
          /\ index' = [index EXCEPT ![listing[r][1]] = listing[r][2]]
          /\ listing' = [listing EXCEPT ![r] = <<>>]
          /\ UNCHANGED <<dirs, file, history, tail, commands, expectations, observations, scan,
                         ledger, torn, job, faults>>
      BY <1>5 DEF ListWrite, records, intake
    <2>2. PICK c \in Candidate, s \in State : listing[r] = <<c, s>>  BY <2>1 DEF TypeOK
    <2>3. index' = [index EXCEPT ![c] = s] /\ Reached(c, s)
      <3>1. listing[r][1] = c /\ listing[r][2] = s  BY <2>2
      <3> QED  BY <2>1, <3>1 DEF StoreInv, ListInv
    <2>4. TypeOK'
      <3>1. index' \in [Candidate -> State \cup {NoRow}]  BY <2>3 DEF TypeOK
      <3>2. listing' \in [Lister -> {<<>>} \cup (Candidate \X State)]  BY <2>1 DEF TypeOK
      <3> QED  BY <2>1, <3>1, <3>2 DEF TypeOK
    <2>5. Good(job)'
      <3>1. Good(job')  BY <2>1
      <3> QED  BY <2>1, <3>1, SameNeeds
    <2>6. IndexInv'
      <3> SUFFICES ASSUME NEW d \in Candidate
                   PROVE  index'[d] = NoRow \/ Reached(d, index[d])'
        BY DEF IndexInv
      <3>1. CASE d = c
        <4>1. index'[d] = s  BY <2>3, <3>1 DEF TypeOK
        <4> QED  BY <2>1, <2>3, <3>1, <4>1 DEF Reached
      <3>2. CASE d # c
        <4>1. index'[d] = index[d]  BY <2>3, <3>2 DEF TypeOK
        <4> QED  BY <2>1, <4>1 DEF Reached, StoreInv, IndexInv
      <3> QED  BY <3>1, <3>2
    <2>7. ListInv'
      <3> SUFFICES ASSUME NEW q \in Lister, listing'[q] # <<>>
                   PROVE  Reached(listing[q][1], listing[q][2])'
        BY DEF ListInv
      <3>1. listing'[q] = listing[q]  BY <2>1 DEF TypeOK
      <3>2. Reached(listing[q][1], listing[q][2])  BY <3>1 DEF StoreInv, ListInv
      <3> QED  BY <2>1, <3>1, <3>2 DEF Reached
    <2>8. DirInv' /\ HistoryIsLegal' /\ StateIsEvidenced' /\ ScanIsBacked'
      <3>1. DirInv' /\ HistoryIsLegal'  BY <2>1 DEF StoreInv, DirInv, HistoryIsLegal
      <3>2. StateIsEvidenced'  BY <2>1 DEF StoreInv, StateIsEvidenced, Present
      <3>3. ScanIsBacked'  BY <2>1 DEF StoreInv, ScanIsBacked, Noted, Logged
      <3> QED  BY <3>1, <3>2, <3>3
    <2> QED  BY <2>4, <2>5, <2>6, <2>7, <2>8 DEF StoreInv
  <1>6. CASE UNCHANGED vars
    <2>1. UNCHANGED <<store, listing, job, faults>>  BY <1>6 DEF vars
    <2>2. UNCHANGED <<dirs, file, history, tail, observations, ledger, torn>>
      BY <2>1 DEF store, records, intake
    <2>3. Good(job)'
      <3>1. Good(job')  BY <2>1
      <3> QED  BY <2>2, <3>1, SameNeeds
    <2>4. TypeOK'  BY <2>1 DEF store, records, intake, TypeOK
    <2> QED  BY <2>1, <2>3, <2>4, SameStore
  <1> QED  BY <1>1, <1>2, <1>3, <1>4, <1>5, <1>6 DEF Next

LEMMA Invariance == Spec => []IInv
  BY InitHolds, NextKeeps, PTL DEF Spec

(* The variables keep their types: every write that an operation leaves to  *)
(* be made names a file, a state or an observation that exists.             *)
THEOREM TypeCorrect == Spec => []TypeOK
  <1>1. IInv => TypeOK  BY DEF IInv
  <1> QED  BY <1>1, Invariance, PTL

(* Whatever operations are started, interrupted, repeated or torn, for any  *)
(* number of candidates, readers, faults and events, no state history that  *)
(* _transition writes is one the policy forbids.                            *)
THEOREM HistoriesAreLegal == Spec => []HistoryIsLegal
  <1>1. IInv => HistoryIsLegal  BY DEF IInv, StoreInv
  <1> QED  BY <1>1, Invariance, PTL

(* A candidate that is TESTABLE, SUPPORTED or REPRODUCED has its plan, a    *)
(* supporting result or a passing replay on disk, and its records bind the  *)
(* contents that are there now.                                             *)
THEOREM StatesAreEvidenced == Spec => []StateIsEvidenced
  <1>1. IInv => StateIsEvidenced  BY DEF IInv, StoreInv
  <1> QED  BY <1>1, Invariance, PTL

(* When knowledge-scan.json is there, every observation was recorded and    *)
(* logged, whatever attempts of observe died before.                        *)
THEOREM ScansAreBacked == Spec => []ScanIsBacked
  <1>1. IInv => ScanIsBacked  BY DEF IInv, StoreInv
  <1> QED  BY <1>1, Invariance, PTL

(* No row of the index, whether an operation or a reader without the lock   *)
(* wrote it, is ahead of the records.                                       *)
THEOREM RowsAreRecorded == Spec => []IndexNeverAhead
  <1>1. IInv => IndexNeverAhead
    <2> SUFFICES ASSUME IInv, NEW c \in Candidate
                 PROVE  \/ index[c] = NoRow \/ tail[c] = "garbled"
                        \/ \E i \in DOMAIN history[c] : history[c][i].to = index[c]
      BY DEF IndexNeverAhead
    <2>1. history[c] \in Seq(StateRecord)  BY DEF IInv, TypeOK
    <2> QED  BY <2>1 DEF IInv, StoreInv, IndexInv, Reached
  <1> QED  BY <1>1, Invariance, PTL

-----------------------------------------------------------------------------
(* Every operation that writes a result writes the environment first.       *)

LEMMA ResultlessIsOrdered ==
    ASSUME NEW s, Resultless(s)  PROVE  Ordered(s)
  BY DEF Resultless, Ordered, IsFileOf

LEMMA ResultlessConcat ==
    ASSUME NEW a, NEW b, Resultless(a), Resultless(b)  PROVE  Resultless(a \o b)
  BY DEF Resultless

LEMMA ResultlessOne ==
    ASSUME NEW kind \in WriteKind, NEW c \in Number, NEW of \in Subject,
           NEW value \in Content \cup EventType, kind # "file" \/ of # "result"
    PROVE  Resultless(OneWrite(kind, c, of, value))
  <1> DEFINE s == OneWrite(kind, c, of, value)
  <1>1. /\ s \in Seq(Write) /\ Len(s) = 1
        /\ s[1] = [kind |-> kind, cand |-> c, of |-> of, value |-> value]
    BY OneWriteIs
  <1> HIDE DEF s
  <1>2. s[1].kind = kind /\ s[1].of = of  BY <1>1
  <1>3. Resultless(s)  BY <1>1, <1>2 DEF Resultless
  <1> QED  BY <1>3 DEF s

LEMMA ResultlessArtifact ==
    ASSUME NEW c \in Candidate, NEW name \in FileName, NEW v \in Content,
           NEW type \in EventType, name # "result"
    PROVE  Resultless(Artifact(c, name, v, type))
  <1> DEFINE s == Artifact(c, name, v, type)
  <1>1. c \in Number /\ name \in Subject /\ {"file", "event"} \subseteq WriteKind
    BY DEF Number, Subject, WriteKind
  <1>2. /\ s \in Seq(Write) /\ Len(s) = 2
        /\ s[1] = Record("file", c, name, v) /\ s[2] = Record("event", c, name, type)
    BY <1>1 DEF Artifact, OneWrite, Write, Record
  <1> HIDE DEF s
  <1> QED  BY <1>2 DEF Resultless, Record, s

LEMMA ResultlessTransition ==
    ASSUME NEW c \in Candidate, NEW to \in State, NEW v \in Content
    PROVE  Resultless(Transition(c, to, v))
  <1>1. PICK t : t = Transition(c, to, v)  OBVIOUS
  <1>2. /\ AllFormed(t) /\ Len(t) = 3
        /\ t[1] = [kind |-> "state", cand |-> c, of |-> to, value |-> v]
        /\ t[2] = [kind |-> "event", cand |-> c, of |-> to, value |-> "STATE_TRANSITION"]
        /\ t[3] = [kind |-> "index", cand |-> c, of |-> to, value |-> "absent"]
    BY <1>1, TransitionIs
  <1> QED  BY <1>1, <1>2 DEF AllFormed, Resultless

LEMMA ResultlessCommands ==
    ASSUME NEW c \in Candidate, NEW n \in Nat, NEW type \in EventType
    PROVE  /\ Resultless(CommandRecords(c, n, type))
           /\ \A i \in 1..Len(CommandRecords(c, n, type)) :
                 CommandRecords(c, n, type)[i].kind # "file"
  <1> DEFINE s == CommandRecords(c, n, type)
  <1>1. s \in Seq(Write)  BY CommandsArePlain DEF Plain, AllFormed
  <1>2. \A i \in 1..2 * n : s[i].kind = IF i % 2 = 1 THEN "command" ELSE "event"
    BY DEF CommandRecords
  <1>3. DOMAIN s = 1..2 * n  BY DEF CommandRecords
  <1> HIDE DEF s
  <1>4. \A i \in 1..Len(s) : s[i].kind # "file"  BY <1>1, <1>2, <1>3
  <1> QED  BY <1>1, <1>4 DEF Resultless, s

LEMMA ProposalIsOrdered ==
    ASSUME NEW c \in Candidate  PROVE  Ordered(Proposal(c))
  <1>1. PICK s : s = Proposal(c)  OBVIOUS
  <1>2. Proposes(s, c)  BY <1>1, ProposalIs
  <1>3. ASSUME NEW i \in 1..Len(s)  PROVE  ~(s[i].kind = "file" /\ s[i].of = "result")
    <2>1. i \in {1, 2, 3, 4, 5, 6, 7, 8, 9, 10, 11}  BY <1>2 DEF Proposes
    <2> QED  BY <1>2, <2>1 DEF Proposes, Record
  <1> QED  BY <1>1, <1>3 DEF Ordered, IsFileOf

LEMMA OnlyForOne ==
    ASSUME NEW kind \in WriteKind, NEW c \in Candidate, NEW of \in Subject,
           NEW value \in Content \cup EventType
    PROVE  OnlyFor(OneWrite(kind, c, of, value), c)
  <1> DEFINE s == OneWrite(kind, c, of, value)
  <1>1. c \in Number  BY DEF Number
  <1>2. /\ s \in Seq(Write) /\ Len(s) = 1
        /\ s[1] = [kind |-> kind, cand |-> c, of |-> of, value |-> value]
    BY <1>1, OneWriteIs
  <1> HIDE DEF s
  <1>3. s[1].cand = c  BY <1>2
  <1>4. OnlyFor(s, c)  BY <1>2, <1>3 DEF OnlyFor
  <1> QED  BY <1>4 DEF s

LEMMA OnlyForConcat ==
    ASSUME NEW c, NEW a, NEW b, OnlyFor(a, c), OnlyFor(b, c)  PROVE  OnlyFor(a \o b, c)
  BY DEF OnlyFor

(* What begins with the environment and is about one candidate is ordered.  *)
LEMMA EnvironmentFirst ==
    ASSUME NEW c \in Candidate, NEW x \in Seq(Write), NEW r, OnlyFor(r, c),
           Len(x) = 1, IsFileOf(x[1], c, "environment")
    PROVE  Ordered(x \o r)
  <1> DEFINE s == x \o r
  <1>1. r \in Seq(Write) /\ \A i \in 1..Len(r) : r[i].kind = "file" => r[i].cand = c
    BY DEF OnlyFor
  <1>2. /\ Len(s) = Len(r) + 1 /\ Len(r) \in Nat /\ s[1] = x[1]
        /\ \A i \in 1..Len(r) : s[1 + i] = r[i]
    <2>1. /\ Len(s) = Len(x) + Len(r) /\ Len(r) \in Nat
          /\ \A i \in 1..Len(x) : s[i] = x[i]
          /\ \A i \in 1..Len(r) : s[Len(x) + i] = r[i]
      BY <1>1, Concat
    <2> HIDE DEF s
    <2> QED  BY <2>1
  <1> HIDE DEF s
  <1>3. ASSUME NEW d \in Candidate, NEW i \in 1..Len(s), IsFileOf(s[i], d, "result")
        PROVE  \E j \in 1..i - 1 : IsFileOf(s[j], d, "environment")
    <2>1. i # 1  BY <1>2, <1>3 DEF IsFileOf
    <2>2. i - 1 \in 1..Len(r) /\ s[1 + (i - 1)] = r[i - 1] /\ 1 + (i - 1) = i /\ 1 \in 1..i - 1
      BY <1>2, <2>1
    <2>3. d = c  BY <1>1, <1>3, <2>2 DEF IsFileOf
    <2> QED  BY <1>2, <2>2, <2>3
  <1> QED  BY <1>3 DEF Ordered, s

LEMMA Regroup ==
    ASSUME NEW x \in Seq(Write), NEW y \in Seq(Write), NEW z \in Seq(Write)
    PROVE  (x \o y) \o z = x \o (y \o z)
  OBVIOUS

LEMMA ExecutionIsOrdered ==
    ASSUME NEW c \in Candidate, NEW outcome \in Outcome, NEW n \in Nat
    PROVE  Ordered(Execution(c, outcome, n))
  <1> DEFINE x == OneWrite("file", c, "environment", "written")
             y == OneWrite("event", c, "environment", "EXECUTION_ENVIRONMENT_RECORDED")
             f == OneWrite("file", c, "result", outcome)
             v == OneWrite("event", c, "result", "EXPERIMENT_EXECUTED")
             k == CommandRecords(c, n, "COMMAND_RESULT_RECORDED")
  <1>1. /\ c \in Number /\ "file" \in WriteKind /\ "event" \in WriteKind
        /\ "environment" \in Subject /\ "result" \in Subject
        /\ "written" \in Content /\ outcome \in Content
        /\ "EXECUTION_ENVIRONMENT_RECORDED" \in EventType /\ "EXPERIMENT_EXECUTED" \in EventType
        /\ "COMMAND_RESULT_RECORDED" \in EventType /\ n \in Nat
    BY RunStoreAssumption DEF Number, WriteKind, Subject, FileName, Content, EventType
  <1>2. x \in Seq(Write) /\ Len(x) = 1 /\ IsFileOf(x[1], c, "environment")
    <2>1. /\ x \in Seq(Write) /\ Len(x) = 1
          /\ x[1] = [kind |-> "file", cand |-> c, of |-> "environment", value |-> "written"]
      BY <1>1, OneWriteIs
    <2> HIDE DEF x
    <2> QED  BY <2>1 DEF IsFileOf
  <1>3. OnlyFor(y, c)  BY <1>1, OnlyForOne
  <1>4. OnlyFor(f, c)  BY <1>1, OnlyForOne
  <1>5. OnlyFor(v, c)  BY <1>1, OnlyForOne
  <1>6. OnlyFor(k, c)
    <2>1. Resultless(k) /\ \A i \in 1..Len(k) : k[i].kind # "file"
      BY <1>1, ResultlessCommands
    <2> HIDE DEF k
    <2> QED  BY <2>1 DEF Resultless, OnlyFor
  <1>7. Execution(c, outcome, n) = ((x \o y) \o (f \o v)) \o k  BY DEF Execution, Artifact
  <1> HIDE DEF x, y, f, v, k
  <1>8. OnlyFor(f \o v, c)  BY <1>4, <1>5, OnlyForConcat
  <1>9. OnlyFor((f \o v) \o k, c)  BY <1>6, <1>8, OnlyForConcat
  <1>10. OnlyFor(y \o ((f \o v) \o k), c)  BY <1>3, <1>9, OnlyForConcat
  <1>11. y \in Seq(Write) /\ (f \o v) \in Seq(Write) /\ k \in Seq(Write)
         /\ (f \o v) \o k \in Seq(Write)
    BY <1>3, <1>6, <1>8, <1>9 DEF OnlyFor
  <1>12. ((x \o y) \o (f \o v)) \o k = (x \o y) \o ((f \o v) \o k)
    <2>1. x \o y \in Seq(Write)  BY <1>2, <1>11, Concat
    <2> QED  BY <2>1, <1>11, Regroup
  <1>13. (x \o y) \o ((f \o v) \o k) = x \o (y \o ((f \o v) \o k))  BY <1>2, <1>11, Regroup
  <1>14. Ordered(x \o (y \o ((f \o v) \o k)))  BY <1>2, <1>10, EnvironmentFirst
  <1> QED  BY <1>7, <1>12, <1>13, <1>14

LEMMA ReproducedIsResultless ==
    ASSUME NEW c \in Candidate, NEW status \in ReplayStatus
    PROVE  Resultless(Reproduced(c, status))
  <1>1. CASE status = "PASS"
    <2>1. "REPRODUCED" \in State /\ "PASS" \in Content  BY DEF State, Content, ReplayStatus
    <2>2. Resultless(Transition(c, "REPRODUCED", "PASS"))  BY <2>1, ResultlessTransition
    <2> QED  BY <1>1, <2>2 DEF Reproduced
  <1>2. CASE status # "PASS"
    <2>1. Reproduced(c, status) = <<>>  BY <1>2 DEF Reproduced
    <2>2. <<>> \in Seq(Write) /\ Len(<<>>) = 0  OBVIOUS
    <2> QED  BY <2>1, <2>2 DEF Resultless
  <1> QED  BY <1>1, <1>2

LEMMA ReplaysAreResultless ==
    ASSUME NEW c \in Candidate, NEW status \in ReplayStatus, NEW n \in Nat
    PROVE  Resultless(Replaying(c, status, n)) /\ Resultless(Importing(c, status))
  <1> DEFINE a == Artifact(c, "replay_environment", "written", "REPLAY_ENVIRONMENT_RECORDED")
             b == Artifact(c, "replay", status, "REPLAY_COMPLETED")
             d == CommandRecords(c, n, "REPLAY_COMMAND_RECORDED")
             f == Artifact(c, "replay_environment", "written",
                           "EXTERNAL_REPLAY_ENVIRONMENT_IMPORTED")
             g == Artifact(c, "replay", status, "EXTERNAL_REPLAY_IMPORTED")
             q == Reproduced(c, status)
  <1>1. /\ "replay_environment" \in FileName /\ "replay" \in FileName
        /\ "written" \in Content /\ status \in Content
        /\ "REPLAY_ENVIRONMENT_RECORDED" \in EventType /\ "REPLAY_COMPLETED" \in EventType
        /\ "REPLAY_COMMAND_RECORDED" \in EventType
        /\ "EXTERNAL_REPLAY_ENVIRONMENT_IMPORTED" \in EventType
        /\ "EXTERNAL_REPLAY_IMPORTED" \in EventType
    BY DEF FileName, Content, EventType, ReplayStatus
  <1>2. n \in Nat  OBVIOUS
  <1>3. Resultless(a)  BY <1>1, ResultlessArtifact
  <1>4. Resultless(b)  BY <1>1, ResultlessArtifact
  <1>5. Resultless(d)  BY <1>1, <1>2, ResultlessCommands
  <1>6. Resultless(f)  BY <1>1, ResultlessArtifact
  <1>7. Resultless(g)  BY <1>1, ResultlessArtifact
  <1>8. Resultless(q)  BY ReproducedIsResultless
  <1>9. /\ Replaying(c, status, n) = ((a \o b) \o d) \o q
        /\ Importing(c, status) = (f \o g) \o q
    BY DEF Replaying, Importing
  <1> HIDE DEF a, b, d, f, g, q
  <1>10. Resultless((a \o b) \o d)  BY <1>3, <1>4, <1>5, ResultlessConcat
  <1>11. Resultless(((a \o b) \o d) \o q)  BY <1>8, <1>10, ResultlessConcat
  <1>12. Resultless((f \o g) \o q)  BY <1>6, <1>7, <1>8, ResultlessConcat
  <1> QED  BY <1>9, <1>11, <1>12

LEMMA OperationIsOrdered ==
    ASSUME TypeOK, Operation  PROVE  UNCHANGED file /\ Ordered(job')
  <1>1. CASE Observe
    <2>1. Ordered(Observing)  BY ObservingIs DEF Ordered, IsFileOf
    <2> QED  BY <1>1, <2>1 DEF Observe, Start, store
  <1>2. CASE AddExpectation
    <2> DEFINE e == expectations + 1
               a == OneWrite("expectation", e, "expectation", "written")
               b == OneWrite("event", e, "expectation", "EXPECTATION_RECORDED")
    <2>1. e \in 1..MaxExpectations  BY <1>2, RunStoreAssumption DEF AddExpectation, TypeOK
    <2>2. /\ e \in Number /\ "expectation" \in WriteKind /\ "event" \in WriteKind
          /\ "expectation" \in Subject /\ "written" \in Content
          /\ "EXPECTATION_RECORDED" \in EventType
      BY <2>1 DEF Number, WriteKind, Subject, Content, EventType
    <2>3. job' = Expecting(e) /\ UNCHANGED file  BY <1>2 DEF AddExpectation, Start, store
    <2> HIDE DEF e
    <2>4. Resultless(a)  BY <2>2, ResultlessOne
    <2>5. Resultless(b)  BY <2>2, ResultlessOne
    <2>6. Expecting(e) = a \o b  BY DEF Expecting
    <2> HIDE DEF a, b
    <2>7. Ordered(a \o b)  BY <2>4, <2>5, ResultlessConcat, ResultlessIsOrdered
    <2> QED  BY <2>3, <2>6, <2>7
  <1>3. ASSUME NEW c \in Candidate, CreateCandidate(c)
        PROVE  UNCHANGED file /\ Ordered(job')
    BY <1>3, ProposalIsOrdered DEF CreateCandidate, Start, store
  <1>4. ASSUME NEW c \in Candidate, PlanExperiment(c)
        PROVE  UNCHANGED file /\ Ordered(job')
    <2> DEFINE a == Artifact(c, "plan", "written", "EXPERIMENT_PLANNED")
               b == Transition(c, "TESTABLE", "written")
    <2>1. /\ "TESTABLE" \in State /\ "written" \in Content /\ "plan" \in FileName
          /\ "EXPERIMENT_PLANNED" \in EventType
      BY DEF State, Content, FileName, EventType
    <2>2. Resultless(a)  BY <2>1, ResultlessArtifact
    <2>3. Resultless(b)  BY <2>1, ResultlessTransition
    <2>4. Planning(c) = a \o b  BY DEF Planning
    <2> HIDE DEF a, b
    <2>5. Ordered(a \o b)  BY <2>2, <2>3, ResultlessConcat, ResultlessIsOrdered
    <2> QED  BY <1>4, <2>4, <2>5 DEF PlanExperiment, Start, store
  <1>5. ASSUME NEW c \in Candidate, ExecuteExperiment(c)
        PROVE  UNCHANGED file /\ Ordered(job')
    BY <1>5, RecordedCount, ExecutionIsOrdered DEF ExecuteExperiment, Start, store
  <1>6. ASSUME NEW c \in Candidate, NEW to \in State, TransitionCandidate(c, to)
        PROVE  UNCHANGED file /\ Ordered(job')
    <2> DEFINE v == IF EvidenceFile(to) = "none" THEN "absent" ELSE file[c][EvidenceFile(to)]
    <2>1. v \in Content
      <3>1. \A n \in FileName : file[c][n] \in Content  BY DEF TypeOK
      <3>2. "absent" \in Content /\ {"plan", "result", "replay"} \subseteq FileName
        BY DEF Content, FileName
      <3>3. EvidenceFile(to) \in {"none", "plan", "result", "replay"}  BY DEF EvidenceFile
      <3> QED  BY <3>1, <3>2, <3>3
    <2>2. job' = Transition(c, to, v) /\ UNCHANGED file
      BY <1>6 DEF TransitionCandidate, Start, store
    <2> HIDE DEF v
    <2> QED  BY <2>1, <2>2, ResultlessTransition, ResultlessIsOrdered
  <1>7. ASSUME NEW c \in Candidate, Replay(c)  PROVE  UNCHANGED file /\ Ordered(job')
    BY <1>7, RecordedCount, ReplaysAreResultless, ResultlessIsOrdered DEF Replay, Start, store
  <1>8. ASSUME NEW c \in Candidate, ImportExternalReplay(c)
        PROVE  UNCHANGED file /\ Ordered(job')
    BY <1>8, ReplaysAreResultless, ResultlessIsOrdered DEF ImportExternalReplay, Start, store
  <1>9. ASSUME NEW c \in Candidate, AddReview(c)  PROVE  UNCHANGED file /\ Ordered(job')
    <2>1. PICK type \in Review : Start(Reviewing(c, type))  BY <1>9 DEF AddReview
    <2>2. /\ type \in FileName /\ "written" \in Content /\ "REVIEW_RECORDED" \in EventType
          /\ type # "result"
      BY RunStoreAssumption DEF ReviewType, FileName, Content, EventType
    <2>3. Resultless(Reviewing(c, type))  BY <2>2, ResultlessArtifact DEF Reviewing
    <2> QED  BY <2>1, <2>3, ResultlessIsOrdered DEF Start, store
  <1> QED  BY <1>1, <1>2, <1>3, <1>4, <1>5, <1>6, <1>7, <1>8, <1>9 DEF Operation

(* The interruption survives a write that reaches the disk: the next write  *)
(* is neither the environment, which is there, nor the result, which has an *)
(* environment before it.                                                   *)
LEMMA InterruptedOutlasts ==
    ASSUME AllFormed(job), job # <<>>, OnFiles, job' = Tail(job),
           NEW c \in Candidate, Interrupted(c)
    PROVE  Interrupted(c)'
  <1> DEFINE E(i) == job[i].cand = c /\ job[i].kind = "file" /\ job[i].of = "environment"
             R(i) == job[i].cand = c /\ job[i].kind = "file" /\ job[i].of = "result"
  <1>1. /\ w = job[1] /\ Len(job) \in Nat \ {0} /\ job \in Seq(Write)
        /\ job' \in Seq(Write) /\ Len(job') = Len(job) - 1
        /\ \A i \in 1..Len(job) - 1 : job'[i] = job[i + 1]
    BY NextWrite DEF AllFormed
  <1>2. /\ Present(c, "environment") /\ ~Present(c, "result")
        /\ \A i \in 1..Len(job) : R(i) => \E j \in 1..Len(job) : E(j) /\ j < i
    BY <1>1 DEF Interrupted, Pending
  <1>3. ~E(1)  BY <1>1, <1>2 DEF OnFiles
  <1>4. ~R(1)  BY <1>1, <1>2
  <1>5. "environment" \in FileName /\ "result" \in FileName  BY DEF FileName
  <1>6. Present(c, "environment")' /\ ~Present(c, "result")'
    BY <1>1, <1>2, <1>4, <1>5 DEF OnFiles, Present
  <1>7. ASSUME NEW i \in 1..Len(job'),
               job'[i].cand = c, job'[i].kind = "file", job'[i].of = "result"
        PROVE  \E j \in 1..Len(job') :
                  /\ job'[j].cand = c /\ job'[j].kind = "file"
                  /\ job'[j].of = "environment" /\ j < i
    <2>1. i + 1 \in 1..Len(job) /\ R(i + 1)  BY <1>1, <1>7
    <2>2. PICK j \in 1..Len(job) : E(j) /\ j < i + 1  BY <1>2, <2>1
    <2>3. j # 1  BY <1>3, <2>2
    <2>4. j - 1 \in 1..Len(job') /\ j - 1 \in 1..Len(job) - 1 /\ (j - 1) + 1 = j /\ j - 1 < i
      BY <1>1, <2>2, <2>3
    <2>5. job'[j - 1] = job[j]  BY <1>1, <2>4
    <2> QED  BY <2>2, <2>4, <2>5
  <1>8. DOMAIN job' = 1..Len(job')  BY <1>1
  <1> QED  BY <1>6, <1>7, <1>8 DEF Interrupted, Pending

LEMMA NothingPending ==
    ASSUME NEW c \in Candidate, Interrupted(c), job' = <<>>,
           Present(c, "environment")' /\ ~Present(c, "result")'
    PROVE  Interrupted(c)'
  BY DEF Interrupted, Pending

LEMMA InterruptedStays ==
    ASSUME IInv, [Next]_vars, NEW c \in Candidate, Interrupted(c)  PROVE  Interrupted(c)'
  <1>1. TypeOK /\ AllFormed(job) /\ "environment" \in FileName /\ "result" \in FileName
    BY DEF IInv, Good, FileName
  <1>2. Present(c, "environment") /\ ~Present(c, "result")  BY DEF Interrupted
  <1>3. CASE Operation
    <2>1. UNCHANGED file /\ Ordered(job')  BY <1>1, <1>3, OperationIsOrdered
    <2>2. Present(c, "environment")' /\ ~Present(c, "result")'  BY <1>2, <2>1 DEF Present
    <2>3. \A i \in DOMAIN job' : IsFileOf(job'[i], c, "result") =>
             \E j \in DOMAIN job' : IsFileOf(job'[j], c, "environment") /\ j < i
      <3>1. AllFormed(job')  BY <1>3, OperationStarts DEF IInv, StoreInv, Good
      <3>2. DOMAIN job' = 1..Len(job') /\ Len(job') \in Nat  BY <3>1 DEF AllFormed
      <3>3. ASSUME NEW i \in 1..Len(job'), IsFileOf(job'[i], c, "result")
            PROVE  \E j \in 1..Len(job') : IsFileOf(job'[j], c, "environment") /\ j < i
        <4>1. PICK j \in 1..i - 1 : IsFileOf(job'[j], c, "environment")
          BY <2>1, <3>3 DEF Ordered
        <4> QED  BY <3>2, <4>1
      <3> QED  BY <3>2, <3>3
    <2> QED  BY <2>2, <2>3 DEF Interrupted, Pending, IsFileOf
  <1>4. CASE Perform \/ PartialAppend
    <2>1. /\ job # <<>>
          /\ \/ Effect /\ job' \in {<<>>, Tail(job)}
             \/ UNCHANGED <<store, listing>> /\ job' = <<>>
      BY <1>1, <1>4, Performed
    <2>2. CASE Effect /\ job' = Tail(job)
      BY <1>1, <2>1, <2>2, InterruptedOutlasts DEF Effect
    <2>3. CASE Effect /\ job' = <<>>
      <3>1. w = job[1] /\ Len(job) \in Nat \ {0} /\ job \in Seq(Write)
        BY <1>1, <2>1, NextWrite DEF AllFormed
      <3>2. ~(w.kind = "file" /\ w.cand = c /\ w.of = "environment")
        BY <1>2, <2>3 DEF Effect, OnFiles
      <3>3. ~(w.kind = "file" /\ w.cand = c /\ w.of = "result")
        BY <3>1 DEF Interrupted, Pending
      <3>4. Present(c, "environment")' /\ ~Present(c, "result")'
        BY <1>1, <1>2, <2>3, <3>2, <3>3 DEF Effect, OnFiles, Present
      <3> QED  BY <2>3, <3>4, NothingPending
    <2>4. CASE UNCHANGED <<store, listing>> /\ job' = <<>>
      <3>1. Present(c, "environment")' /\ ~Present(c, "result")'
        BY <1>2, <2>4 DEF Present, store
      <3> QED  BY <2>4, <3>1, NothingPending
    <2> QED  BY <2>1, <2>2, <2>3, <2>4
  <1>5. CASE Crash
    <2>1. job' = <<>> /\ Present(c, "environment")' /\ ~Present(c, "result")'
      BY <1>2, <1>5 DEF Crash, Present, store
    <2> QED  BY <2>1, NothingPending
  <1>6. CASE \/ UNCHANGED vars
             \/ \E r \in Lister : ListWrite(r) \/ \E d \in Candidate : ListRead(r, d)
    <2>1. UNCHANGED <<file, job>>  BY <1>6 DEF vars, store, ListWrite, ListRead
    <2> QED  BY <2>1 DEF Interrupted, Pending, Present
  <1> QED  BY <1>3, <1>4, <1>5, <1>6 DEF Next

(* A candidate whose execution died between environment.json and            *)
(* result.json never gets a result, whatever is started, interrupted,       *)
(* repeated or torn afterwards: the execution that would write one meets    *)
(* the environment first.                                                   *)
THEOREM InterruptedIsFinal == Spec => InterruptedExecutionIsFinal
  <1>1. IInv /\ [Next]_vars => \A c \in Candidate : Interrupted(c) => Interrupted(c)'
    BY InterruptedStays
  <1>2. IInv /\ [Next]_vars => [\A c \in Candidate : Interrupted(c) => Interrupted(c)']_vars
    BY <1>1
  <1> QED  BY <1>2, Invariance, PTL DEF Spec, InterruptedExecutionIsFinal

-----------------------------------------------------------------------------
(* What the writes of an operation have in common: an event about a file    *)
(* comes behind the file, the event of a move directly behind its record.   *)

LEMMA SequenceOver ==
    ASSUME NEW R, NEW S, NEW s \in Seq(R), \A i \in 1..Len(s) : s[i] \in S
    PROVE  s \in Seq(S)
  OBVIOUS

LEMMA ConcatIs ==
    ASSUME NEW S, NEW a \in Seq(S), NEW b \in Seq(S)
    PROVE  /\ a \o b \in Seq(S) /\ Len(a \o b) = Len(a) + Len(b)
           /\ Len(a) \in Nat /\ Len(b) \in Nat
           /\ \A i \in 1..Len(a) : (a \o b)[i] = a[i]
           /\ \A i \in 1..Len(b) : (a \o b)[Len(a) + i] = b[i]
           /\ \A i \in 1..Len(a \o b) : i \in 1..Len(a) \/ \E k \in 1..Len(b) : i = Len(a) + k
  <1>1. /\ a \o b \in Seq(S) /\ Len(a \o b) = Len(a) + Len(b)
        /\ Len(a) \in Nat /\ Len(b) \in Nat
        /\ \A i \in 1..Len(a) : (a \o b)[i] = a[i]
        /\ \A i \in 1..Len(b) : (a \o b)[Len(a) + i] = b[i]
    OBVIOUS
  <1>2. ASSUME NEW i \in 1..Len(a \o b), i \notin 1..Len(a)
        PROVE  \E k \in 1..Len(b) : i = Len(a) + k
    <2>1. i - Len(a) \in 1..Len(b) /\ i = Len(a) + (i - Len(a))  BY <1>1, <1>2
    <2> QED  BY <2>1
  <1> QED  BY <1>1, <1>2

LEMMA ProperConcat ==
    ASSUME NEW S, NEW a, NEW b, Proper(a, S), Proper(b, S)  PROVE  Proper(a \o b, S)
  <1> DEFINE s == a \o b  n == Len(a)
  <1>1. a \in Seq(S) /\ b \in Seq(S)  BY DEF Proper
  <1>2. /\ s \in Seq(S) /\ Len(s) = n + Len(b) /\ n \in Nat /\ Len(b) \in Nat
        /\ \A i \in 1..n : s[i] = a[i]
        /\ \A i \in 1..Len(b) : s[n + i] = b[i]
        /\ \A i \in 1..Len(s) : i \in 1..n \/ \E k \in 1..Len(b) : i = n + k
    BY <1>1, ConcatIs
  <1>h. n = Len(a)  OBVIOUS
  <1> HIDE DEF s, n
  <1>3. Announced(s)
    <2> SUFFICES ASSUME NEW i \in 1..Len(s), s[i].kind = "event", s[i].of \in FileName
                 PROVE  \E j \in 1..i - 1 : IsFileOf(s[j], s[i].cand, s[i].of)
      BY DEF Announced
    <2>1. CASE i \in 1..n
      <3>1. PICK j \in 1..i - 1 : IsFileOf(a[j], a[i].cand, a[i].of)
        BY <1>2, <1>h, <2>1 DEF Proper, Announced
      <3>2. j \in 1..n  BY <1>2, <2>1
      <3> QED  BY <1>2, <2>1, <3>1, <3>2
    <2>2. ASSUME NEW k \in 1..Len(b), i = n + k
          PROVE  \E j \in 1..i - 1 : IsFileOf(s[j], s[i].cand, s[i].of)
      <3>1. s[i] = b[k]  BY <1>2, <2>2
      <3>2. PICK j \in 1..k - 1 : IsFileOf(b[j], b[k].cand, b[k].of)
        BY <3>1 DEF Proper, Announced
      <3>3. j \in 1..Len(b) /\ n + j \in 1..i - 1 /\ s[n + j] = b[j]  BY <1>2, <2>2
      <3> QED  BY <3>1, <3>2, <3>3
    <2> QED  BY <1>2, <2>1, <2>2
  <1>4. Paired(s)
    <2> SUFFICES ASSUME NEW i \in 1..Len(s), IsMove(s[i])
                 PROVE  i # 1 /\ IsState(s[i - 1], s[i].cand, s[i].of)
      BY DEF Paired
    <2>1. CASE i \in 1..n
      <3>1. i # 1 /\ IsState(a[i - 1], a[i].cand, a[i].of)
        BY <1>2, <1>h, <2>1 DEF Proper, Paired
      <3>2. i - 1 \in 1..n  BY <1>2, <2>1, <3>1
      <3> QED  BY <1>2, <2>1, <3>1, <3>2
    <2>2. ASSUME NEW k \in 1..Len(b), i = n + k
          PROVE  i # 1 /\ IsState(s[i - 1], s[i].cand, s[i].of)
      <3>1. s[i] = b[k]  BY <1>2, <2>2
      <3>2. k # 1 /\ IsState(b[k - 1], b[k].cand, b[k].of)  BY <3>1 DEF Proper, Paired
      <3>3. k - 1 \in 1..Len(b) /\ n + (k - 1) = i - 1 /\ i # 1 /\ s[n + (k - 1)] = b[k - 1]
        BY <1>2, <2>2, <3>2
      <3> QED  BY <3>1, <3>2, <3>3
    <2> QED  BY <1>2, <2>1, <2>2
  <1> QED  BY <1>2, <1>3, <1>4 DEF Proper, s

LEMMA ProperOne ==
    ASSUME NEW S, NEW kind, NEW c, NEW of, NEW value, Record(kind, c, of, value) \in S,
           kind = "event" => of \notin FileName /\ value # "STATE_TRANSITION"
    PROVE  Proper(OneWrite(kind, c, of, value), S)
  <1> DEFINE s == OneWrite(kind, c, of, value)
  <1>1. s \in Seq(S) /\ Len(s) = 1 /\ s[1] = Record(kind, c, of, value)
    BY DEF OneWrite, Record
  <1> HIDE DEF s
  <1>2. s[1].kind = kind /\ s[1].of = of /\ s[1].value = value  BY <1>1 DEF Record
  <1>3. Announced(s) /\ Paired(s)  BY <1>1, <1>2 DEF Announced, Paired, IsMove
  <1> QED  BY <1>1, <1>3 DEF Proper, s

LEMMA ProperNothing ==
    ASSUME NEW S  PROVE  Proper(<<>>, S)
  <1>1. <<>> \in Seq(S) /\ Len(<<>>) = 0  OBVIOUS
  <1> QED  BY <1>1 DEF Proper, Announced, Paired

(* An event about a file, behind writes with the file among them.           *)
LEMMA EventBehindFile ==
    ASSUME NEW S, NEW a, Proper(a, S), NEW c, NEW name, NEW type,
           Record("event", c, name, type) \in S, type # "STATE_TRANSITION",
           \E j \in 1..Len(a) : IsFileOf(a[j], c, name)
    PROVE  Proper(a \o OneWrite("event", c, name, type), S)
  <1> DEFINE b == OneWrite("event", c, name, type)  s == a \o b  n == Len(a)
  <1>1. b \in Seq(S) /\ Len(b) = 1 /\ b[1] = Record("event", c, name, type)
    BY DEF OneWrite, Record
  <1>2. a \in Seq(S)  BY DEF Proper
  <1>h. n = Len(a)  OBVIOUS
  <1> HIDE DEF b
  <1>3. /\ s \in Seq(S) /\ Len(s) = n + 1 /\ n \in Nat
        /\ \A i \in 1..n : s[i] = a[i]
        /\ s[n + 1] = b[1]
    <2>0. b \in Seq(S)  BY <1>1
    <2>1. /\ s \in Seq(S) /\ Len(s) = n + Len(b) /\ n \in Nat
          /\ \A i \in 1..n : s[i] = a[i]
          /\ \A i \in 1..Len(b) : s[n + i] = b[i]
      BY <2>0, <1>2, ConcatIs
    <2> HIDE DEF s, n
    <2>2. 1 \in 1..Len(b)  BY <1>1
    <2> QED  BY <1>1, <2>1, <2>2
  <1> HIDE DEF s, n
  <1>4. \A i \in 1..Len(s) : i \in 1..n \/ i = n + 1  BY <1>3
  <1>5. s[n + 1].cand = c /\ s[n + 1].of = name /\ s[n + 1].value = type
    BY <1>1, <1>3 DEF Record
  <1>6. Announced(s)
    <2> SUFFICES ASSUME NEW i \in 1..Len(s), s[i].kind = "event", s[i].of \in FileName
                 PROVE  \E j \in 1..i - 1 : IsFileOf(s[j], s[i].cand, s[i].of)
      BY DEF Announced
    <2>1. CASE i \in 1..n
      <3>1. PICK j \in 1..i - 1 : IsFileOf(a[j], a[i].cand, a[i].of)
        BY <1>3, <1>h, <2>1 DEF Proper, Announced
      <3>2. j \in 1..n  BY <1>3, <2>1
      <3> QED  BY <1>3, <2>1, <3>1, <3>2
    <2>2. CASE i = n + 1
      <3>1. PICK j \in 1..n : IsFileOf(a[j], c, name)  BY <1>h
      <3>2. j \in 1..i - 1  BY <1>3, <2>2
      <3> QED  BY <1>3, <1>5, <2>2, <3>1, <3>2
    <2> QED  BY <1>4, <2>1, <2>2
  <1>7. Paired(s)
    <2> SUFFICES ASSUME NEW i \in 1..Len(s), IsMove(s[i])
                 PROVE  i # 1 /\ IsState(s[i - 1], s[i].cand, s[i].of)
      BY DEF Paired
    <2>1. i \in 1..n  BY <1>4, <1>5 DEF IsMove
    <2>2. i # 1 /\ IsState(a[i - 1], a[i].cand, a[i].of)
      BY <1>3, <1>h, <2>1 DEF Proper, Paired
    <2>3. i - 1 \in 1..n  BY <1>3, <2>1, <2>2
    <2> QED  BY <1>3, <2>1, <2>2, <2>3
  <1> QED  BY <1>3, <1>6, <1>7 DEF Proper, s, b

LEMMA ProperArtifact ==
    ASSUME NEW S, NEW c, NEW name, NEW v, NEW type,
           Record("file", c, name, v) \in S, Record("event", c, name, type) \in S,
           type # "STATE_TRANSITION"
    PROVE  Proper(Artifact(c, name, v, type), S)
  <1> DEFINE a == OneWrite("file", c, name, v)
  <1>1. Proper(a, S)  BY ProperOne
  <1>2. Len(a) = 1 /\ a[1] = Record("file", c, name, v)  BY DEF OneWrite, Record
  <1> HIDE DEF a
  <1>3. 1 \in 1..Len(a) /\ IsFileOf(a[1], c, name)  BY <1>2 DEF IsFileOf, Record
  <1>4. Proper(a \o OneWrite("event", c, name, type), S)  BY <1>1, <1>3, EventBehindFile
  <1> QED  BY <1>4 DEF Artifact, a

LEMMA NotAFile == \A s \in State : s \notin FileName
  BY DEF State, Rejection, FileName, ReviewType

LEMMA ProperTransition ==
    ASSUME NEW S, NEW c \in Candidate, NEW to \in State, NEW v \in Content,
           Record("state", c, to, v) \in S, Record("event", c, to, "STATE_TRANSITION") \in S,
           Record("index", c, to, "absent") \in S
    PROVE  Proper(Transition(c, to, v), S)
  <1> DEFINE t == Transition(c, to, v)
  <1>1. /\ t \in Seq(Write) /\ Len(t) = 3
        /\ t[1] = Record("state", c, to, v)
        /\ t[2] = Record("event", c, to, "STATE_TRANSITION")
        /\ t[3] = Record("index", c, to, "absent")
    <2>1. /\ AllFormed(t) /\ Len(t) = 3
          /\ t[1] = [kind |-> "state", cand |-> c, of |-> to, value |-> v]
          /\ t[2] = [kind |-> "event", cand |-> c, of |-> to, value |-> "STATE_TRANSITION"]
          /\ t[3] = [kind |-> "index", cand |-> c, of |-> to, value |-> "absent"]
      BY TransitionIs
    <2> HIDE DEF t
    <2> QED  BY <2>1 DEF Record, AllFormed
  <1> HIDE DEF t
  <1>2. \A i \in 1..Len(t) : i = 1 \/ i = 2 \/ i = 3  BY <1>1
  <1>3. t \in Seq(S)
    <2>1. \A i \in 1..Len(t) : t[i] \in S  BY <1>1, <1>2
    <2>2. t \in Seq(Write)  BY <1>1
    <2> QED  BY <2>1, <2>2, SequenceOver
  <1>4. /\ t[1].kind = "state" /\ t[1].cand = c /\ t[1].of = to
        /\ t[2].kind = "event" /\ t[2].cand = c /\ t[2].of = to
        /\ t[3].kind = "index"
    BY <1>1 DEF Record
  <1>5. Announced(t)  BY <1>2, <1>4, NotAFile DEF Announced
  <1>6. Paired(t)
    <2> SUFFICES ASSUME NEW i \in 1..Len(t), IsMove(t[i])
                 PROVE  i # 1 /\ IsState(t[i - 1], t[i].cand, t[i].of)
      BY DEF Paired
    <2>1. i = 2  BY <1>2, <1>4 DEF IsMove
    <2>2. i # 1 /\ i - 1 = 1  BY <2>1
    <2> QED  BY <1>4, <2>1, <2>2 DEF IsState
  <1> QED  BY <1>3, <1>5, <1>6 DEF Proper, t

LEMMA ProperCommands ==
    ASSUME NEW S, NEW c \in Candidate, NEW n \in Nat, NEW type \in EventType,
           Record("command", c, "command", "written") \in S,
           Record("event", c, "command", type) \in S, type # "STATE_TRANSITION"
    PROVE  Proper(CommandRecords(c, n, type), S)
  <1> DEFINE s == CommandRecords(c, n, type)
  <1>1. s = [i \in 1..2 * n |->
               Record(IF i % 2 = 1 THEN "command" ELSE "event", c, "command",
                      IF i % 2 = 1 THEN "written" ELSE type)]
    BY DEF CommandRecords, Record
  <1>2. s \in Seq(Write) /\ DOMAIN s = 1..2 * n
    BY <1>1, CommandsArePlain DEF Plain, AllFormed
  <1> HIDE DEF s
  <1>3. \A i \in 1..Len(s) : s[i] \in S  BY <1>1, <1>2
  <1>4. s \in Seq(S)  BY <1>2, <1>3
  <1>5. \A i \in 1..Len(s) : s[i].of = "command" /\ s[i].value # "STATE_TRANSITION"
    BY <1>1, <1>2 DEF Record
  <1>6. "command" \notin FileName  BY DEF FileName, ReviewType
  <1> QED  BY <1>4, <1>5, <1>6 DEF Proper, Announced, Paired, IsMove, s

-----------------------------------------------------------------------------
(* What the writes of each operation are about.  Harmless are those that    *)
(* an operation of RunStore makes: none of them is the authority's.         *)

LEMMA RecordAbout ==
    ASSUME NEW d \in Candidate, NEW T,
           NEW kind \in {"mkdir", "file", "state", "command", "event", "index"},
           NEW of \in Subject, of \notin CommitFile \cup {"VERIFIED", "observation"},
           NEW value \in Content \cup EventType,
           value \notin CommitEvent \cup IntakeEvent \cup {"EXPECTATION_RECORDED"},
           kind = "state" \/ (kind = "event" /\ value = "STATE_TRANSITION") => of \in T,
           value = "CANDIDATE_PROPOSED" => "SIGNAL" \in T
    PROVE  Record(kind, d, of, value) \in About(d, T)
  <1>1. d \in Number /\ kind \in WriteKind  BY DEF Number, WriteKind
  <1>2. Record(kind, d, of, value) \in Write  BY <1>1 DEF Record, Write
  <1>3. LET x == Record(kind, d, of, value) IN
        x.kind = kind /\ x.cand = d /\ x.of = of /\ x.value = value
    BY DEF Record
  <1>4. kind \notin {"verify", "observation", "scan", "expectation"}  OBVIOUS
  <1> QED  BY <1>2, <1>3, <1>4 DEF About, Harmless, IsMove

LEMMA ContentIsNoEvent == \A v \in Content : v \notin EventType
  BY DEF Content, EventType, Outcome, ReplayStatus

LEMMA EventTypes ==
    /\ CommitEvent \subseteq EventType /\ IntakeEvent \subseteq EventType
    /\ {"EXPECTATION_RECORDED", "CANDIDATE_PROPOSED"} \subseteq EventType
  BY DEF CommitEvent, IntakeEvent, EventType

LEMMA ArtifactAbout ==
    ASSUME NEW d \in Candidate, NEW T, NEW name \in FileName \ CommitFile,
           NEW v \in Content,
           NEW type \in EventType \ (CommitEvent \cup IntakeEvent
                                     \cup {"EXPECTATION_RECORDED", "STATE_TRANSITION",
                                           "CANDIDATE_PROPOSED"})
    PROVE  Proper(Artifact(d, name, v, type), About(d, T))
  <1>0. "observation" \notin FileName  BY DEF FileName, ReviewType
  <1>1. name \in Subject /\ name \notin CommitFile \cup {"VERIFIED", "observation"}
    BY <1>0, NotAFile DEF Subject, State
  <1>2. v \notin CommitEvent \cup IntakeEvent \cup {"EXPECTATION_RECORDED"}
        /\ v # "CANDIDATE_PROPOSED"
    BY ContentIsNoEvent, EventTypes
  <1>3. Record("file", d, name, v) \in About(d, T)  BY <1>1, <1>2, RecordAbout
  <1>4. Record("event", d, name, type) \in About(d, T)  BY <1>1, RecordAbout
  <1> QED  BY <1>3, <1>4, ProperArtifact

LEMMA TransitionAbout ==
    ASSUME NEW d \in Candidate, NEW T, NEW to \in State \ {"VERIFIED"}, to \in T,
           NEW v \in Content
    PROVE  Proper(Transition(d, to, v), About(d, T))
  <1>0. "observation" \notin State  BY DEF State, Rejection
  <1>1. to \in Subject /\ to \notin CommitFile \cup {"VERIFIED", "observation"}
    BY <1>0, NotAFile DEF Subject, CommitFile, FileName
  <1>2. "absent" \in Content  BY DEF Content
  <1>3. \A u \in Content : u \notin CommitEvent \cup IntakeEvent \cup {"EXPECTATION_RECORDED"}
                             /\ u # "CANDIDATE_PROPOSED"
    BY ContentIsNoEvent, EventTypes
  <1>4. "STATE_TRANSITION" \in EventType
        /\ "STATE_TRANSITION" \notin CommitEvent \cup IntakeEvent \cup {"EXPECTATION_RECORDED"}
    BY DEF EventType, CommitEvent, IntakeEvent
  <1>5. Record("state", d, to, v) \in About(d, T)  BY <1>1, <1>3, RecordAbout
  <1>6. Record("event", d, to, "STATE_TRANSITION") \in About(d, T)
    BY <1>1, <1>4, RecordAbout
  <1>7. Record("index", d, to, "absent") \in About(d, T)  BY <1>1, <1>2, <1>3, RecordAbout
  <1> QED  BY <1>5, <1>6, <1>7, ProperTransition

LEMMA CommandsAbout ==
    ASSUME NEW d \in Candidate, NEW T, NEW n \in Nat,
           NEW type \in {"COMMAND_RESULT_RECORDED", "REPLAY_COMMAND_RECORDED"}
    PROVE  Proper(CommandRecords(d, n, type), About(d, T))
  <1>1. /\ "command" \in Subject /\ "command" \notin CommitFile \cup {"VERIFIED", "observation"}
        /\ "written" \in Content
        /\ "written" \notin CommitEvent \cup IntakeEvent \cup {"EXPECTATION_RECORDED"}
        /\ type \in EventType /\ type # "STATE_TRANSITION"
        /\ type \notin CommitEvent \cup IntakeEvent \cup {"EXPECTATION_RECORDED"}
    BY DEF Subject, CommitFile, Content, EventType, CommitEvent, IntakeEvent
  <1>2. Record("command", d, "command", "written") \in About(d, T)  BY <1>1, RecordAbout
  <1>3. Record("event", d, "command", type) \in About(d, T)  BY <1>1, RecordAbout
  <1> QED  BY <1>1, <1>2, <1>3, ProperCommands

LEMMA ProposalAbout ==
    ASSUME NEW d \in Candidate  PROVE  Proper(Proposal(d), About(d, State))
  <1>1. PICK s : s = Proposal(d)  OBVIOUS
  <1>2. Proposes(s, d) /\ AllFormed(s)  BY <1>1, ProposalIs
  <1>3. /\ {"candidate", "hypothesis", "SIGNAL", "CANDIDATE", "HYPOTHESIZED"}
              \cap (CommitFile \cup {"VERIFIED", "observation"}) = {}
        /\ {"SIGNAL", "CANDIDATE", "HYPOTHESIZED"} \cap FileName = {}
        /\ {"absent", "written", "CANDIDATE_PROPOSED", "STATE_TRANSITION"}
              \cap (CommitEvent \cup IntakeEvent \cup {"EXPECTATION_RECORDED"}) = {}
        /\ {"SIGNAL", "CANDIDATE", "HYPOTHESIZED"} \subseteq State
    BY DEF FileName, ReviewType, State, CommitFile, CommitEvent, IntakeEvent
  <1>4. s \in Seq(Write)  BY <1>2 DEF AllFormed
  <1>5. \A i \in 1..Len(s) : i \in {1, 2, 3, 4, 5, 6, 7, 8, 9, 10, 11}  BY <1>2 DEF Proposes
  <1>6. ASSUME NEW i \in 1..Len(s)  PROVE  s[i] \in About(d, State)
    <2>1. /\ s[i].cand = d
          /\ s[i].kind \in {"mkdir", "file", "state", "event", "index"}
          /\ s[i].of \in {"candidate", "hypothesis", "SIGNAL", "CANDIDATE", "HYPOTHESIZED"}
          /\ s[i].value \in {"absent", "written", "CANDIDATE_PROPOSED", "STATE_TRANSITION"}
          /\ s[i].kind = "state" \/ IsMove(s[i]) =>
                s[i].of \in {"SIGNAL", "CANDIDATE", "HYPOTHESIZED"}
      BY <1>2, <1>5 DEF Proposes, Record, IsMove
    <2>2. s[i] \in Write  BY <1>4
    <2> QED  BY <1>3, <2>1, <2>2 DEF About, Harmless
  <1>7. s \in Seq(About(d, State))  BY <1>4, <1>6, TypedBy
  <1>8. Announced(s)
    <2> SUFFICES ASSUME NEW i \in 1..Len(s), s[i].kind = "event", s[i].of \in FileName
                 PROVE  \E j \in 1..i - 1 : IsFileOf(s[j], s[i].cand, s[i].of)
      BY DEF Announced
    <2>1. i = 11  BY <1>2, <1>3, <1>5 DEF Proposes, Record
    <2>2. 2 \in 1..i - 1 /\ IsFileOf(s[2], s[i].cand, s[i].of)
      BY <1>2, <2>1 DEF Proposes, Record, IsFileOf
    <2> QED  BY <2>2
  <1>9. Paired(s)
    <2> SUFFICES ASSUME NEW i \in 1..Len(s), IsMove(s[i])
                 PROVE  i # 1 /\ IsState(s[i - 1], s[i].cand, s[i].of)
      BY DEF Paired
    <2>1. i = 6 \/ i = 9  BY <1>2, <1>5 DEF Proposes, Record, IsMove
    <2> QED  BY <1>2, <2>1 DEF Proposes, Record, IsState
  <1> QED  BY <1>1, <1>7, <1>8, <1>9 DEF Proper

LEMMA ObservingIsProper == Proper(Observing, Observed)
  <1>1. PICK s : s = Observing  OBVIOUS
  <1>2. Observes(s)  BY <1>1, ObservingWrites
  <1>3. /\ {"observation", "run", "scan"} \cap (CommitFile \cup {"VERIFIED"} \cup FileName) = {}
        /\ {"written", "OBSERVATION_RECORDED", "OBSERVATION_BATCH_CAPTURED",
            "KNOWLEDGE_SCAN_COMPLETED"} \cap CommitEvent = {}
    BY DEF FileName, ReviewType, CommitFile, CommitEvent
  <1>4. ASSUME NEW i \in 1..Len(s)  PROVE  s[i] \in Observed /\ s[i].of \notin FileName
    <2>1. /\ s[i].kind \in {"observation", "event", "scan"}
          /\ s[i].of \in {"observation", "run", "scan"}
          /\ s[i].value \in {"written", "OBSERVATION_RECORDED", "OBSERVATION_BATCH_CAPTURED",
                             "KNOWLEDGE_SCAN_COMPLETED"}
      <3>1. CASE \E o \in 1..Found : i = 2 * o - 1 \/ i = 2 * o
        <4>1. PICK o \in 1..Found : i = 2 * o - 1 \/ i = 2 * o  BY <3>1
        <4>2. \/ s[i] = Record("observation", o, "observation", "written")
              \/ s[i] = Record("event", o, "observation", "OBSERVATION_RECORDED")
          BY <1>2, <4>1 DEF Observes
        <4> QED  BY <4>2 DEF Record
      <3>2. CASE i \in {2 * Found + 1, 2 * Found + 2, 2 * Found + 3}
        BY <1>2, <3>2 DEF Observes, Record
      <3> QED  BY <1>2, <3>1, <3>2, ScanPlaces DEF Observes
    <2>2. s[i] \in Write  BY <1>2 DEF Observes
    <2> QED  BY <1>3, <2>1, <2>2 DEF Observed, Harmless, IsMove
  <1>5. s \in Seq(Observed)  BY <1>2, <1>4 DEF Observes
  <1> QED  BY <1>1, <1>4, <1>5 DEF Proper, Announced, Paired, Observed

LEMMA ExpectingIsProper ==
    ASSUME NEW e \in 1..MaxExpectations  PROVE  Proper(Expecting(e), Expected(e))
  <1> DEFINE s == Expecting(e)
  <1>1. /\ e \in Number /\ {"expectation", "event"} \subseteq WriteKind
        /\ "expectation" \in Subject /\ "written" \in Content
        /\ "EXPECTATION_RECORDED" \in EventType
        /\ "expectation" \notin CommitFile \cup {"VERIFIED"} \cup FileName
        /\ {"written", "EXPECTATION_RECORDED"} \cap (CommitEvent \cup IntakeEvent) = {}
    BY DEF Number, WriteKind, Subject, CommitFile, FileName, ReviewType, Content, EventType,
           CommitEvent, IntakeEvent
  <1>2. /\ s \in Seq(Write) /\ Len(s) = 2
        /\ s[1] = Record("expectation", e, "expectation", "written")
        /\ s[2] = Record("event", e, "expectation", "EXPECTATION_RECORDED")
    BY <1>1 DEF Expecting, OneWrite, Write, Record
  <1> HIDE DEF s
  <1>3. ASSUME NEW i \in 1..Len(s)  PROVE  s[i] \in Expected(e) /\ s[i].of \notin FileName
    <2>1. i \in {1, 2} /\ s[i] \in Write  BY <1>2
    <2> QED  BY <1>1, <1>2, <2>1 DEF Expected, Harmless, IsMove, Record
  <1>4. s \in Seq(Expected(e))  BY <1>2, <1>3, TypedBy
  <1> QED  BY <1>3, <1>4 DEF Proper, Announced, Paired, Expected, s

(* The move of a replay that passed.                                        *)
LEMMA ReproducedAbout ==
    ASSUME NEW c \in Candidate, NEW status \in ReplayStatus
    PROVE  Proper(Reproduced(c, status), About(c, Allowed("SUPPORTED")))
  <1>1. /\ "REPRODUCED" \in State \ {"VERIFIED"} /\ "REPRODUCED" \in Allowed("SUPPORTED")
        /\ "PASS" \in Content
    BY DEF State, Allowed, Content, ReplayStatus
  <1>2. Proper(Transition(c, "REPRODUCED", "PASS"), About(c, Allowed("SUPPORTED")))
    BY <1>1, TransitionAbout
  <1> QED  BY <1>2, ProperNothing DEF Reproduced

LEMMA ReplaysAbout ==
    ASSUME NEW c \in Candidate, NEW status \in ReplayStatus, NEW n \in Nat
    PROVE  /\ Proper(Replaying(c, status, n), About(c, Allowed("SUPPORTED")))
           /\ Proper(Importing(c, status), About(c, Allowed("SUPPORTED")))
  <1> DEFINE S == About(c, Allowed("SUPPORTED"))
             a == Artifact(c, "replay_environment", "written", "REPLAY_ENVIRONMENT_RECORDED")
             b == Artifact(c, "replay", status, "REPLAY_COMPLETED")
             d == CommandRecords(c, n, "REPLAY_COMMAND_RECORDED")
             f == Artifact(c, "replay_environment", "written",
                           "EXTERNAL_REPLAY_ENVIRONMENT_IMPORTED")
             g == Artifact(c, "replay", status, "EXTERNAL_REPLAY_IMPORTED")
             q == Reproduced(c, status)
  <1>1. /\ {"replay_environment", "replay"} \subseteq FileName \ CommitFile
        /\ "written" \in Content /\ status \in Content
        /\ {"REPLAY_ENVIRONMENT_RECORDED", "REPLAY_COMPLETED",
            "EXTERNAL_REPLAY_ENVIRONMENT_IMPORTED", "EXTERNAL_REPLAY_IMPORTED"} \subseteq
              EventType \ (CommitEvent \cup IntakeEvent
                           \cup {"EXPECTATION_RECORDED", "STATE_TRANSITION",
                                           "CANDIDATE_PROPOSED"})
    BY DEF FileName, CommitFile, Content, EventType, CommitEvent, IntakeEvent
  <1>2. n \in Nat  OBVIOUS
  <1>3. Proper(a, S)  BY <1>1, ArtifactAbout
  <1>4. Proper(b, S)  BY <1>1, ArtifactAbout
  <1>5. Proper(d, S)  BY <1>2, CommandsAbout
  <1>6. Proper(f, S)  BY <1>1, ArtifactAbout
  <1>7. Proper(g, S)  BY <1>1, ArtifactAbout
  <1>8. Proper(q, S)  BY ReproducedAbout
  <1>9. /\ Replaying(c, status, n) = ((a \o b) \o d) \o q
        /\ Importing(c, status) = (f \o g) \o q
    BY DEF Replaying, Importing
  <1> HIDE DEF a, b, d, f, g, q
  <1>10. Proper(((a \o b) \o d) \o q, S)  BY <1>3, <1>4, <1>5, <1>8, ProperConcat
  <1>11. Proper((f \o g) \o q, S)  BY <1>6, <1>7, <1>8, ProperConcat
  <1> QED  BY <1>9, <1>10, <1>11 DEF S

LEMMA ExecutionAbout ==
    ASSUME NEW c \in Candidate, NEW outcome \in Outcome, NEW n \in Nat, NEW T
    PROVE  Proper(Execution(c, outcome, n), About(c, T))
  <1> DEFINE S == About(c, T)
             a == Artifact(c, "environment", "written", "EXECUTION_ENVIRONMENT_RECORDED")
             b == Artifact(c, "result", outcome, "EXPERIMENT_EXECUTED")
             d == CommandRecords(c, n, "COMMAND_RESULT_RECORDED")
  <1>1. /\ {"environment", "result"} \subseteq FileName \ CommitFile
        /\ "written" \in Content /\ outcome \in Content
        /\ {"EXECUTION_ENVIRONMENT_RECORDED", "EXPERIMENT_EXECUTED"} \subseteq
              EventType \ (CommitEvent \cup IntakeEvent
                           \cup {"EXPECTATION_RECORDED", "STATE_TRANSITION",
                                           "CANDIDATE_PROPOSED"})
    BY DEF FileName, CommitFile, Content, EventType, CommitEvent, IntakeEvent
  <1>2. n \in Nat  OBVIOUS
  <1>3. Proper(a, S)  BY <1>1, ArtifactAbout
  <1>4. Proper(b, S)  BY <1>1, ArtifactAbout
  <1>5. Proper(d, S)  BY <1>2, CommandsAbout
  <1>6. Execution(c, outcome, n) = (a \o b) \o d  BY DEF Execution
  <1> HIDE DEF a, b, d
  <1> QED  BY <1>3, <1>4, <1>5, <1>6, ProperConcat DEF S

(* The writes of an operation: of a scan, as long as there is none; of the  *)
(* next expectation; or about one candidate, which is new, or which they    *)
(* move only where its current state allows.                                *)
LEMMA OperationIsProper ==
    ASSUME TypeOK, Operation
    PROVE  \/ ~scan /\ job' = Observing /\ Proper(job', Observed)
           \/ \E e \in 1..MaxExpectations : e = expectations + 1 /\ Proper(job', Expected(e))
           \/ \E d \in Candidate, T \in SUBSET State :
                 /\ Proper(job', About(d, T))
                 /\ \/ d \notin dirs /\ expectations > 0
                    \/ Readable(d) /\ T = State \cap Allowed(CurrentState(d))
                    \/ d \in dirs /\ T = {}
  <1> DEFINE Moves(d) ==
                /\ Readable(d)
                /\ \E T \in SUBSET State :
                      Proper(job', About(d, T)) /\ T = State \cap Allowed(CurrentState(d))
  <1>0. Allowed("HYPOTHESIZED") \subseteq State /\ Allowed("SUPPORTED") \subseteq State
    BY DEF Allowed, State
  <1>1. CASE Observe  BY <1>1, ObservingIsProper DEF Observe, Start
  <1>2. CASE AddExpectation
    <2>1. expectations + 1 \in 1..MaxExpectations
      BY <1>2, RunStoreAssumption DEF AddExpectation, TypeOK
    <2>2. Proper(Expecting(expectations + 1), Expected(expectations + 1))
      BY <2>1, ExpectingIsProper
    <2> QED  BY <1>2, <2>1, <2>2 DEF AddExpectation, Start
  <1>3. ASSUME NEW c \in Candidate, CreateCandidate(c)
        PROVE  Proper(job', About(c, State)) /\ c \notin dirs /\ expectations > 0
    BY <1>3, ProposalAbout DEF CreateCandidate, Start
  <1>4. ASSUME NEW c \in Candidate, PlanExperiment(c)  PROVE  Moves(c)
    <2> DEFINE T == Allowed("HYPOTHESIZED")
               a == Artifact(c, "plan", "written", "EXPERIMENT_PLANNED")
               b == Transition(c, "TESTABLE", "written")
    <2>1. /\ "TESTABLE" \in State \ {"VERIFIED"} /\ "TESTABLE" \in T
          /\ "written" \in Content /\ "plan" \in FileName \ CommitFile
          /\ "EXPERIMENT_PLANNED" \in
                EventType \ (CommitEvent \cup IntakeEvent
                             \cup {"EXPECTATION_RECORDED", "STATE_TRANSITION",
                                           "CANDIDATE_PROPOSED"})
      BY DEF State, Allowed, Content, FileName, CommitFile, EventType, CommitEvent, IntakeEvent
    <2> HIDE DEF T
    <2>2. Proper(a, About(c, T))  BY <2>1, ArtifactAbout
    <2>3. Proper(b, About(c, T))  BY <2>1, TransitionAbout
    <2>4. Planning(c) = a \o b  BY DEF Planning
    <2> HIDE DEF a, b
    <2>5. Proper(Planning(c), About(c, T))  BY <2>2, <2>3, <2>4, ProperConcat
    <2>6. Readable(c) /\ CurrentState(c) = "HYPOTHESIZED" /\ job' = Planning(c)
      BY <1>4 DEF PlanExperiment, Start, In
    <2>7. T = State \cap T  BY <1>0 DEF T
    <2> QED  BY <2>5, <2>6, <2>7 DEF T
  <1>5. ASSUME NEW c \in Candidate, ExecuteExperiment(c)  PROVE  Moves(c)
    <2> DEFINE T == State \cap Allowed(CurrentState(c))
    <2>1. PICK outcome \in Outcome, n \in Nat : Start(Execution(c, outcome, n))
      BY <1>5, RecordedCount DEF ExecuteExperiment
    <2>2. Readable(c)  BY <1>5 DEF ExecuteExperiment, In
    <2>3. Proper(job', About(c, T))  BY <2>1, ExecutionAbout DEF Start
    <2> QED  BY <2>2, <2>3
  <1>6. ASSUME NEW c \in Candidate, NEW to \in State, TransitionCandidate(c, to)
        PROVE  Moves(c)
    <2> DEFINE v == IF EvidenceFile(to) = "none" THEN "absent" ELSE file[c][EvidenceFile(to)]
               T == State \cap Allowed(CurrentState(c))
    <2>1. v \in Content
      <3>1. \A n \in FileName : file[c][n] \in Content  BY DEF TypeOK
      <3>2. "absent" \in Content /\ {"plan", "result", "replay"} \subseteq FileName
        BY DEF Content, FileName
      <3>3. EvidenceFile(to) \in {"none", "plan", "result", "replay"}  BY DEF EvidenceFile
      <3> QED  BY <3>1, <3>2, <3>3
    <2>2. /\ job' = Transition(c, to, v) /\ Readable(c)
          /\ to \in State \ {"VERIFIED"} /\ to \in T
      BY <1>6 DEF TransitionCandidate, Start
    <2> HIDE DEF v, T
    <2>3. Proper(job', About(c, T))  BY <2>1, <2>2, TransitionAbout
    <2> QED  BY <2>2, <2>3 DEF T
  <1>7. ASSUME NEW c \in Candidate, Replay(c)  PROVE  Moves(c)
    <2>1. PICK status \in ReplayStatus, n \in Nat : Start(Replaying(c, status, n))
      BY <1>7, RecordedCount DEF Replay
    <2>2. Readable(c) /\ CurrentState(c) = "SUPPORTED"  BY <1>7 DEF Replay, In
    <2>3. Allowed("SUPPORTED") = State \cap Allowed("SUPPORTED")  BY <1>0
    <2>4. Proper(job', About(c, Allowed("SUPPORTED")))  BY <2>1, ReplaysAbout DEF Start
    <2> QED  BY <2>2, <2>3, <2>4
  <1>8. ASSUME NEW c \in Candidate, ImportExternalReplay(c)  PROVE  Moves(c)
    <2>1. PICK status \in ReplayStatus : Start(Importing(c, status))
      BY <1>8 DEF ImportExternalReplay
    <2>2. Readable(c) /\ CurrentState(c) = "SUPPORTED"  BY <1>8 DEF ImportExternalReplay, In
    <2>3. Allowed("SUPPORTED") = State \cap Allowed("SUPPORTED")  BY <1>0
    <2>4. Proper(job', About(c, Allowed("SUPPORTED")))  BY <2>1, ReplaysAbout DEF Start
    <2> QED  BY <2>2, <2>3, <2>4
  <1>9. ASSUME NEW c \in Candidate, AddReview(c)
        PROVE  Proper(job', About(c, {})) /\ c \in dirs
    <2>1. PICK type \in Review : Start(Reviewing(c, type))  BY <1>9 DEF AddReview
    <2>2. /\ type \in FileName \ CommitFile /\ "written" \in Content
          /\ "REVIEW_RECORDED" \in
                EventType \ (CommitEvent \cup IntakeEvent
                             \cup {"EXPECTATION_RECORDED", "STATE_TRANSITION",
                                           "CANDIDATE_PROPOSED"})
      <3>1. type \in ReviewType  BY RunStoreAssumption
      <3> QED  BY <3>1 DEF ReviewType, FileName, CommitFile, Content, EventType, CommitEvent,
                           IntakeEvent
    <2>3. Proper(Reviewing(c, type), About(c, {}))  BY <2>2, ArtifactAbout DEF Reviewing
    <2> QED  BY <1>9, <2>1, <2>3 DEF AddReview, Start
  <1> QED
    <2>1. \A c \in Candidate : Moves(c) =>
             \E d \in Candidate, T \in SUBSET State :
                /\ Proper(job', About(d, T))
                /\ Readable(d) /\ T = State \cap Allowed(CurrentState(d))
      OBVIOUS
    <2> HIDE DEF Moves
    <2> QED  BY <1>1, <1>2, <1>3, <1>4, <1>5, <1>6, <1>7, <1>8, <1>9, <2>1 DEF Operation

-----------------------------------------------------------------------------
(* What carrying out a write changes besides the files and histories, and   *)
(* when it ends the operation.                                              *)

LEMMA WritesDo ==
    ASSUME TypeOK, AllFormed(job), Perform \/ PartialAppend  PROVE  Did \/ Ended
  <1>1. job # <<>>
    BY DEF Perform, PartialAppend, MakeDirectory, WriteOnce, AppendState, AppendCommand,
           AppendExpectation, AppendObservation, WriteScan, AppendEvent, UpsertIndex, Doing
  <1>2. w.kind = "state" => w.cand \in Candidate  BY <1>1, NextWrite DEF Formed
  <1>3. 0 \notin Candidate /\ tail \in [Candidate \cup {0} -> {"whole", "nonl", "garbled"}]
    BY DEF Candidate, TypeOK
  <1>4. torn \in BOOLEAN /\ scan \in BOOLEAN  BY DEF TypeOK
  <1>5. CASE MakeDirectory
    BY <1>1, <1>5 DEF MakeDirectory, Doing, Continue, records, intake, Did
  <1>6. CASE AppendCommand
    BY <1>1, <1>6 DEF AppendCommand, Doing, Continue, records, intake, Did
  <1>7. CASE AppendExpectation
    BY <1>1, <1>7 DEF AppendExpectation, Doing, Continue, records, intake, Did
  <1>8. CASE WriteScan  BY <1>1, <1>8 DEF WriteScan, Doing, Continue, records, intake, Did
  <1>9. CASE UpsertIndex
    BY <1>1, <1>9 DEF UpsertIndex, Doing, Continue, records, intake, Did
  <1>10. CASE WriteOnce
    BY <1>1, <1>10 DEF WriteOnce, Doing, Continue, Steady, Raise, records, intake, Did, Ended
  <1>11. CASE AppendState
    <2>1. tail'[0] = tail[0]  BY <1>2, <1>3, <1>11 DEF AppendState, Doing
    <2> QED  BY <1>1, <1>11, <2>1 DEF AppendState, Doing, Continue, records, intake, Did
  <1>12. CASE AppendObservation
    BY <1>1, <1>12 DEF AppendObservation, Doing, Continue, records, intake, Did
  <1>13. CASE AppendEvent  BY <1>1, <1>4, <1>13
    DEF AppendEvent, Doing, Continue, Steady, Raise, records, intake, Did, Ended, Entry
  <1>14. CASE PartialAppend
    <2>1. w.kind = "state" => tail'[0] = tail[0]  BY <1>2, <1>3, <1>14 DEF PartialAppend
    <2> QED  BY <1>1, <1>4, <1>14, <2>1 DEF PartialAppend, records, intake, Did
  <1> QED  BY <1>5, <1>6, <1>7, <1>8, <1>9, <1>10, <1>11, <1>12, <1>13, <1>14 DEF Perform

(* What an event that was appended does to the ledger, position by position. *)
LEMMA LedgerSteps ==
    ASSUME TypeOK, AllFormed(job), Did
    PROVE  /\ Len(ledger) \in Nat /\ Len(ledger') \in Nat /\ Len(ledger) <= Len(ledger')
           /\ DOMAIN ledger = 1..Len(ledger) /\ DOMAIN ledger' = 1..Len(ledger')
           /\ \A i \in DOMAIN ledger : i \in DOMAIN ledger' /\ ledger'[i] = ledger[i]
           /\ \A i \in DOMAIN ledger' :
                 \/ i \in DOMAIN ledger
                 \/ /\ i = Len(ledger) + 1 /\ ledger'[i] = Entry(w) /\ w.kind = "event"
                    /\ job' = Tail(job) /\ ~torn'
           /\ \/ ledger' = ledger
              \/ /\ w.kind = "event" /\ Len(ledger') = Len(ledger) + 1
                 /\ ledger'[Len(ledger) + 1] = Entry(w) /\ job' = Tail(job)
                 /\ ~torn' /\ Entry(w) \in Event
  <1>1. ledger \in Seq(Event)  BY DEF TypeOK
  <1>2. CASE ledger' = ledger  BY <1>1, <1>2
  <1>3. CASE /\ w.kind = "event" /\ ~torn' /\ job' = Tail(job)
             /\ ledger' = Append(ledger, Entry(w))
    <2>1. w \in Write /\ Formed(w)  BY NextWrite DEF Did
    <2>2. Entry(w) \in Event  BY <1>3, <2>1 DEF Entry, Event, Write, Formed
    <2> HIDE DEF Entry
    <2> QED  BY <1>1, <1>3, <2>2
  <1> QED  BY <1>2, <1>3 DEF Did

-----------------------------------------------------------------------------
(* The ledger claims nothing that is not there.  A pending event about a    *)
(* file has the file on disk or before it; the event of a move that is next *)
(* is about the newest record, which no event is about yet.                 *)

LEMMA NothingClaims ==
    ASSUME job' = <<>>  PROVE  Led(job)' /\ Headed(job)'
  BY DEF Led, Headed

LEMMA ProperClaims ==
    ASSUME AllFormed(job'), Announced(job'), Paired(job')  PROVE  Led(job)' /\ Headed(job)'
  <1>1. job' \in Seq(Write) /\ \A i \in 1..Len(job') : Formed(job'[i])  BY DEF AllFormed
  <1>2. ASSUME NEW i \in 1..Len(job'), job'[i].kind = "event", job'[i].of \in FileName
        PROVE  /\ job'[i].cand \in Candidate
               /\ \E j \in 1..i - 1 : IsFileOf(job'[j], job'[i].cand, job'[i].of)
    <2>1. PICK j \in 1..i - 1 : IsFileOf(job'[j], job'[i].cand, job'[i].of)
      BY <1>2 DEF Announced
    <2>2. j \in 1..Len(job')  BY <1>1
    <2>3. job'[i].cand \in Candidate  BY <1>1, <2>1, <2>2 DEF Formed, IsFileOf
    <2> QED  BY <2>1, <2>3
  <1>3. ASSUME NEW i \in 1..Len(job'), IsMove(job'[i])
        PROVE  /\ job'[i].cand \in Candidate
               /\ i # 1 /\ IsState(job'[i - 1], job'[i].cand, job'[i].of)
    <2>1. i # 1 /\ IsState(job'[i - 1], job'[i].cand, job'[i].of)  BY <1>3 DEF Paired
    <2>2. i - 1 \in 1..Len(job')  BY <1>1, <2>1
    <2>3. job'[i].cand \in Candidate  BY <1>1, <2>1, <2>2 DEF Formed, IsState
    <2> QED  BY <2>1, <2>3
  <1>4. Led(job)'  BY <1>2 DEF Led
  <1>5. Headed(job)'  BY <1>3 DEF Headed
  <1> QED  BY <1>4, <1>5

LEMMA LedStays ==
    ASSUME TypeOK, AllFormed(job), Led(job), Effect, Did  PROVE  Led(job)'
  <1>1. CASE job' = <<>>  BY <1>1, NothingClaims
  <1>2. CASE job' = Tail(job)
    <2>1. Rest(job, job') /\ w = job[1] /\ Formed(w) /\ OnFiles
      BY <1>2, RestIs, NextWrite DEF Did, Effect
    <2> SUFFICES ASSUME NEW i \in 1..Len(job'), job'[i].kind = "event", job'[i].of \in FileName
                 PROVE  /\ job'[i].cand \in Candidate
                        /\ \/ Present(job[i].cand, job[i].of)'
                           \/ \E j \in 1..i - 1 : IsFileOf(job'[j], job'[i].cand, job'[i].of)
      BY DEF Led
    <2>2. /\ i + 1 \in 1..Len(job) /\ job'[i] = job[i + 1] /\ (i + 1) - 1 = i
          /\ \A j \in 1..i : j # 1 => j - 1 \in 1..i - 1 /\ job'[j - 1] = job[j]
      BY <2>1, RestAt
    <2>3. /\ job'[i].cand \in Candidate
          /\ \/ Present(job'[i].cand, job'[i].of)
             \/ \E j \in 1..i : IsFileOf(job[j], job'[i].cand, job'[i].of)
      BY <2>2 DEF Led
    <2>4. PICK c \in Candidate, n \in FileName : c = job'[i].cand /\ n = job'[i].of  BY <2>3
    <2>5. CASE Present(c, n)
      <3>1. Present(c, n)'  BY <2>1, <2>5 DEF OnFiles, Present
      <3> QED  BY <2>3, <2>4, <3>1 DEF Present
    <2>6. ASSUME NEW j \in 1..i, IsFileOf(job[j], c, n)
          PROVE  Present(c, n)' \/ \E k \in 1..i - 1 : IsFileOf(job'[k], c, n)
      <3>1. CASE j = 1  BY <2>1, <2>6, <3>1 DEF OnFiles, Present, IsFileOf, Formed
      <3>2. CASE j # 1  BY <2>2, <2>6, <3>2
      <3> QED  BY <3>1, <3>2
    <2> QED  BY <2>3, <2>4, <2>5, <2>6 DEF Present
  <1> QED  BY <1>1, <1>2 DEF Did

LEMMA FilesStay ==
    ASSUME TypeOK, AllFormed(job), Led(job), FilesInv, Effect, Did  PROVE  FilesInv'
  <1> SUFFICES ASSUME NEW i \in DOMAIN ledger', ledger'[i].of \in FileName
               PROVE  ledger'[i].cand \in Candidate /\ Present(ledger[i].cand, ledger[i].of)'
    BY DEF FilesInv
  <1>1. \A c \in Candidate, n \in FileName : Present(c, n) => Present(c, n)'
    BY DEF Effect, OnFiles, Present
  <1>2. CASE i \in DOMAIN ledger
    <2>1. ledger'[i] = ledger[i]  BY <1>2, LedgerSteps
    <2>2. ledger[i].cand \in Candidate /\ Present(ledger[i].cand, ledger[i].of)
      BY <1>2, <2>1 DEF FilesInv
    <2> QED  BY <1>1, <2>1, <2>2 DEF Present
  <1>3. CASE i \notin DOMAIN ledger
    <2>1. ledger'[i] = Entry(w) /\ w.kind = "event" /\ w = job[1] /\ 1 \in 1..Len(job)
      BY <1>3, LedgerSteps, NextWrite DEF Did
    <2>2. w.of \in FileName /\ ledger'[i].cand = w.cand /\ ledger'[i].of = w.of
      BY <2>1 DEF Entry
    <2>3. w.cand \in Candidate /\ Present(w.cand, w.of)  BY <2>1, <2>2 DEF Led
    <2> QED  BY <1>1, <2>2, <2>3 DEF Present
  <1> QED  BY <1>2, <1>3

(* What was readable before the step is the beginning of what is now.       *)
LEMMA HistoryIsPrefix ==
    ASSUME TypeOK, OnHistory, NEW c \in Candidate, tail'[c] # "garbled"
    PROVE  /\ tail[c] # "garbled" /\ Len(history[c]) \in Nat
           /\ DOMAIN history[c] = 1..Len(history[c])
           /\ DOMAIN history'[c] = 1..Len(history'[c])
           /\ \A k \in DOMAIN history[c] :
                 k \in DOMAIN history'[c] /\ history'[c][k] = history[c][k]
           /\ \/ history'[c] = history[c]
              \/ /\ w.kind = "state" /\ w.cand = c
                 /\ Len(history'[c]) = Len(history[c]) + 1
                 /\ history'[c][Len(history[c]) + 1].to = w.of
  <1>1. history[c] \in Seq(StateRecord)  BY DEF TypeOK
  <1>2. CASE history'[c] = history[c] /\ tail'[c] = tail[c]  BY <1>1, <1>2
  <1>3. CASE w.kind = "state" /\ w.cand = c /\ Extended(c, history'[c], tail'[c])
    <2>1. /\ tail[c] # "garbled"
          /\ history'[c] = Append(history[c], [to |-> w.of, evidence |-> w.value])
      BY <1>3 DEF Extended
    <2> DEFINE r == [to |-> w.of, evidence |-> w.value]
    <2>2. r.to = w.of /\ history'[c] = Append(history[c], r)  BY <2>1
    <2> HIDE DEF r
    <2> QED  BY <1>1, <1>3, <2>1, <2>2
  <1> QED  BY <1>2, <1>3 DEF OnHistory

LEMMA HeadedStays ==
    ASSUME TypeOK, AllFormed(job), Headed(job), MovesAreRecorded, Effect, Did
    PROVE  Headed(job)'
  <1>1. CASE job' = <<>>  BY <1>1, NothingClaims
  <1>2. CASE job' = Tail(job)
    <2>1. Rest(job, job') /\ w = job[1]  BY <1>2, RestIs DEF Did
    <2> SUFFICES ASSUME NEW i \in 1..Len(job'), IsMove(job'[i])
                 PROVE  /\ job'[i].cand \in Candidate
                        /\ IF i = 1 THEN Newest(job[i].cand, job[i].of)'
                           ELSE IsState(job'[i - 1], job'[i].cand, job'[i].of)
      BY DEF Headed
    <2>2. /\ i + 1 \in 1..Len(job) /\ job'[i] = job[i + 1] /\ (i + 1) - 1 = i
          /\ \A j \in 1..i : j # 1 => j - 1 \in 1..i - 1 /\ job'[j - 1] = job[j]
      BY <2>1, RestAt
    <2>3. i + 1 # 1  OBVIOUS
    <2>4. job'[i].cand \in Candidate /\ IsState(job[i], job'[i].cand, job'[i].of)
      BY <2>2, <2>3 DEF Headed
    <2>5. CASE i # 1  BY <2>2, <2>4, <2>5
    <2>6. CASE i = 1
      <3>1. PICK c \in Candidate : c = job'[1].cand  BY <2>4, <2>6
      <3>2. PICK to : to = job'[1].of  OBVIOUS
      <3>3. w.kind = "state" /\ w.cand = c /\ w.of = to
        BY <2>1, <2>4, <2>6, <3>1, <3>2 DEF IsState
      <3>4. ledger' = ledger  BY <3>3 DEF Did
      <3>5. ASSUME tail'[c] # "garbled"
            PROVE  /\ history'[c] # <<>> /\ CurrentState(c)' = to
                   /\ \A m \in MovesOf(c)' : \E k \in 1..Len(history'[c]) - 1 :
                         history'[c][k].to = ledger'[m].of
        <4>1. /\ tail[c] # "garbled" /\ history[c] \in Seq(StateRecord)
              /\ history'[c] = Append(history[c], [to |-> to, evidence |-> w.value])
          BY <3>3, <3>5 DEF Effect, OnHistory, Extended, TypeOK
        <4> DEFINE r == [to |-> to, evidence |-> w.value]  h == history[c]  g == history'[c]
        <4>2. r.to = to /\ h \in Seq(StateRecord) /\ g = Append(h, r)  BY <4>1
        <4> HIDE DEF r, h, g
        <4>3. /\ Len(h) \in Nat /\ Len(g) = Len(h) + 1 /\ g # <<>> /\ g[Len(g)].to = to
              /\ DOMAIN h = 1..Len(h) /\ \A k \in 1..Len(h) : g[k] = h[k]
          BY <4>2
        <4>4. ASSUME NEW m \in MovesOf(c)'
              PROVE  \E k \in 1..Len(g) - 1 : g[k].to = ledger'[m].of
          <5>1. m \in MovesOf(c) /\ m <= m
            <6>1. m \in DOMAIN ledger' /\ DOMAIN ledger' = 1..Len(ledger')
                  /\ Len(ledger') \in Nat
              BY LedgerSteps DEF MovesOf
            <6> QED  BY <3>4, <6>1 DEF MovesOf
          <5>2. PICK k \in DOMAIN history[c] : history[c][k].to = ledger[m].of
            BY <4>1, <5>1 DEF MovesAreRecorded
          <5>3. k \in 1..Len(g) - 1 /\ g[k] = h[k]  BY <4>3, <5>2 DEF h
          <5> QED  BY <3>4, <5>2, <5>3 DEF h
        <4> QED  BY <4>3, <4>4 DEF CurrentState, g
      <3> QED  BY <2>4, <2>6, <3>1, <3>2, <3>5 DEF Newest, CurrentState, MovesOf
    <2> QED  BY <2>5, <2>6
  <1> QED  BY <1>1, <1>2 DEF Did

LEMMA MovesStay ==
    ASSUME TypeOK, AllFormed(job), Headed(job), MovesAreRecorded, Effect, Did
    PROVE  MovesAreRecorded'
  <1> SUFFICES ASSUME NEW c \in Candidate, tail'[c] # "garbled",
                      NEW i \in MovesOf(c)', NEW j \in MovesOf(c)', i <= j
               PROVE  \E k, l \in DOMAIN history'[c] :
                         /\ IF i = j THEN k = l ELSE k < l
                         /\ history'[c][k].to = ledger'[i].of
                         /\ history'[c][l].to = ledger'[j].of
    BY DEF MovesAreRecorded
  <1>1. /\ tail[c] # "garbled" /\ Len(history[c]) \in Nat
        /\ DOMAIN history[c] = 1..Len(history[c])
        /\ \A k \in DOMAIN history[c] :
              k \in DOMAIN history'[c] /\ history'[c][k] = history[c][k]
    BY HistoryIsPrefix DEF Effect
  <1>2. /\ Len(ledger) \in Nat /\ DOMAIN ledger = 1..Len(ledger)
        /\ DOMAIN ledger' = 1..Len(ledger') /\ Len(ledger') \in Nat
        /\ \A m \in DOMAIN ledger : ledger'[m] = ledger[m]
        /\ \A m \in DOMAIN ledger' :
              \/ m \in DOMAIN ledger
              \/ m = Len(ledger) + 1 /\ ledger'[m] = Entry(w) /\ w.kind = "event"
    BY LedgerSteps
  <1>3. i \in DOMAIN ledger' /\ j \in DOMAIN ledger'  BY DEF MovesOf
  <1>4. \A m \in MovesOf(c)' : m \in DOMAIN ledger => m \in MovesOf(c)  BY <1>2 DEF MovesOf
  <1>5. CASE j \in DOMAIN ledger
    <2>1. i \in DOMAIN ledger  BY <1>2, <1>3, <1>5
    <2>2. PICK k \in DOMAIN history[c], l \in DOMAIN history[c] :
             /\ IF i = j THEN k = l ELSE k < l
             /\ history[c][k].to = ledger[i].of /\ history[c][l].to = ledger[j].of
      BY <1>1, <1>4, <1>5, <2>1 DEF MovesAreRecorded
    <2> QED  BY <1>1, <1>2, <1>5, <2>1, <2>2
  <1>6. CASE j \notin DOMAIN ledger
    <2>1. /\ j = Len(ledger) + 1 /\ ledger'[j] = Entry(w) /\ w.kind = "event"
          /\ ledger'[j].type = "STATE_TRANSITION" /\ ledger'[j].cand = c
      BY <1>2, <1>3, <1>6 DEF MovesOf
    <2>2. w.value = "STATE_TRANSITION" /\ w.cand = c /\ ledger'[j].of = w.of
      BY <2>1 DEF Entry
    <2>3. w = job[1] /\ 1 \in 1..Len(job)  BY NextWrite DEF Did
    <2>4. Newest(c, w.of)  BY <2>1, <2>2, <2>3 DEF Headed, IsMove
    <2>5. history[c] # <<>> /\ CurrentState(c) = w.of
          /\ \A m \in MovesOf(c) : \E k \in 1..Len(history[c]) - 1 :
                history[c][k].to = ledger[m].of
      BY <1>1, <2>4 DEF Newest
    <2>6. Len(history[c]) \in DOMAIN history[c] /\ history[c][Len(history[c])].to = w.of
      <3>1. history[c] \in Seq(StateRecord)  BY DEF TypeOK
      <3> QED  BY <1>1, <2>5, <3>1 DEF CurrentState
    <2>7. CASE i = j  BY <1>1, <2>2, <2>6, <2>7
    <2>8. CASE i # j
      <3>1. i \in DOMAIN ledger  BY <1>2, <1>3, <2>1, <2>8
      <3>2. PICK k \in 1..Len(history[c]) - 1 : history[c][k].to = ledger[i].of
        BY <1>4, <2>5, <3>1
      <3>3. k \in DOMAIN history[c] /\ k < Len(history[c])  BY <1>1, <3>2
      <3> QED  BY <1>1, <1>2, <2>2, <2>6, <2>8, <3>1, <3>2, <3>3
    <2> QED  BY <2>7, <2>8
  <1> QED  BY <1>5, <1>6

-----------------------------------------------------------------------------
(* Every step of the run starts an operation, makes its next write, or      *)
(* leaves the evidence as it is and at most ends the operation.             *)

LEMMA StepsAre ==
    ASSUME TypeOK, Good(job), [Next]_vars  PROVE  Operation \/ (Effect /\ Did) \/ Rested
  <1>1. AllFormed(job)  BY DEF Good
  <1>2. CASE Perform \/ PartialAppend
    <2>1. Effect \/ (UNCHANGED <<store, listing>> /\ job' = <<>>)  BY <1>1, <1>2, Performed
    <2>2. Did \/ Ended  BY <1>1, <1>2, WritesDo
    <2>3. UNCHANGED <<store, listing>> /\ job' = <<>> => Rested
      BY DEF Rested, store, records, intake
    <2> QED  BY <2>1, <2>2, <2>3 DEF Ended
  <1>3. CASE Crash  BY <1>3 DEF Crash, Rested, store, records, intake
  <1>4. ASSUME NEW r \in Lister, NEW c \in Candidate, ListRead(r, c)  PROVE  Rested
    BY <1>4 DEF ListRead, Rested, store, records, intake
  <1>5. ASSUME NEW r \in Lister, ListWrite(r)  PROVE  Rested
    BY <1>5 DEF ListWrite, Rested, records, intake
  <1>6. CASE UNCHANGED vars  BY <1>6 DEF vars, store, records, intake, Rested
  <1> QED  BY <1>2, <1>3, <1>4, <1>5, <1>6 DEF Next

LEMMA ClaimsAtStart ==
    ASSUME TypeOK, DirInv, ClaimInv, Operation  PROVE  ClaimInv'
  <1>1. UNCHANGED store /\ AllFormed(job')  BY OperationStarts DEF Good
  <1>2. Announced(job') /\ Paired(job')  BY OperationIsProper DEF Proper
  <1>3. UNCHANGED <<file, history, tail, ledger>>  BY <1>1 DEF store, records
  <1>4. FilesInv'  BY <1>3 DEF ClaimInv, FilesInv, Present
  <1>5. MovesAreRecorded'  BY <1>3 DEF ClaimInv, MovesAreRecorded, MovesOf
  <1> QED  BY <1>1, <1>2, <1>4, <1>5, ProperClaims DEF ClaimInv

LEMMA ClaimsBehindWrite ==
    ASSUME TypeOK, Good(job), ClaimInv, Effect, Did  PROVE  ClaimInv'
  BY LedStays, HeadedStays, FilesStay, MovesStay DEF ClaimInv, Good

LEMMA ClaimsAtRest ==
    ASSUME ClaimInv, Rested  PROVE  ClaimInv'
  <1>1. UNCHANGED <<file, history, tail, ledger>>  BY DEF Rested
  <1>2. FilesInv'  BY <1>1 DEF ClaimInv, FilesInv, Present
  <1>3. MovesAreRecorded'  BY <1>1 DEF ClaimInv, MovesAreRecorded, MovesOf
  <1>4. CASE job' = job
    <2>1. Led(job)'  BY <1>1, <1>4 DEF ClaimInv, Led, Present
    <2>2. Headed(job)'  BY <1>1, <1>4 DEF ClaimInv, Headed, Newest, CurrentState, MovesOf
    <2> QED  BY <1>2, <1>3, <2>1, <2>2 DEF ClaimInv
  <1>5. CASE job' = <<>>  BY <1>2, <1>3, <1>5, NothingClaims DEF ClaimInv
  <1> QED  BY <1>4, <1>5 DEF Rested

LEMMA ClaimsHold == Init => ClaimInv
  <1> SUFFICES ASSUME Init  PROVE ClaimInv  OBVIOUS
  <1>1. Len(job) = 0 /\ \A i : i \notin 1..0  BY DEF Init
  <1>2. Led(job) /\ Headed(job)  BY <1>1 DEF Led, Headed
  <1>3. \A i \in DOMAIN ledger :
           ledger[i].of \notin FileName /\ ledger[i].type # "STATE_TRANSITION"
    BY DEF Init, FileName, ReviewType
  <1> QED  BY <1>2, <1>3 DEF ClaimInv, FilesInv, MovesAreRecorded, MovesOf

LEMMA ClaimsInvariance == Spec => [](IInv /\ ClaimInv)
  <1>1. Init => IInv /\ ClaimInv  BY InitHolds, ClaimsHold
  <1>2. IInv /\ ClaimInv /\ [Next]_vars => (IInv /\ ClaimInv)'
    <2> SUFFICES ASSUME IInv, ClaimInv, [Next]_vars  PROVE IInv' /\ ClaimInv'  OBVIOUS
    <2>1. TypeOK /\ Good(job) /\ DirInv  BY DEF IInv, StoreInv
    <2>2. ClaimInv'  BY <2>1, StepsAre, ClaimsAtStart, ClaimsBehindWrite, ClaimsAtRest
    <2> QED  BY <2>2, NextKeeps
  <1> QED  BY <1>1, <1>2, PTL DEF Spec

(* Whatever is started, interrupted, repeated or torn, the ledger claims    *)
(* nothing that is not there: an artifact event names a file that is, the   *)
(* transition events of a candidate follow its state records in their       *)
(* order, and a scan that is complete has its observations.                 *)
THEOREM ClaimsAreBacked == Spec => []EventsAreBacked
  <1>1. IInv /\ ClaimInv => EventsAreBacked
    BY DEF IInv, StoreInv, ClaimInv, FilesInv, FilesAreThere, EventsAreBacked
  <1> QED  BY <1>1, ClaimsInvariance, PTL

-----------------------------------------------------------------------------
(* The intake.  What an observe still has to write of an identifier is its  *)
(* record with the event directly behind it, or that event alone, or        *)
(* nothing: the event is owed when the record is already on disk.           *)

LEMMA CouplesFinite ==
    ASSUME NEW s, Coupled(s), NEW i \in 1..Found
    PROVE  LET O == Cardinality(Couple(s, i, "observation"))
               E == Cardinality(Couple(s, i, "event")) IN
           O \in Nat /\ E = O + Owed(s, i) /\ Owed(s, i) \in {0, 1}
  <1> DEFINE O == Couple(s, i, "observation")  E == Couple(s, i, "event")
             Goal == /\ Cardinality(O) \in Nat
                     /\ Cardinality(E) = Cardinality(O) + Owed(s, i)
                     /\ Owed(s, i) \in {0, 1}
  <1>1. ASSUME O = {} /\ E = {}  PROVE  Goal
    <2>1. Cardinality(O) = 0 /\ Cardinality(E) = 0  BY <1>1, FS_EmptySet
    <2>2. Owed(s, i) = 0  BY <1>1 DEF Owed
    <2> QED  BY <2>1, <2>2
  <1>2. ASSUME O = {} /\ E = {1}  PROVE  Goal
    <2>1. Cardinality(O) = 0 /\ Cardinality(E) = 1  BY <1>2, FS_EmptySet, FS_Singleton
    <2>2. Owed(s, i) = 1  BY <1>2 DEF Owed
    <2> QED  BY <2>1, <2>2
  <1>3. ASSUME NEW k \in 1..Len(s), O = {k} /\ E = {k + 1}  PROVE  Goal
    <2>1. Cardinality(O) = 1 /\ Cardinality(E) = 1  BY <1>3, FS_Singleton
    <2>2. 1 \notin E  BY <1>3
    <2>3. Owed(s, i) = 0  BY <2>2 DEF Owed
    <2> QED  BY <2>1, <2>3
  <1>4. \/ O = {} /\ E \in {{}, {1}}
        \/ \E k \in 1..Len(s) : O = {k} /\ E = {k + 1}
    BY DEF Coupled
  <1> HIDE DEF O, E, Goal
  <1>5. Goal  BY <1>1, <1>2, <1>3, <1>4
  <1> QED  BY <1>5 DEF O, E, Goal

(* A write is made: what it leaves is coupled, and the event of an          *)
(* identifier is owed exactly behind its record.                            *)
LEMMA CouplesNext ==
    ASSUME NEW s, NEW t, Rest(s, t), Coupled(s), Named(s)
    PROVE  /\ Coupled(t) /\ Named(t)
           /\ \A i \in 1..Found :
                 Owed(t, i) = IF 1 \in Couple(s, i, "observation") THEN 1 ELSE 0
  <1>1. /\ Len(s) \in Nat \ {0} /\ Len(t) = Len(s) - 1
        /\ \A k \in 1..Len(t) : k + 1 \in 1..Len(s) /\ t[k] = s[k + 1]
    BY DEF Rest
  <1>2. Named(t)  BY <1>1 DEF Named
  <1>3. ASSUME NEW i \in 1..Found
        PROVE  /\ LET O == Couple(t, i, "observation")  E == Couple(t, i, "event") IN
                  \/ O = {} /\ E \in {{}, {1}}
                  \/ \E k \in 1..Len(t) : O = {k} /\ E = {k + 1}
               /\ Owed(t, i) = IF 1 \in Couple(s, i, "observation") THEN 1 ELSE 0
    <2> DEFINE O == Couple(s, i, "observation")  E == Couple(s, i, "event")
               P == Couple(t, i, "observation")  F == Couple(t, i, "event")
    <2>1. /\ O \subseteq 1..Len(s) /\ E \subseteq 1..Len(s)
          /\ P \subseteq 1..Len(t) /\ F \subseteq 1..Len(t)
          /\ \A k \in 1..Len(t) : (k \in P <=> k + 1 \in O) /\ (k \in F <=> k + 1 \in E)
      BY <1>1 DEF Couple
    <2>2. \/ O = {} /\ E \in {{}, {1}}
          \/ \E k \in 1..Len(s) : O = {k} /\ E = {k + 1}
      BY DEF Coupled
    <2>3. Owed(t, i) = IF 1 \in F THEN 1 ELSE 0  BY DEF Owed
    <2> HIDE DEF O, E, P, F
    <2>4. CASE O = {} /\ E \in {{}, {1}}
      <3>1. P = {} /\ F = {} /\ 1 \notin O  BY <1>1, <2>1, <2>4
      <3> QED  BY <2>3, <3>1 DEF O, P, F
    <2>5. ASSUME NEW k \in 1..Len(s), O = {k} /\ E = {k + 1}
          PROVE  /\ \/ P = {} /\ F \in {{}, {1}}
                    \/ \E l \in 1..Len(t) : P = {l} /\ F = {l + 1}
                 /\ 1 \in F <=> 1 \in O
      <3>0. k + 1 \in 1..Len(s)  BY <2>1, <2>5
      <3>1. CASE k = 1
        <4>1. 1 \in 1..Len(t)  BY <1>1, <3>0, <3>1
        <4>2. P = {}  BY <1>1, <2>1, <2>5, <3>1
        <4>3. F = {1}
          <5>1. \A j \in F : j \in 1..Len(t) /\ j + 1 \in E  BY <2>1
          <5>2. \A j \in F : j = 1  BY <2>5, <3>1, <5>1
          <5>3. 1 + 1 \in E  BY <2>5, <3>1
          <5>4. 1 \in F  BY <2>1, <4>1, <5>3
          <5> QED  BY <5>2, <5>4
        <4> QED  BY <2>5, <3>1, <4>2, <4>3
      <3>2. CASE k # 1
        <4>1. PICK l : l = k - 1  OBVIOUS
        <4>2. l \in 1..Len(t) /\ l + 1 \in 1..Len(t) /\ k = l + 1  BY <1>1, <3>0, <3>2, <4>1
        <4>3. P = {l}
          <5>1. \A j \in P : j \in 1..Len(t) /\ j + 1 \in O  BY <2>1
          <5>2. \A j \in P : j = l  BY <2>5, <4>2, <5>1
          <5>3. l \in P  BY <2>1, <2>5, <4>2
          <5> QED  BY <5>2, <5>3
        <4>4. F = {l + 1}
          <5>1. \A j \in F : j \in 1..Len(t) /\ j + 1 \in E  BY <2>1
          <5>2. \A j \in F : j = l + 1  BY <2>5, <4>2, <5>1
          <5>3. (l + 1) + 1 \in E  BY <2>5, <4>2
          <5>4. l + 1 \in F  BY <2>1, <4>2, <5>3
          <5> QED  BY <5>2, <5>4
        <4>5. 1 \notin F /\ 1 \notin O  BY <2>5, <3>2, <4>2, <4>4
        <4> QED  BY <4>2, <4>3, <4>4, <4>5
      <3> QED  BY <3>1, <3>2
    <2>6. /\ \/ P = {} /\ F \in {{}, {1}}
             \/ \E l \in 1..Len(t) : P = {l} /\ F = {l + 1}
          /\ Owed(t, i) = IF 1 \in O THEN 1 ELSE 0
      <3>1. CASE O = {} /\ E \in {{}, {1}}
        <4>1. P = {} /\ F = {} /\ 1 \notin O  BY <1>1, <2>1, <3>1
        <4> QED  BY <2>3, <4>1
      <3> QED  BY <2>2, <2>3, <2>5, <3>1
    <2> QED  BY <2>6 DEF O, P, F
  <1> QED  BY <1>2, <1>3 DEF Coupled

(* The writes of observe, one by one.                                       *)
LEMMA ObservingIsCoupled ==
    /\ Coupled(Observing) /\ Named(Observing)
    /\ \A i \in 1..Found : Owed(Observing, i) = 0
  <1> DEFINE s == Observing
  <1>1. Found \in Nat  BY RunStoreAssumption
  <1>0. Observes(s)  BY ObservingWrites
  <1> HIDE DEF s
  <1>2. /\ Len(s) = 2 * Found + 3
        /\ \A o \in 1..Found :
              /\ s[2 * o - 1] = Record("observation", o, "observation", "written")
              /\ s[2 * o] = Record("event", o, "observation", "OBSERVATION_RECORDED")
        /\ \A k \in 2 * Found + 1..2 * Found + 3 :
              /\ s[k].of \in {"run", "scan"} /\ s[k].kind \in {"event", "scan"}
              /\ s[k].value # "OBSERVATION_RECORDED"
    <2>1. \A k \in 2 * Found + 1..2 * Found + 3 :
             k \in {2 * Found + 1, 2 * Found + 2, 2 * Found + 3}
      BY <1>1
    <2> QED  BY <1>0, <2>1 DEF Observes, Record
  <1>3. ASSUME NEW o \in 1..Found
        PROVE  /\ 2 * o - 1 \in 1..Len(s) /\ 2 * o \in 1..Len(s) /\ (2 * o - 1) + 1 = 2 * o
               /\ s[2 * o - 1].kind = "observation" /\ s[2 * o - 1].cand = o
               /\ s[2 * o - 1].of = "observation"
               /\ s[2 * o].kind = "event" /\ s[2 * o].cand = o /\ s[2 * o].of = "observation"
               /\ s[2 * o].value = "OBSERVATION_RECORDED"
    <2>1. 2 * o - 1 \in 1..Len(s) /\ 2 * o \in 1..Len(s) /\ (2 * o - 1) + 1 = 2 * o
      BY <1>1, <1>2
    <2>2. /\ s[2 * o - 1] = Record("observation", o, "observation", "written")
          /\ s[2 * o] = Record("event", o, "observation", "OBSERVATION_RECORDED")
      BY <1>2
    <2> QED  BY <2>1, <2>2 DEF Record
  <1>4. \A k \in 1..Len(s) :
           \/ k \in 2 * Found + 1..2 * Found + 3
           \/ \E o \in 1..Found : k = 2 * o - 1 \/ k = 2 * o
    <2>1. 1..Len(s) = 1..2 * Found + 3  BY <1>2
    <2>2. {2 * Found + 1, 2 * Found + 2, 2 * Found + 3} \subseteq 2 * Found + 1..2 * Found + 3
      BY <1>1
    <2> QED  BY <2>1, <2>2, ScanPlaces
  <1>5. Named(s)
    <2>1. ASSUME NEW k \in 1..Len(s), k \in 2 * Found + 1..2 * Found + 3
          PROVE  /\ s[k].kind # "observation" /\ s[k].of # "observation"
                 /\ s[k].value # "OBSERVATION_RECORDED"
      BY <1>2, <2>1
    <2>2. ASSUME NEW k \in 1..Len(s), k \notin 2 * Found + 1..2 * Found + 3
          PROVE  \/ s[k].kind = "observation" /\ s[k].of = "observation"
                 \/ /\ s[k].kind = "event" /\ s[k].of = "observation"
                    /\ s[k].value = "OBSERVATION_RECORDED"
      <3>1. PICK o \in 1..Found : k = 2 * o - 1 \/ k = 2 * o  BY <1>4, <2>2
      <3> QED  BY <1>3, <3>1
    <2> QED  BY <2>1, <2>2 DEF Named
  <1>6. ASSUME NEW i \in 1..Found
        PROVE  Couple(s, i, "observation") = {2 * i - 1} /\ Couple(s, i, "event") = {2 * i}
    <2>1. ASSUME NEW k \in 1..Len(s), s[k].of = "observation", s[k].cand = i
          PROVE  \/ k = 2 * i - 1 /\ s[k].kind = "observation"
                 \/ k = 2 * i /\ s[k].kind = "event"
      <3>1. k \notin 2 * Found + 1..2 * Found + 3  BY <1>2, <2>1
      <3>2. PICK o \in 1..Found : k = 2 * o - 1 \/ k = 2 * o  BY <1>4, <3>1
      <3>3. o = i  BY <1>3, <2>1, <3>2
      <3> QED  BY <1>3, <3>2, <3>3
    <2> QED  BY <1>3, <2>1 DEF Couple
  <1>7. Coupled(s)
    <2> SUFFICES ASSUME NEW i \in 1..Found
                 PROVE  \E k \in 1..Len(s) :
                           /\ Couple(s, i, "observation") = {k}
                           /\ Couple(s, i, "event") = {k + 1}
      BY DEF Coupled
    <2> QED  BY <1>3, <1>6
  <1>8. ASSUME NEW i \in 1..Found  PROVE  Owed(s, i) = 0
    <2>1. 1 # 2 * i  OBVIOUS
    <2> QED  BY <1>6, <2>1 DEF Owed
  <1> QED  BY <1>5, <1>7, <1>8 DEF s

LEMMA ForeignIsCoupled ==
    ASSUME NEW s, \A k \in 1..Len(s) :
                     /\ s[k].of # "observation" /\ s[k].kind # "observation"
                     /\ s[k].value # "OBSERVATION_RECORDED"
    PROVE  Coupled(s) /\ Named(s) /\ \A i \in 1..Found : Owed(s, i) = 0
  <1>1. \A i \in 1..Found : Couple(s, i, "observation") = {} /\ Couple(s, i, "event") = {}
    BY DEF Couple
  <1> QED  BY <1>1 DEF Coupled, Named, Owed

LEMMA NothingIsCoupled ==
    ASSUME NEW s, s = <<>>
    PROVE  Coupled(s) /\ Named(s) /\ \A i \in 1..Found : Owed(s, i) = 0
  <1>1. \A k \in 1..Len(s) : FALSE  OBVIOUS
  <1> QED  BY <1>1, ForeignIsCoupled

LEMMA IntakeStarts ==
    ASSUME TypeOK, Operation
    PROVE  Coupled(job') /\ Named(job') /\ \A i \in 1..Found : Owed(job', i) = 0
  <1>1. CASE job' = Observing  BY <1>1, ObservingIsCoupled
  <1>2. ASSUME NEW S, Proper(job', S),
               \A x \in S : /\ x.of # "observation" /\ x.kind # "observation"
                            /\ x.value # "OBSERVATION_RECORDED"
        PROVE  Coupled(job') /\ Named(job') /\ \A i \in 1..Found : Owed(job', i) = 0
    <2>1. \A k \in 1..Len(job') : job'[k] \in S  BY <1>2 DEF Proper
    <2> QED  BY <1>2, <2>1, ForeignIsCoupled
  <1>3. ASSUME NEW e, Proper(job', Expected(e))
        PROVE  Coupled(job') /\ Named(job') /\ \A i \in 1..Found : Owed(job', i) = 0
    <2>1. \A x \in Expected(e) : /\ x.of # "observation" /\ x.kind # "observation"
                                 /\ x.value # "OBSERVATION_RECORDED"
      BY DEF Expected, IntakeEvent
    <2> QED  BY <1>2, <1>3, <2>1
  <1>4. ASSUME NEW d, NEW T, Proper(job', About(d, T))
        PROVE  Coupled(job') /\ Named(job') /\ \A i \in 1..Found : Owed(job', i) = 0
    <2>1. \A x \in About(d, T) : /\ x.of # "observation" /\ x.kind # "observation"
                                 /\ x.value # "OBSERVATION_RECORDED"
      BY DEF About, IntakeEvent
    <2> QED  BY <1>2, <1>4, <2>1
  <1> QED  BY <1>1, <1>3, <1>4, OperationIsProper

LEMMA NotesDo ==
    ASSUME TypeOK, [Next]_vars, job # <<>>, w.kind = "observation"  PROVE  Noting \/ Rested
  <1>1. tail \in [Candidate \cup {0} -> {"whole", "nonl", "garbled"}] /\ 0 \in Candidate \cup {0}
    BY DEF TypeOK
  <1>2. CASE AppendObservation  BY <1>1, <1>2 DEF AppendObservation, Noting
  <1>3. CASE PartialAppend  BY <1>1, <1>3 DEF PartialAppend, Noting
  <1>4. CASE Crash  BY <1>4 DEF Crash, Rested, store, records, intake
  <1>5. ASSUME NEW r \in Lister, NEW c \in Candidate, ListRead(r, c)  PROVE  Rested
    BY <1>5 DEF ListRead, Rested, store, records, intake
  <1>6. ASSUME NEW r \in Lister, ListWrite(r)  PROVE  Rested
    BY <1>6 DEF ListWrite, Rested, records, intake
  <1>7. CASE UNCHANGED vars  BY <1>7 DEF vars, store, records, intake, Rested
  <1>8. ~Operation
    BY DEF Operation, Observe, AddExpectation, CreateCandidate, PlanExperiment,
           ExecuteExperiment, TransitionCandidate, Replay, ImportExternalReplay, AddReview, Start
  <1>9. Perform => AppendObservation
    BY DEF Perform, MakeDirectory, WriteOnce, AppendState, AppendCommand, AppendExpectation,
           WriteScan, AppendEvent, UpsertIndex, Doing
  <1> QED  BY <1>2, <1>3, <1>4, <1>5, <1>6, <1>7, <1>8, <1>9 DEF Next

LEMMA IntakeSteps ==
    ASSUME TypeOK, Good(job), [Next]_vars
    PROVE  Operation \/ (Effect /\ Did /\ Noting) \/ Rested
  <1>1. Operation \/ (Effect /\ Did) \/ Rested  BY StepsAre
  <1>2. ASSUME Did, w.kind # "observation"  PROVE  Noting  BY <1>2 DEF Did, Noting
  <1>3. ASSUME Did, w.kind = "observation"  PROVE  Noting \/ Rested
    BY <1>3, NotesDo DEF Did
  <1> QED  BY <1>1, <1>2, <1>3

LEMMA OneMore ==
    ASSUME NEW n \in Nat, NEW T \in SUBSET (1..n)
    PROVE  /\ IsFiniteSet(T) /\ Cardinality(T) \in Nat
           /\ Cardinality(T \cup {n + 1}) = Cardinality(T) + 1
  <1>1. IsFiniteSet(1..n)  BY FS_Interval
  <1>2. IsFiniteSet(T)  BY <1>1, FS_Subset
  <1>3. n + 1 \notin T  OBVIOUS
  <1> QED  BY <1>2, <1>3, FS_CardinalityType, FS_AddElement

LEMMA NotedCount ==
    ASSUME TypeOK, NEW i \in 1..Found
    PROVE  /\ Cardinality(Noted(i)) \in Nat /\ Cardinality(Logged(i)) \in Nat
           /\ UNCHANGED observations => Noted(i)' = Noted(i)
           /\ UNCHANGED ledger => Logged(i)' = Logged(i)
  <1>1. /\ Len(observations) \in Nat /\ DOMAIN observations = 1..Len(observations)
        /\ Len(ledger) \in Nat /\ DOMAIN ledger = 1..Len(ledger)
    BY DEF TypeOK
  <1>2. Noted(i) \in SUBSET (1..Len(observations)) /\ Logged(i) \in SUBSET (1..Len(ledger))
    BY <1>1 DEF Noted, Logged
  <1> QED  BY <1>1, <1>2, OneMore DEF Noted, Logged

CountLaw == TypeOK => \A i \in 1..Found :
    Cardinality(Noted(i)) \in Nat /\ Cardinality(Logged(i)) \in Nat
LEMMA CountHolds == CountLaw
  BY NotedCount DEF CountLaw
LEMMA CountedLater ==
    ASSUME TypeOK', NEW i \in 1..Found
    PROVE  Cardinality(Noted(i))' \in Nat /\ Cardinality(Logged(i))' \in Nat
  <1>1. CountLaw'  BY CountHolds, PTL
  <1> QED  BY <1>1 DEF CountLaw

LEMMA NotedNext ==
    ASSUME TypeOK, NEW o \in 1..Found, observations' = Append(observations, o),
           NEW i \in 1..Found
    PROVE  Cardinality(Noted(i))' =
               IF o = i THEN Cardinality(Noted(i)) + 1 ELSE Cardinality(Noted(i))
  <1>1. /\ observations \in Seq(1..Found) /\ Len(observations) \in Nat
        /\ DOMAIN observations = 1..Len(observations)
    BY DEF TypeOK
  <1> DEFINE n == Len(observations)
  <1>2. /\ DOMAIN observations' = 1..n + 1 /\ observations'[n + 1] = o
        /\ \A k \in 1..n : observations'[k] = observations[k]
    BY <1>1
  <1>3. Noted(i) \in SUBSET (1..n)  BY <1>1 DEF Noted
  <1>4. \A k : k \in 1..n + 1 <=> k \in 1..n \/ k = n + 1  BY <1>1
  <1>5. Noted(i)' = IF o = i THEN Noted(i) \cup {n + 1} ELSE Noted(i)
    BY <1>1, <1>2, <1>4 DEF Noted
  <1>6. Cardinality(Noted(i) \cup {n + 1}) = Cardinality(Noted(i)) + 1
    BY <1>1, <1>3, OneMore
  <1> QED  BY <1>5, <1>6

LEMMA LoggedNext ==
    ASSUME TypeOK, NEW e, e \in Event, ledger' = Append(ledger, e), NEW i \in 1..Found
    PROVE  Cardinality(Logged(i))' =
               IF e.type = "OBSERVATION_RECORDED" /\ e.cand = i
               THEN Cardinality(Logged(i)) + 1 ELSE Cardinality(Logged(i))
  <1>1. ledger \in Seq(Event) /\ Len(ledger) \in Nat /\ DOMAIN ledger = 1..Len(ledger)
    BY DEF TypeOK
  <1> DEFINE n == Len(ledger)
  <1>2. /\ DOMAIN ledger' = 1..n + 1 /\ ledger'[n + 1] = e
        /\ \A k \in 1..n : ledger'[k] = ledger[k]
    BY <1>1
  <1>3. Logged(i) \in SUBSET (1..n)  BY <1>1 DEF Logged
  <1>4. \A k : k \in 1..n + 1 <=> k \in 1..n \/ k = n + 1  BY <1>1
  <1>5. Logged(i)' = IF e.type = "OBSERVATION_RECORDED" /\ e.cand = i
                     THEN Logged(i) \cup {n + 1} ELSE Logged(i)
    BY <1>1, <1>2, <1>4 DEF Logged
  <1>6. Cardinality(Logged(i) \cup {n + 1}) = Cardinality(Logged(i)) + 1
    BY <1>1, <1>3, OneMore
  <1> QED  BY <1>5, <1>6

LEMMA OwedIsBit ==
    ASSUME NEW s, NEW i
    PROVE  Owed(s, i) \in {0, 1} /\ (1 \in Couple(s, i, "event") <=> Owed(s, i) = 1)
  BY DEF Owed

LEMMA Widening ==
    ASSUME TypeOK, Good(job), IntakeInv, [Next]_vars
    PROVE  /\ Coupled(job') /\ Named(job')
           /\ torn => torn'
           /\ tail[0] = "garbled" => tail'[0] = "garbled"
           /\ torn' \/ tail'[0] = "garbled" \/ \A i \in 1..Found : Widens(i)
           /\ \A i \in 1..Found : Cardinality(Noted(i)) <= Cardinality(Noted(i))'
  <1>0. Coupled(job) /\ Named(job) /\ AllFormed(job)  BY DEF IntakeInv, Good
  <1>1. \A i \in 1..Found : /\ Cardinality(Noted(i)) \in Nat /\ Cardinality(Logged(i)) \in Nat
                            /\ UNCHANGED observations => Noted(i)' = Noted(i)
                            /\ UNCHANGED ledger => Logged(i)' = Logged(i)
    BY NotedCount
  <1>2. CASE Operation
    <2>1. UNCHANGED store /\ job = <<>>
      BY <1>2 DEF Operation, Observe, AddExpectation, CreateCandidate, PlanExperiment,
                  ExecuteExperiment, TransitionCandidate, Replay, ImportExternalReplay,
                  AddReview, Start
    <2>2. UNCHANGED <<observations, ledger, torn, tail>>  BY <2>1 DEF store, intake, records
    <2>3. Coupled(job') /\ Named(job') /\ \A i \in 1..Found : Owed(job', i) = 0
      BY <1>2, IntakeStarts
    <2>4. \A i \in 1..Found : Owed(job, i) = 0  BY <2>1, NothingIsCoupled
    <2>5. \A i \in 1..Found : Widens(i)  BY <1>1, <2>2, <2>3, <2>4 DEF Widens
    <2> QED  BY <1>1, <2>2, <2>3, <2>5
  <1>3. CASE Rested
    <2>1. UNCHANGED <<observations, ledger, torn, tail>> /\ job' \in {job, <<>>}
      BY <1>3 DEF Rested
    <2>2. Coupled(job') /\ Named(job') /\ \A i \in 1..Found : Owed(job', i) <= Owed(job, i)
      <3>1. CASE job' = job  BY <1>0, <3>1, OwedIsBit
      <3>2. CASE job' = <<>>  BY <3>2, NothingIsCoupled, OwedIsBit
      <3> QED  BY <2>1, <3>1, <3>2
    <2>3. \A i \in 1..Found : Widens(i)  BY <1>1, <2>1, <2>2, OwedIsBit DEF Widens
    <2> QED  BY <1>1, <2>1, <2>2, <2>3
  <1>4. CASE Effect /\ Did /\ Noting
    <2>1. job # <<>> /\ (torn => torn') /\ (tail[0] = "garbled" => tail'[0] = "garbled")
      BY <1>4 DEF Did, Noting
    <2>2. /\ w = job[1] /\ Formed(w) /\ w \in Write /\ 1 \in 1..Len(job)
          /\ w.kind = "observation" => w.cand \in 1..Found /\ w.of = "observation"
          /\ w.kind = "event" => (w.of = "observation" <=> w.value = "OBSERVATION_RECORDED")
      <3>1. w = job[1] /\ Formed(w) /\ w \in Write /\ Len(job) \in Nat \ {0}
        BY <1>0, <2>1, NextWrite
      <3>2. 1 \in 1..Len(job)  BY <3>1
      <3> QED  BY <1>0, <3>1, <3>2 DEF Formed, Named
    <2>3. Coupled(job') /\ Named(job')
      <3>1. CASE job' = <<>>  BY <3>1, NothingIsCoupled
      <3>2. CASE job' = Tail(job)
        <4>1. Rest(job, job')  BY <1>0, <2>1, <3>2, RestIs
        <4> QED  BY <1>0, <4>1, CouplesNext
      <3> QED  BY <1>4, <3>1, <3>2 DEF Did
    <2>4. ASSUME NEW i \in 1..Found
          PROVE  /\ Cardinality(Noted(i)) <= Cardinality(Noted(i))'
                 /\ torn' \/ tail'[0] = "garbled" \/ Widens(i)
      <3> DEFINE N == Cardinality(Noted(i))  G == Cardinality(Logged(i))
                 x == w.kind = "observation" /\ w.cand = i
                 y == w.kind = "event" /\ w.cand = i /\ w.value = "OBSERVATION_RECORDED"
      <3>1. N \in Nat /\ G \in Nat  BY <1>1
      <3>2. /\ x <=> 1 \in Couple(job, i, "observation")
            /\ y <=> 1 \in Couple(job, i, "event")
        BY <2>2 DEF Couple
      <3>3. Owed(job, i) \in {0, 1} /\ (y <=> Owed(job, i) = 1)  BY <3>2, OwedIsBit
      <3>4. \/ N' = N /\ (tail'[0] = "garbled" \/ ~x)
            \/ N' = IF x THEN N + 1 ELSE N
        <4>1. CASE UNCHANGED observations  BY <1>1, <1>4, <4>1 DEF Noting
        <4>2. CASE w.kind = "observation" /\ observations' = Append(observations, w.cand)
          BY <2>2, <4>2, NotedNext
        <4> QED  BY <1>4, <4>1, <4>2 DEF Noting
      <3>5. \/ G' = G /\ (torn' \/ ~y)
            \/ job' = Tail(job) /\ G' = IF y THEN G + 1 ELSE G
        <4>1. CASE UNCHANGED ledger /\ (torn' \/ w.kind # "event")  BY <1>1, <4>1
        <4>2. CASE w.kind = "event" /\ job' = Tail(job) /\ ledger' = Append(ledger, Entry(w))
          <5>1. /\ Entry(w) \in Event /\ Entry(w).type = w.value /\ Entry(w).cand = w.cand
            BY <2>2, <4>2 DEF Entry, Event, Write, Formed
          <5>2. G' = IF Entry(w).type = "OBSERVATION_RECORDED" /\ Entry(w).cand = i
                     THEN G + 1 ELSE G
            BY <4>2, <5>1, LoggedNext
          <5> QED  BY <4>2, <5>1, <5>2
        <4> QED  BY <1>4, <4>1, <4>2 DEF Did
      <3>6. \/ job' = <<>> /\ Owed(job', i) = 0
            \/ job' = Tail(job) /\ Owed(job', i) = IF x THEN 1 ELSE 0
        <4>1. CASE job' = <<>>  BY <4>1, NothingIsCoupled
        <4>2. CASE job' = Tail(job)
          <5>1. Rest(job, job')  BY <1>0, <2>1, <4>2, RestIs
          <5> QED  BY <1>0, <3>2, <4>2, <5>1, CouplesNext
        <4> QED  BY <1>4, <4>1, <4>2 DEF Did
      <3>7. ~(x /\ y)  OBVIOUS
      <3> HIDE DEF N, G, x, y
      <3>8. N <= N'  BY <3>1, <3>4
      <3>9. torn' \/ tail'[0] = "garbled" \/ N + G' + Owed(job', i) <= N' + G + Owed(job, i)
        BY <3>1, <3>3, <3>4, <3>5, <3>6, <3>7
      <3> QED  BY <3>8, <3>9 DEF N, G, Widens
    <2> QED  BY <2>1, <2>3, <2>4
  <1> QED  BY <1>2, <1>3, <1>4, IntakeSteps

LEMMA IntakeNext == IInv /\ IntakeInv /\ [Next]_vars => IntakeInv'
  <1> SUFFICES ASSUME IInv, IntakeInv, [Next]_vars
               PROVE  IntakeInv'
    OBVIOUS
  <1>1. TypeOK /\ TypeOK' /\ Good(job)  BY NextKeeps DEF IInv
  <1>2. /\ Coupled(job') /\ Named(job')
        /\ torn => torn'
        /\ tail[0] = "garbled" => tail'[0] = "garbled"
        /\ torn' \/ tail'[0] = "garbled" \/ \A i \in 1..Found : Widens(i)
    BY <1>1, Widening
  <1>3. ASSUME ~torn', tail'[0] # "garbled", NEW i \in 1..Found
        PROVE  Cardinality(Logged(i))' + Owed(job', i) <= Cardinality(Noted(i))'
    <2>1. Widens(i) /\ Cardinality(Logged(i)) + Owed(job, i) <= Cardinality(Noted(i))
      BY <1>2, <1>3 DEF IntakeInv
    <2>2. Cardinality(Noted(i)) \in Nat /\ Cardinality(Logged(i)) \in Nat
      BY <1>1, NotedCount
    <2>3. Cardinality(Noted(i))' \in Nat /\ Cardinality(Logged(i))' \in Nat
      BY <1>1, CountedLater
    <2>4. Owed(job, i) \in {0, 1} /\ Owed(job', i) \in {0, 1}  BY OwedIsBit
    <2> QED  BY <2>1, <2>2, <2>3, <2>4 DEF Widens
  <1>4. Coupled(job)' /\ Named(job)' /\ \A i \in 1..Found : Owed(job, i)' = Owed(job', i)
    BY <1>2 DEF Coupled, Named, Owed, Couple
  <1> QED  BY <1>2, <1>3, <1>4 DEF IntakeInv

LEMMA IntakeHolds == Init => IntakeInv
  <1> SUFFICES ASSUME Init
               PROVE  IntakeInv
    OBVIOUS
  <1>1. job = <<>> /\ observations = <<>>
        /\ ledger = << [type |-> "RUN_CREATED", cand |-> 0, of |-> "run"] >>
    BY DEF Init
  <1>2. Coupled(job) /\ Named(job) /\ \A i \in 1..Found : Owed(job, i) = 0
    BY <1>1, NothingIsCoupled
  <1>3. ASSUME NEW i \in 1..Found  PROVE  Logged(i) = {} /\ Noted(i) = {}
    BY <1>1 DEF Logged, Noted
  <1>4. Cardinality({}) = 0  BY FS_EmptySet
  <1>5. \A i \in 1..Found : Cardinality(Logged(i)) + Owed(job, i) <= Cardinality(Noted(i))
    BY <1>2, <1>3, <1>4
  <1> QED  BY <1>2, <1>5 DEF IntakeInv

(* What is spoilt as the property counts it: ObservationWrites are the      *)
(* couples of the job.                                                      *)
LEMMA UnloggedIs ==
    ASSUME TypeOK, Coupled(job), NEW i \in 1..Found
    PROVE  Unlogged(i) <=> Cardinality(Noted(i)) # Cardinality(Logged(i)) + Owed(job, i)
  <1>1. DOMAIN job = 1..Len(job)  BY DEF TypeOK
  <1>2. /\ ObservationWrites(i, "observation") = Couple(job, i, "observation")
        /\ ObservationWrites(i, "event") = Couple(job, i, "event")
    BY <1>1 DEF ObservationWrites, Couple
  <1> DEFINE O == Cardinality(Couple(job, i, "observation"))
             E == Cardinality(Couple(job, i, "event"))
             N == Cardinality(Noted(i))  G == Cardinality(Logged(i))
  <1>3. O \in Nat /\ E = O + Owed(job, i) /\ Owed(job, i) \in {0, 1}  BY CouplesFinite
  <1>4. N \in Nat /\ G \in Nat  BY NotedCount
  <1>5. Unlogged(i) <=> N + O # G + E  BY <1>2 DEF Unlogged
  <1> HIDE DEF O, E, N, G
  <1>6. N + O # G + E <=> N # G + Owed(job, i)  BY <1>3, <1>4
  <1> QED  BY <1>5, <1>6 DEF N, G

UnloggedLaw ==
    TypeOK /\ Coupled(job) => \A i \in 1..Found :
        Unlogged(i) <=> Cardinality(Noted(i)) # Cardinality(Logged(i)) + Owed(job, i)
LEMMA UnloggedHolds == UnloggedLaw
  BY UnloggedIs DEF UnloggedLaw

LEMMA SpoiltStays == IInv /\ IntakeInv /\ [Next]_vars => (Spoilt => Spoilt')
  <1> SUFFICES ASSUME IInv, IntakeInv, [Next]_vars, Spoilt, ~torn', tail'[0] # "garbled"
               PROVE  \E i \in 1..Found : Repeated(i)' \/ Unlogged(i)'
    BY DEF Spoilt
  <1>1. TypeOK /\ TypeOK' /\ Good(job) /\ IntakeInv'  BY NextKeeps, IntakeNext DEF IInv
  <1>2. /\ ~torn /\ tail[0] # "garbled"
        /\ \A i \in 1..Found :
              Widens(i) /\ Cardinality(Noted(i)) <= Cardinality(Noted(i))'
    BY <1>1, Widening
  <1>3. PICK i \in 1..Found : Repeated(i) \/ Unlogged(i)  BY <1>2 DEF Spoilt
  <1>4. /\ Cardinality(Noted(i)) \in Nat /\ Cardinality(Logged(i)) \in Nat
        /\ Cardinality(Noted(i))' \in Nat /\ Cardinality(Logged(i))' \in Nat
    BY <1>1, NotedCount, CountedLater
  <1>5. ASSUME Repeated(i)  PROVE  Repeated(i)'
    <2>1. Cardinality(Noted(i)) > 1 /\ Cardinality(Noted(i)) <= Cardinality(Noted(i))'
      BY <1>2, <1>5 DEF Repeated
    <2>2. Cardinality(Noted(i))' > 1  BY <1>4, <2>1
    <2> QED  BY <2>2 DEF Repeated
  <1>6. ASSUME Unlogged(i)  PROVE  Unlogged(i)'
    <2>1. /\ Cardinality(Noted(i)) # Cardinality(Logged(i)) + Owed(job, i)
          /\ Cardinality(Logged(i)) + Owed(job, i) <= Cardinality(Noted(i))
      BY <1>1, <1>2, <1>6, UnloggedIs DEF IntakeInv
    <2>2. Widens(i) /\ Owed(job, i) \in {0, 1} /\ Owed(job', i) \in {0, 1}
      BY <1>2, OwedIsBit
    <2>3. Cardinality(Noted(i))' # Cardinality(Logged(i))' + Owed(job', i)
      BY <1>4, <2>1, <2>2 DEF Widens
    <2>4. UnloggedLaw'  BY UnloggedHolds, PTL
    <2>5. Coupled(job)' /\ Owed(job, i)' = Owed(job', i)
      BY <1>1 DEF IntakeInv, Owed, Couple
    <2> QED  BY <1>1, <2>3, <2>4, <2>5 DEF UnloggedLaw
  <1> QED  BY <1>3, <1>5, <1>6

(* An intake that was spoilt, because observe died in the middle, stays     *)
(* so: no later attempt makes every identifier recorded and logged once.    *)
THEOREM SpoiltStaysSpoilt == Spec => SpoiltIntakeStaysSpoilt
  <1>1. IInv /\ IntakeInv /\ [Next]_vars => [Spoilt => Spoilt']_vars  BY SpoiltStays
  <1>2. Spec => []IntakeInv  BY IntakeHolds, IntakeNext, Invariance, PTL DEF Spec
  <1> QED  BY <1>1, <1>2, Invariance, PTL DEF Spec, SpoiltIntakeStaysSpoilt

-----------------------------------------------------------------------------
(* The ten writes of a commit.                                             *)

LEMMA CommitIs ==
    ASSUME NEW c \in Candidate
    PROVE  /\ Commits(CommitWrites(c), c)
           /\ CommitWrites(c) \in Seq(Write) /\ Len(CommitWrites(c)) = 10
  <1> DEFINE s == CommitWrites(c)
  <1>1. /\ {"verdict", "certificate", "marker", "VERIFIED"} \subseteq Subject
        /\ {"written", "absent"} \subseteq Content /\ c \in Number
        /\ {"file", "event", "state", "index", "verify"} \subseteq WriteKind
        /\ CommitEvent \cup {"STATE_TRANSITION"} \subseteq EventType
    BY DEF FileName, Content, CommitEvent, EventType, State, Subject, Number, WriteKind
  <1>2. Commits(s, c)
    BY DEF Commits, CommitWrites, Authorization, Artifact, Transition, OneWrite, Record
  <1>3. s \in Seq(Write)
    BY <1>1 DEF CommitWrites, Authorization, Artifact, Transition, OneWrite, Write, CommitEvent
  <1>4. Len(s) = 10  BY <1>2 DEF Commits
  <1> QED  BY <1>2, <1>3, <1>4

LEMMA GoodPlain ==
    ASSUME NEW s, Good(s), NEW b, Plain(b)  PROVE  Good(s \o b)
  <1> DEFINE t == s \o b  n == Len(s)
  <1>1. /\ s \in Seq(Write) /\ b \in Seq(Write) /\ n \in Nat
        /\ \A i \in 1..n : Formed(s[i])
        /\ \A i \in 1..Len(b) : Formed(b[i]) /\ b[i].kind \notin {"state", "index", "scan"}
    BY DEF Good, Plain, AllFormed
  <1>2. /\ t \in Seq(Write) /\ Len(t) \in Nat /\ n <= Len(t)
        /\ \A i \in 1..n : t[i] = s[i]
        /\ \A i \in 1..Len(t) : i \in 1..n \/ \E k \in 1..Len(b) : t[i] = b[k]
    <2>0. /\ t \in Seq(Write) /\ Len(t) = n + Len(b) /\ n \in Nat /\ Len(b) \in Nat
          /\ \A i \in 1..n : t[i] = s[i]
          /\ \A i \in 1..Len(b) : t[n + i] = b[i]
      BY <1>1, Concat
    <2> HIDE DEF t, n
    <2>1. \A i \in 1..Len(t) : i \in 1..n \/ \E k \in 1..Len(b) : i = n + k  BY <2>0
    <2>2. \A i \in 1..Len(t) : i \in 1..n \/ \E k \in 1..Len(b) : t[i] = b[k]  BY <2>0, <2>1
    <2>3. Len(t) \in Nat /\ n <= Len(t)  BY <2>0
    <2> QED  BY <2>0, <2>2, <2>3
  <1> HIDE DEF t, n
  <1>3. \A i \in 1..Len(t) : t[i].kind \in {"state", "index", "scan"} => i \in 1..n
    BY <1>1, <1>2
  <1>4. AllFormed(t)  BY <1>1, <1>2 DEF AllFormed
  <1>5. \A i \in 1..n : \A j \in 1..i - 1 : t[j] = s[j]  BY <1>1, <1>2
  <1>6. n = Len(s) /\ Chained(s) /\ Warranted(s) /\ Indexed(s) /\ Scanned(s) /\ Rooted(s)
    BY DEF Good, n
  <1>7. \A i \in 1..n, j \in 1..n : Stateless(s, j, i - 1) => Stateless(t, j, i - 1)
    <2> SUFFICES ASSUME NEW i \in 1..n, NEW j \in 1..n, Stateless(s, j, i - 1),
                        NEW k \in j..i - 1
                 PROVE  t[k].kind # "state"
      BY DEF Stateless
    <2>1. k \in 1..i - 1  BY <1>1
    <2> QED  BY <1>5, <2>1 DEF Stateless
  <1>8. Chained(t)
    <2> SUFFICES ASSUME NEW i \in 1..Len(t), t[i].kind = "state"
                 PROVE  \/ /\ Stateless(t, 1, i - 1)
                           /\ tail[t[i].cand] = "whole" => Follows(t[i].cand, t[i].of)
                        \/ \E j \in 1..i - 1 :
                              /\ t[j].kind = "state" /\ t[j].cand = t[i].cand
                              /\ t[i].of \in Allowed(t[j].of)
                              /\ Stateless(t, j + 1, i - 1)
      BY DEF Chained
    <2>1. i \in 1..n /\ t[i] = s[i]  BY <1>2, <1>3
    <2>2. CASE /\ Stateless(s, 1, i - 1)
               /\ tail[s[i].cand] = "whole" => Follows(s[i].cand, s[i].of)
      <3>1. 1 \in 1..n  BY <1>1, <2>1
      <3> QED  BY <1>7, <2>1, <2>2, <3>1
    <2>3. ASSUME NEW j \in 1..i - 1,
                 s[j].kind = "state", s[j].cand = s[i].cand, s[i].of \in Allowed(s[j].of),
                 Stateless(s, j + 1, i - 1)
          PROVE  /\ t[j].kind = "state" /\ t[j].cand = t[i].cand
                 /\ t[i].of \in Allowed(t[j].of) /\ Stateless(t, j + 1, i - 1)
      <3>1. j + 1 \in 1..n /\ t[j] = s[j]  BY <1>1, <1>5, <2>1
      <3> QED  BY <1>7, <2>1, <2>3, <3>1
    <2> QED  BY <1>6, <2>1, <2>2, <2>3 DEF Chained
  <1>9. Warranted(t)  BY <1>2, <1>3, <1>5, <1>6 DEF Warranted
  <1>10. Indexed(t)  BY <1>2, <1>3, <1>5, <1>6 DEF Indexed
  <1>11. Scanned(t)
    <2> SUFFICES ASSUME NEW i \in 1..Len(t), t[i].kind = "scan", NEW o \in 1..Found
                 PROVE  /\ \/ OnRecord(o)
                           \/ \E j \in 1..i - 1 : t[j].kind = "observation" /\ t[j].cand = o
                        /\ \/ Logged(o) # {}
                           \/ torn /\ \E k \in 1..i - 1 : t[k].kind = "event"
                           \/ \E j, k \in 1..i - 1 :
                                 j < k /\ Logs(t[j], o) /\ t[k].kind = "event"
      BY DEF Scanned
    <2>1. i \in 1..n /\ t[i] = s[i] /\ \A j \in 1..i - 1 : t[j] = s[j]  BY <1>2, <1>3, <1>5
    <2> QED  BY <1>6, <2>1 DEF Scanned
  <1>12. Rooted(t)  BY <1>2, <1>3, <1>5, <1>6 DEF Rooted
  <1> QED  BY <1>4, <1>8, <1>9, <1>10, <1>11, <1>12 DEF Good, t

LEMMA CommitIsGood ==
    ASSUME TypeOK, NEW c \in Candidate, In(c, "REPRODUCED")  PROVE  Good(CommitWrites(c))
  <1> DEFINE a == Artifact(c, "verdict", "written", "VERDICT_AUTHORIZED")
             b == Artifact(c, "certificate", "written", "CERTIFICATE_ISSUED")
             t == Transition(c, "VERIFIED", "written")
             v == OneWrite("verify", c, "certificate", "absent")
             m == Artifact(c, "marker", "written", "AUTHORIZATION_COMMITTED")
  <1>1. /\ {"verdict", "certificate", "marker"} \subseteq FileName
        /\ "written" \in Content \ {"absent"} /\ "absent" \in Content
        /\ CommitEvent \subseteq EventType
        /\ "verify" \in WriteKind /\ c \in Number /\ "certificate" \in Subject
    BY DEF FileName, Content, CommitEvent, EventType, WriteKind, Number, Subject
  <1>2. Plain(a) /\ Plain(b) /\ Plain(m)  BY <1>1, ArtifactIsPlain DEF CommitEvent
  <1>3. Plain(v)
    <2>1. /\ v \in Seq(Write) /\ Len(v) = 1
          /\ v[1] = [kind |-> "verify", cand |-> c, of |-> "certificate", value |-> "absent"]
      BY <1>1, OneWriteIs
    <2> HIDE DEF v
    <2> QED  BY <2>1 DEF Plain, AllFormed, Formed
  <1>4. /\ "VERIFIED" \in State /\ "VERIFIED" \in Allowed("REPRODUCED")
        /\ EvidenceFile("VERIFIED") = "none" /\ Warrants("VERIFIED", "written")
    BY DEF State, Allowed, EvidenceFile, Warrants
  <1>5. Readable(c) /\ "VERIFIED" \in Allowed(CurrentState(c))  BY <1>4 DEF In
  <1>6. CommitWrites(c) = (((a \o b) \o t) \o v) \o m  BY DEF CommitWrites, Authorization
  <1>7. Good((a \o b) \o t)
    <2> DEFINE ab == a \o b
    <2>1. Plain(ab)  BY <1>2, PlainConcat
    <2> HIDE DEF ab, a, b
    <2>2. Good(ab \o Transition(c, "VERIFIED", "written"))
      BY <1>1, <1>4, <1>5, <2>1, ReadableMove
    <2> QED  BY <2>2 DEF ab
  <1> HIDE DEF a, b, t, v, m
  <1> QED  BY <1>2, <1>3, <1>6, <1>7, GoodPlain

LEMMA CommitIsProper ==
    ASSUME NEW c \in Candidate  PROVE  Proper(CommitWrites(c), Write)
  <1> DEFINE a == Artifact(c, "verdict", "written", "VERDICT_AUTHORIZED")
             b == Artifact(c, "certificate", "written", "CERTIFICATE_ISSUED")
             t == Transition(c, "VERIFIED", "written")
             v == OneWrite("verify", c, "certificate", "absent")
             m == Artifact(c, "marker", "written", "AUTHORIZATION_COMMITTED")
  <1>1. /\ {"verdict", "certificate", "marker"} \subseteq Subject
        /\ {"written", "absent"} \subseteq Content /\ "VERIFIED" \in State
        /\ "VERIFIED" \in Subject /\ c \in Number
        /\ {"file", "event", "state", "index", "verify"} \subseteq WriteKind
        /\ CommitEvent \cup {"STATE_TRANSITION"} \subseteq EventType
    BY DEF FileName, Content, CommitEvent, EventType, State, Subject, Number, WriteKind
  <1>2. \A kind \in {"file", "event", "state", "index", "verify"},
           of \in {"verdict", "certificate", "marker", "VERIFIED"},
           value \in {"written", "absent", "STATE_TRANSITION"} \cup CommitEvent :
              Record(kind, c, of, value) \in Write
    BY <1>1 DEF Record, Write
  <1>3. Proper(a, Write) /\ Proper(b, Write) /\ Proper(m, Write)
    BY <1>2, ProperArtifact DEF CommitEvent
  <1>4. Proper(t, Write)  BY <1>1, <1>2, ProperTransition
  <1>5. Proper(v, Write)  BY <1>2, ProperOne
  <1>6. CommitWrites(c) = (((a \o b) \o t) \o v) \o m  BY DEF CommitWrites, Authorization
  <1> HIDE DEF a, b, t, v, m
  <1> QED  BY <1>3, <1>4, <1>5, <1>6, ProperConcat

-----------------------------------------------------------------------------
(* The steps of the authority, on top of those of the run.                  *)

LEMMA VerifyDoes ==
    ASSUME TypeOK, AllFormed(job), VerifyStore
    PROVE  /\ TypeOK' /\ job # <<>>
           /\ \/ Effect /\ Did
              \/ UNCHANGED <<store, listing>> /\ job' = <<>>
  <1>1. /\ job # <<>> /\ w.kind = "verify" /\ UNCHANGED <<store, listing, faults>>
        /\ job' \in {Tail(job), <<>>}
    BY DEF VerifyStore, Doing, Steady, Continue, Raise
  <1>2. UNCHANGED <<dirs, file, history, tail, commands, expectations, observations, scan,
                    ledger, torn, index, listing, faults>>
    BY <1>1 DEF store, records, intake
  <1>3. TypeOK'
    <2>1. Tail(job) \in Seq(Write) /\ <<>> \in Seq(Write)  BY <1>1, NextWrite DEF AllFormed
    <2>2. job' \in Seq(Write)  BY <1>1, <2>1
    <2> QED  BY <1>2, <2>2 DEF TypeOK
  <1>4. Effect
    <2>1. OnFiles /\ OnHistory  BY <1>1, <1>2 DEF OnFiles, OnHistory
    <2>2. OnIntake /\ OnLedger
      BY <1>1, <1>2 DEF OnIntake, OnLedger, OnRecord, Noted, Logged, TypeOK
    <2>3. OnIndex /\ listing' = listing  BY <1>1, <1>2 DEF OnIndex
    <2> QED  BY <2>1, <2>2, <2>3 DEF Effect
  <1>5. job' = Tail(job) => Did  BY <1>1, <1>2 DEF Did
  <1> QED  BY <1>1, <1>3, <1>4, <1>5

LEMMA AuthoritySteps ==
    ASSUME TypeOK, Good(job), [AuthorityNext]_authorityVars
    PROVE  \/ /\ UNCHANGED <<prepared, signed>>
              /\ Operation \/ (Effect /\ Did) \/ Rested
           \/ \E k \in Kernel, c \in Candidate : Prepare(k, c) \/ Commit(k, c)
  <1>1. CASE Next /\ UNCHANGED <<prepared, signed>>  BY <1>1, StepsAre
  <1>2. CASE VerifyStore
    <2>1. AllFormed(job)  BY DEF Good
    <2>2. UNCHANGED <<store, listing>> /\ job' = <<>> => Rested
      BY DEF Rested, store, records, intake
    <2> QED  BY <1>2, <2>1, <2>2, VerifyDoes DEF VerifyStore
  <1>3. CASE UNCHANGED authorityVars  BY <1>3, StepsAre DEF authorityVars
  <1> QED  BY <1>1, <1>2, <1>3 DEF AuthorityNext

LEMMA CommitStarts ==
    ASSUME TypeOK, NEW k, NEW c \in Candidate, Commit(k, c)
    PROVE  /\ job = <<>> /\ UNCHANGED <<store, listing, faults>>
           /\ TypeOK' /\ Good(job') /\ Announced(job') /\ Paired(job')
  <1>1. /\ job = <<>> /\ UNCHANGED <<store, listing, faults>> /\ job' = CommitWrites(c)
        /\ In(c, "REPRODUCED")
    BY DEF Commit, Start
  <1>2. Good(job')  BY <1>1, CommitIsGood
  <1>3. Announced(job') /\ Paired(job')  BY <1>1, CommitIsProper DEF Proper
  <1>4. TypeOK'  BY <1>1, <1>2 DEF store, records, intake, TypeOK, Good, AllFormed
  <1> QED  BY <1>1, <1>2, <1>3, <1>4

LEMMA AuthorityKeeps ==
    ASSUME IInv, ClaimInv, [AuthorityNext]_authorityVars  PROVE  IInv' /\ ClaimInv'
  <1>1. TypeOK /\ Good(job) /\ StoreInv /\ DirInv /\ AllFormed(job)
    BY DEF IInv, StoreInv, Good
  <1>2. CASE [Next]_vars
    <2>1. ClaimInv'  BY <1>1, <1>2, StepsAre, ClaimsAtStart, ClaimsBehindWrite, ClaimsAtRest
    <2> QED  BY <1>2, <2>1, NextKeeps
  <1>3. CASE VerifyStore
    <2>1. /\ TypeOK' /\ job # <<>>
          /\ \/ Effect /\ Did
             \/ UNCHANGED <<store, listing>> /\ job' = <<>>
      BY <1>1, <1>3, VerifyDoes
    <2>2. CASE Effect /\ Did
      <3>1. Good(job)' /\ StoreInv'
        BY <1>1, <2>1, <2>2, GoodStays, NothingIsGood, StoreStays DEF Did
      <3> QED  BY <1>1, <2>1, <2>2, <3>1, ClaimsBehindWrite DEF IInv
    <2>3. CASE UNCHANGED <<store, listing>> /\ job' = <<>>
      <3>1. Rested  BY <2>3 DEF Rested, store, records, intake
      <3> QED  BY <1>1, <2>1, <2>3, <3>1, SameStore, NothingIsGood, ClaimsAtRest DEF IInv
    <2> QED  BY <2>1, <2>2, <2>3
  <1>4. ASSUME NEW k \in Kernel, NEW c \in Candidate, Prepare(k, c)  PROVE  [Next]_vars
    BY <1>4 DEF Prepare
  <1>5. ASSUME NEW k \in Kernel, NEW c \in Candidate, Commit(k, c)
        PROVE  IInv' /\ ClaimInv'
    <2>1. /\ UNCHANGED <<store, listing>> /\ TypeOK' /\ Good(job')
          /\ Announced(job') /\ Paired(job')
      BY <1>1, <1>5, CommitStarts
    <2>2. UNCHANGED <<dirs, file, history, tail, observations, ledger, torn>>
      BY <2>1 DEF store, records, intake
    <2>3. Good(job)'  BY <2>1, <2>2, SameNeeds
    <2>4. StoreInv'  BY <1>1, <2>1, SameStore
    <2>5. AllFormed(job')  BY <2>1 DEF Good
    <2>6. Led(job)' /\ Headed(job)'  BY <2>1, <2>5, ProperClaims
    <2>7. FilesInv'  BY <2>2 DEF ClaimInv, FilesInv, Present
    <2>8. MovesAreRecorded'  BY <2>2 DEF ClaimInv, MovesAreRecorded, MovesOf
    <2> QED  BY <2>1, <2>3, <2>4, <2>6, <2>7, <2>8 DEF IInv, ClaimInv
  <1>6. CASE UNCHANGED authorityVars  BY <1>2, <1>6 DEF authorityVars
  <1> QED  BY <1>2, <1>3, <1>4, <1>5, <1>6 DEF AuthorityNext

-----------------------------------------------------------------------------
(* Whose authorization is under way or done, and what that freezes.        *)

-----------------------------------------------------------------------------
(* What is left of a commit.                                               *)

LEMMA CommitParts ==
    ASSUME NEW c \in Candidate, NEW i \in 1..10
    PROVE  LET x == CommitWrites(c)[i] IN
           /\ x.cand = c /\ x.of \in CommitFile \cup {"VERIFIED"}
           /\ x.kind \in {"file", "event", "state", "index", "verify"}
           /\ x.value \in {"written", "absent", "STATE_TRANSITION"} \cup CommitEvent
           /\ x.kind = "state" \/ IsMove(x) => x.of = "VERIFIED"
           /\ x.kind = "file" => x.of \in CommitFile
           /\ x.value = "VERDICT_AUTHORIZED" <=> i = 2
           /\ x.value = "AUTHORIZATION_COMMITTED" <=> i = 10
  <1> DEFINE s == CommitWrites(c)
  <1>1. i \in {1, 2, 3, 4, 5, 6, 7, 8, 9, 10}  OBVIOUS
  <1>2. Commits(s, c)  BY CommitIs
  <1> HIDE DEF s
  <1> QED  BY <1>1, <1>2 DEF Commits, Record, CommitFile, CommitEvent, IsMove, s

LEMMA SignedFiles ==
    /\ SignedFile \subseteq FileName
    /\ SignedFile \cap (CommitFile \cup {"VERIFIED", "REPRODUCED"}) = {}
    /\ {"candidate", "hypothesis", "plan", "environment", "result", "replay_environment",
        "replay"} \cup Review \subseteq SignedFile
  BY RunStoreAssumption DEF SignedFile, RequiredReview, FileName, ReviewType, CommitFile

LEMMA RemainIs ==
    ASSUME NEW c \in Candidate, NEW n \in 0..9, Remain(c, n), AllFormed(job)
    PROVE  /\ job # <<>> /\ DOMAIN job = 1..10 - n /\ w = CommitWrites(c)[n + 1]
           /\ \A i \in 1..Len(job) : n + i \in 1..10 /\ job[i] = CommitWrites(c)[n + i]
           /\ n < 9 => n + 1 \in 0..9 /\ (job' = Tail(job) => Remain(c, n + 1)')
           /\ n = 9 => (job' = Tail(job) => job' = <<>>)
  <1>1. job \in Seq(Write) /\ Len(job) = 10 - n
        /\ \A i \in 1..10 - n : job[i] = CommitWrites(c)[n + i]
    BY DEF AllFormed, Remain
  <1>2. job # <<>> /\ DOMAIN job = 1..10 - n /\ w = job[1] /\ 1 \in 1..10 - n
    BY <1>1, NextWrite
  <1>3. ASSUME job' = Tail(job)
        PROVE  Len(job') = 9 - n /\ \A i \in 1..9 - n : job'[i] = job[i + 1]
    BY <1>1, <1>3
  <1>4. ASSUME n < 9, job' = Tail(job)  PROVE Remain(c, n + 1)'
    <2>1. \A i \in 1..10 - (n + 1) : job'[i] = CommitWrites(c)[(n + 1) + i]
      <3> SUFFICES ASSUME NEW i \in 1..9 - n  PROVE job'[i] = CommitWrites(c)[(n + 1) + i]
        OBVIOUS
      <3>1. job'[i] = job[i + 1] /\ i + 1 \in 1..10 - n  BY <1>3, <1>4
      <3>2. job[i + 1] = CommitWrites(c)[n + (i + 1)] /\ n + (i + 1) = (n + 1) + i
        BY <1>1, <3>1
      <3> QED  BY <3>1, <3>2
    <2>2. CommitWrites(c)' = CommitWrites(c)
      BY DEF CommitWrites, Authorization, Artifact, Transition, OneWrite
    <2> QED  BY <1>3, <1>4, <2>1, <2>2 DEF Remain
  <1>5. n = 9 => (job' = Tail(job) => job' = <<>>)  BY <1>1
  <1> QED  BY <1>1, <1>2, <1>4, <1>5

(* An operation is a commit of one candidate, or none.                      *)
LEMMA CommittingIs ==
    ASSUME AllFormed(job), NEW d \in Candidate
    PROVE  /\ (\A i \in 1..Len(job) : job[i] \in Harmless) => ~Committing(d)
           /\ \A c \in Candidate, n \in 0..9 : Remain(c, n) => (Committing(d) <=> d = c)
  <1>1. DOMAIN job = 1..Len(job)  BY DEF AllFormed
  <1>2. (\A i \in 1..Len(job) : job[i] \in Harmless) => ~Committing(d)
    BY <1>1 DEF Harmless, Committing, CommitEvent
  <1>3. ASSUME NEW c \in Candidate, NEW n \in 0..9, Remain(c, n)
        PROVE  Committing(d) <=> d = c
    <2>1. /\ DOMAIN job = 1..10 - n
          /\ \A i \in 1..Len(job) : n + i \in 1..10 /\ job[i] = CommitWrites(c)[n + i]
      BY <1>3, RemainIs
    <2>2. \A i \in 1..Len(job) :
             job[i].cand = c /\ (job[i].value = "AUTHORIZATION_COMMITTED" <=> n + i = 10)
      BY <2>1, CommitParts
    <2>3. 10 - n \in 1..Len(job) /\ n + (10 - n) = 10  BY <1>1, <2>1
    <2> QED  BY <1>1, <2>2, <2>3 DEF Committing
  <1> QED  BY <1>2, <1>3

-----------------------------------------------------------------------------
(* A frozen candidate stays frozen.                                        *)

LEMMA FilesStayed ==
    ASSUME NEW c \in Candidate, OnFiles, \A n \in SignedFile : Present(c, n)
    PROVE  \A n \in SignedFile : file'[c][n] = file[c][n]
  BY SignedFiles DEF OnFiles

LEMMA SpareIsNotEvidential ==
    ASSUME NEW c \in Candidate, NEW s, Spared(s, c), Len(s) \in Nat, 1 <= Len(s),
           s[1].kind = "event"
    PROVE  /\ ~Evidential(Entry(s[1]), c)
           /\ s[1].cand = c => s[1].value # "CANDIDATE_PROPOSED"
  <1>1. 1 \in 1..Len(s) /\ Spares(s[1], c)  BY DEF Spared
  <1>2. ~(s[1].cand = c /\ s[1].of \in SignedFile)  BY <1>1 DEF Spared, Guarded
  <1> QED  BY <1>1, <1>2 DEF Spares, Evidential, Entry, IsMove, Later, Rejection

LEMMA SpareTail ==
    ASSUME NEW c \in Candidate, Good(job), job # <<>>, Effect, job' = Tail(job),
           Spared(job, c), \A n \in SignedFile : Present(c, n)
    PROVE  Spared(job', c)
  <1>1. Rest(job, job') /\ w = job[1] /\ OnFiles /\ Formed(w)
    BY RestIs, NextWrite DEF Effect, Good
  <1>2. ASSUME NEW i \in 1..Len(job')  PROVE  Spares(job'[i], c)
    <2>1. i + 1 \in 1..Len(job) /\ job'[i] = job[i + 1]  BY <1>1, RestAt
    <2> QED  BY <2>1 DEF Spared
  <1>3. Guarded(job', c)
    <2> SUFFICES ASSUME NEW i \in 1..Len(job'), job'[i].kind = "event", job'[i].cand = c,
                        job'[i].of \in SignedFile
                 PROVE  \E j \in 1..i - 1 : IsFileOf(job'[j], c, job'[i].of)
      BY DEF Guarded
    <2>1. /\ i + 1 \in 1..Len(job) /\ job'[i] = job[i + 1] /\ (i + 1) - 1 = i
          /\ \A j \in 1..i : j # 1 => j - 1 \in 1..i - 1 /\ job'[j - 1] = job[j]
      BY <1>1, RestAt
    <2>2. PICK j \in 1..i : IsFileOf(job[j], c, job'[i].of)  BY <2>1 DEF Spared, Guarded
    <2>3. j # 1  BY <1>1, <2>2 DEF OnFiles, IsFileOf
    <2> QED  BY <2>1, <2>2, <2>3
  <1> QED  BY <1>2, <1>3 DEF Spared

LEMMA SealedStays ==
    ASSUME TypeOK, Good(job), Effect, Did, UNCHANGED signed, NEW c \in Candidate, Frozen(c)
    PROVE  Sealed(c)'
  <1>1. /\ w = job[1] /\ 1 \in 1..Len(job) /\ OnFiles
        /\ Sealed(c) /\ Spares(job[1], c)
    BY NextWrite DEF Did, Good, Effect, Frozen, Spared
  <1>2. scan' = scan /\ observations' = observations /\ tail'[0] = tail[0]
    BY <1>1 DEF Did, Spares
  <1>3. IntakeBound'  BY <1>1, <1>2 DEF Sealed, IntakeBound, Noted
  <1>4. \A n \in SignedFile : Present(c, n) /\ file[c][n] = signed[c].files[n]
    BY <1>1 DEF Sealed
  <1>5. \A n \in SignedFile : file'[c][n] = file[c][n]  BY <1>1, <1>4, FilesStayed
  <1>6. c \in dirs'  BY <1>1 DEF Sealed, OnFiles
  <1>7. ExperimentComplete(c)' /\ CleanReplayPassed(c)'  BY <1>1, <1>5, SignedFiles
    DEF Sealed, ExperimentComplete, CleanReplayPassed, Present
  <1> QED  BY <1>1, <1>3, <1>4, <1>5, <1>6, <1>7 DEF Sealed, Present

LEMMA GrownSequence ==
    ASSUME NEW S, NEW h \in Seq(S), NEW r
    PROVE  /\ Len(h) \in Nat /\ Len(Append(h, r)) = Len(h) + 1
           /\ \A j \in 1..Len(h) : Append(h, r)[j] = h[j]
           /\ Append(h, r)[Len(h) + 1] = r
  OBVIOUS

LEMMA ExtendsStays ==
    ASSUME TypeOK, Good(job), Effect, Did, UNCHANGED signed, NEW c \in Candidate, Frozen(c)
    PROVE  Extends(c)'
  <1>1. /\ w = job[1] /\ 1 \in 1..Len(job) /\ OnHistory
        /\ Extends(c) /\ Spares(job[1], c) /\ history[c] \in Seq(StateRecord)
    BY NextWrite DEF Did, Good, Effect, Frozen, Spared, TypeOK
  <1>2. CASE history'[c] = history[c]  BY <1>1, <1>2 DEF Extends
  <1>3. CASE history'[c] # history[c]
    <2>1. /\ w.kind = "state" /\ w.cand = c
          /\ history'[c] = Append(history[c], [to |-> w.of, evidence |-> w.value])
      BY <1>1, <1>3 DEF OnHistory, Extended
    <2>2. PICK r : r.to \in Later /\ history'[c] = Append(history[c], r)
      <3>1. w.of \in Later  BY <1>1, <2>1 DEF Spares
      <3> QED  BY <2>1, <3>1
    <2>3. PICK h : h = signed[c].states[1]  OBVIOUS
    <2>4. /\ h \in Seq(StateRecord) /\ h # <<>> /\ h[Len(h)].to = "REPRODUCED"
          /\ Len(h) <= Len(history[c])
          /\ \A j \in 1..Len(h) : history[c][j] = h[j]
          /\ \A j \in 1..Len(history[c]) : j > Len(h) => history[c][j].to \in Later
      BY <1>1, <2>3 DEF Extends
    <2>5. /\ Len(history[c]) \in Nat /\ Len(history'[c]) = Len(history[c]) + 1
          /\ \A j \in 1..Len(history[c]) : history'[c][j] = history[c][j]
          /\ history'[c][Len(history[c]) + 1] = r
      BY <1>1, <2>2, GrownSequence
    <2>6. Len(h) \in Nat  BY <2>4
    <2>7. Len(h) <= Len(history'[c]) /\ \A j \in 1..Len(h) : history'[c][j] = h[j]
      BY <2>4, <2>5, <2>6
    <2>8. ASSUME NEW j \in 1..Len(history'[c]), j > Len(h)
          PROVE  history'[c][j].to \in Later
      <3>1. j \in 1..Len(history[c]) \/ j = Len(history[c]) + 1  BY <2>5
      <3> QED  BY <2>2, <2>4, <2>5, <2>8, <3>1
    <2> QED  BY <2>3, <2>4, <2>7, <2>8 DEF Extends
  <1> QED  BY <1>2, <1>3

LEMMA BehindStays ==
    ASSUME TypeOK, Good(job), JobInv, Effect, Did, UNCHANGED signed, NEW c \in Candidate,
           Frozen(c)
    PROVE  Behind(c)'
  <1>1. /\ w = job[1] /\ 1 \in 1..Len(job) /\ Len(job) \in Nat /\ AllFormed(job)
        /\ Behind(c) /\ Spared(job, c)
    BY NextWrite DEF Did, Good, Frozen
  <1>2. PICK g : g = signed[c].ledger  OBVIOUS
  <1>3. /\ g \in Nat /\ g <= Len(ledger) /\ Verdicts(c) \subseteq {g + 1}
        /\ \A i \in DOMAIN ledger : Evidential(ledger[i], c) => i <= g
    BY <1>1, <1>2 DEF Behind
  <1>4. /\ Len(ledger) \in Nat /\ Len(ledger') \in Nat /\ Len(ledger) <= Len(ledger')
        /\ \A i \in DOMAIN ledger : ledger'[i] = ledger[i]
        /\ \A i \in DOMAIN ledger' :
              \/ i \in DOMAIN ledger
              \/ /\ i = Len(ledger) + 1 /\ ledger'[i] = Entry(w) /\ w.kind = "event" /\ ~torn'
    BY <1>1, LedgerSteps
  <1>5. ASSUME NEW i \in DOMAIN ledger', Evidential(ledger'[i], c)  PROVE  i <= g
    <2>1. i \in DOMAIN ledger  BY <1>1, <1>4, <1>5, SpareIsNotEvidential
    <2> QED  BY <1>3, <1>4, <1>5, <2>1
  <1>6. ASSUME NEW i \in DOMAIN ledger', i \notin DOMAIN ledger,
               ledger'[i].cand = c, ledger'[i].type = "VERDICT_AUTHORIZED"
        PROVE  i = g + 1
    <2>1. /\ i = Len(ledger) + 1 /\ w.cand = c /\ w.value = "VERDICT_AUTHORIZED" /\ ~torn
      BY <1>4, <1>6 DEF Entry, Did
    <2>2. w \notin Harmless  BY <2>1 DEF Harmless, CommitEvent
    <2>3. PICK d \in Candidate, n \in 0..9 : Stage(d, n)  BY <1>1, <2>2 DEF JobInv
    <2>4. w = CommitWrites(d)[n + 1] /\ n + 1 \in 1..10  BY <1>1, <2>3, RemainIs DEF Stage
    <2>5. d = c /\ n = 1  BY <2>1, <2>4, CommitParts
    <2>6. Issued(c, 1)  BY <2>1, <2>3, <2>5 DEF Stage
    <2> QED  BY <1>2, <1>3, <2>1, <2>6 DEF Issued
  <1>7. Verdicts(c)' \subseteq {g + 1}  BY <1>3, <1>4, <1>6 DEF Verdicts, Places
  <1>8. g <= Len(ledger')  BY <1>3, <1>4
  <1>9. \A i \in DOMAIN ledger' : Evidential(ledger[i], c)' => i <= g
    BY <1>5 DEF Evidential
  <1> QED  BY <1>2, <1>3, <1>7, <1>8, <1>9 DEF Behind

LEMMA FrozenStays ==
    ASSUME TypeOK, Good(job), JobInv, Effect, Did, UNCHANGED signed, NEW c \in Candidate,
           Frozen(c)
    PROVE  Frozen(c)'
  <1>1. Spared(job', c)
    <2>1. CASE job' = <<>>  BY <2>1 DEF Spared, Guarded
    <2>2. CASE job' = Tail(job)  BY <2>2, SpareTail DEF Did, Frozen, Sealed
    <2> QED  BY <2>1, <2>2 DEF Did
  <1>2. Spared(job, c)'  BY <1>1 DEF Spared, Guarded, Spares, IsFileOf, IsMove
  <1> QED  BY <1>2, SealedStays, ExtendsStays, BehindStays DEF Frozen

LEMMA FrozenAtRest ==
    ASSUME Rested, UNCHANGED signed, NEW c \in Candidate, Frozen(c)  PROVE  Frozen(c)'
  <1>1. /\ UNCHANGED <<dirs, file, history, tail, observations, scan, ledger>>
        /\ job' \in {job, <<>>}
    BY DEF Rested
  <1>2. Sealed(c)'
    BY <1>1 DEF Frozen, Sealed, IntakeBound, Noted, ExperimentComplete, CleanReplayPassed,
                Present
  <1>3. Extends(c)'  BY <1>1 DEF Frozen, Extends
  <1>4. Behind(c)'  BY <1>1 DEF Frozen, Behind, Verdicts, Places, Evidential
  <1>5. Spared(job', c)  BY <1>1 DEF Frozen, Spared, Guarded
  <1>6. Spared(job, c)'  BY <1>5 DEF Spared, Guarded, Spares, IsFileOf, IsMove
  <1> QED  BY <1>2, <1>3, <1>4, <1>6 DEF Frozen

-----------------------------------------------------------------------------
(* The entries of the ledger about a candidate, when one is appended.  The  *)
(* recursive function that selects them is unfolded step by step.           *)

LEMMA Least ==
    ASSUME NEW T \in SUBSET Nat, T # {}  PROVE  \E m \in T : \A k \in T : m <= k
  <1> DEFINE R == OpToRel(<, Nat)
  <1>1. \A i, j \in Nat : i < j => <<i, j>> \in R  BY DEF OpToRel
  <1>2. IsWellFoundedOn(R, Nat)  BY NatLessThanWellFounded
  <1> HIDE DEF R
  <1>3. \E x \in T : \A y \in T : ~(<<y, x>> \in R)  BY <1>2, WFMin
  <1>4. \A i, j \in T : ~(<<i, j>> \in R) => j <= i  BY <1>1
  <1> QED  BY <1>3, <1>4

LEMMA UpToFirst ==
    ASSUME NEW s, NEW c, NEW type, NEW n \in Nat, NEW f, UpTo(f, s, c, type, n)
    PROVE  f[0] = <<>>
  BY DEF UpTo

LEMMA UpToIs ==
    ASSUME NEW s, NEW c, NEW type, NEW n \in Nat, NEW f, UpTo(f, s, c, type, n)
    PROVE  \A i \in 1..n : f[i] = Taken(s, c, type, f[i - 1], i)
  <1> HIDE DEF Taken
  <1>1. \A i \in 0..n : f[i] = IF i = 0 THEN <<>> ELSE Taken(s, c, type, f[i - 1], i)
    BY DEF UpTo
  <1> QED  BY <1>1

LEMMA UpToExists ==
    ASSUME NEW s, NEW c, NEW type, NEW n \in Nat  PROVE  \E f : UpTo(f, s, c, type, n)
  <1> DEFINE T == {m \in Nat : ~\E f : UpTo(f, s, c, type, m)}
  <1>1. SUFFICES ASSUME T # {}  PROVE FALSE  OBVIOUS
  <1>2. PICK m \in T : \A k \in T : m <= k  BY <1>1, Least
  <1>3. CASE m = 0
    <2> DEFINE f == [i \in 0..0 |-> <<>>]
    <2>1. f = [i \in 0..0 |-> IF i = 0 THEN <<>> ELSE Taken(s, c, type, f[i - 1], i)]
      OBVIOUS
    <2>2. UpTo(f, s, c, type, 0)  BY <2>1 DEF UpTo
    <2> QED  BY <1>3, <2>2
  <1>4. CASE m # 0
    <2>1. m - 1 \in Nat /\ m - 1 \notin T  BY <1>2, <1>4
    <2>2. PICK f : UpTo(f, s, c, type, m - 1)  BY <2>1
    <2>3. f[0] = <<>> /\ \A i \in 1..m - 1 : f[i] = Taken(s, c, type, f[i - 1], i)
      <3>1. PICK l \in Nat : l = m - 1  BY <2>1
      <3>2. UpTo(f, s, c, type, l)  BY <2>2, <3>1
      <3>3. \A i \in 1..l : f[i] = Taken(s, c, type, f[i - 1], i)  BY <3>2, UpToIs
      <3>4. f[0] = <<>>  BY <3>2, UpToFirst
      <3> QED  BY <3>1, <3>3, <3>4
    <2> DEFINE g == [i \in 0..m |-> IF i = m THEN Taken(s, c, type, f[m - 1], m) ELSE f[i]]
    <2>4. \A i \in 0..m : i # m => g[i] = f[i]  OBVIOUS
    <2>5. g[m] = Taken(s, c, type, f[m - 1], m)  BY <1>2
    <2>6. g[m - 1] = f[m - 1] /\ g[0] = <<>>  BY <1>4, <2>1, <2>3, <2>4
    <2>7. \A i \in 0..m : g[i] = IF i = 0 THEN <<>> ELSE Taken(s, c, type, g[i - 1], i)
      <3> SUFFICES ASSUME NEW i \in 0..m, i # 0
                   PROVE  g[i] = Taken(s, c, type, g[i - 1], i)
        BY <2>6
      <3> HIDE DEF g
      <3>1. CASE i = m  BY <2>5, <2>6, <3>1
      <3>2. CASE i # m
        <4>1. i \in 1..m - 1 /\ i - 1 \in 0..m /\ i - 1 # m  BY <1>2, <3>2
        <4> QED  BY <2>3, <2>4, <3>2, <4>1
      <3> QED  BY <3>1, <3>2
    <2>8. g = [i \in 0..m |-> g[i]]  OBVIOUS
    <2> HIDE DEF g
    <2>9. UpTo(g, s, c, type, m)
      <3>1. [i \in 0..m |-> g[i]] =
               [i \in 0..m |-> IF i = 0 THEN <<>> ELSE Taken(s, c, type, g[i - 1], i)]
        BY <2>7
      <3> QED  BY <2>8, <3>1 DEF UpTo
    <2> QED  BY <1>2, <2>9
  <1> QED  BY <1>3, <1>4

LEMMA UpToAgrees ==
    ASSUME NEW s, NEW u, NEW c, NEW type, NEW n \in Nat, NEW m \in Nat, n <= m,
           \A i \in 1..n : u[i] = s[i],
           NEW f, UpTo(f, s, c, type, n), NEW g, UpTo(g, u, c, type, m)
    PROVE  \A i \in 0..n : f[i] = g[i]
  <1> DEFINE T == {i \in 0..n : f[i] # g[i]}
  <1>1. SUFFICES ASSUME T # {}  PROVE FALSE  OBVIOUS
  <1>2. T \in SUBSET Nat  OBVIOUS
  <1>3. PICK k \in T : \A j \in T : k <= j  BY <1>1, <1>2, Least
  <1>4. /\ f[0] = <<>> /\ g[0] = <<>>
        /\ \A i \in 1..n : f[i] = Taken(s, c, type, f[i - 1], i)
        /\ \A i \in 1..m : g[i] = Taken(u, c, type, g[i - 1], i)
    <2>1. f[0] = <<>> /\ g[0] = <<>>  BY UpToFirst
    <2>2. \A i \in 1..n : f[i] = Taken(s, c, type, f[i - 1], i)  BY UpToIs
    <2>3. \A i \in 1..m : g[i] = Taken(u, c, type, g[i - 1], i)  BY UpToIs
    <2> QED  BY <2>1, <2>2, <2>3
  <1>5. k # 0  BY <1>3, <1>4
  <1>6. k \in 1..n /\ k \in 1..m /\ k - 1 \in 0..n /\ k - 1 \notin T  BY <1>3, <1>5
  <1>7. f[k - 1] = g[k - 1] /\ u[k] = s[k]  BY <1>6
  <1>8. f[k] = g[k]  BY <1>4, <1>6, <1>7 DEF Taken
  <1> QED  BY <1>3, <1>8

LEMMA SelectedIs ==
    ASSUME NEW s, NEW c, NEW type, Len(s) \in Nat
    PROVE  \E f : UpTo(f, s, c, type, Len(s)) /\ Selected(s, c, type) = f[Len(s)]
  <1> DEFINE g == CHOOSE f : UpTo(f, s, c, type, Len(s))
  <1>1. Selected(s, c, type) = g[Len(s)]  BY DEF Selected, UpTo, Taken
  <1>2. UpTo(g, s, c, type, Len(s))  BY UpToExists
  <1> QED  BY <1>1, <1>2

LEMMA SelectedSeq ==
    ASSUME NEW S, NEW s \in Seq(S), NEW c, NEW type  PROVE  Selected(s, c, type) \in Seq(S)
  <1>1. PICK f : UpTo(f, s, c, type, Len(s)) /\ Selected(s, c, type) = f[Len(s)]
    BY SelectedIs
  <1> DEFINE T == {i \in 0..Len(s) : f[i] \notin Seq(S)}
  <1>2. SUFFICES ASSUME T # {}  PROVE FALSE  BY <1>1
  <1>3. T \in SUBSET Nat  OBVIOUS
  <1>4. PICK k \in T : \A j \in T : k <= j  BY <1>2, <1>3, Least
  <1>5. f[0] = <<>> /\ \A i \in 1..Len(s) : f[i] = Taken(s, c, type, f[i - 1], i)
    <2>1. PICK n \in Nat : n = Len(s)  OBVIOUS
    <2>2. UpTo(f, s, c, type, n)  BY <1>1, <2>1
    <2>3. f[0] = <<>>  BY <2>2, UpToFirst
    <2>4. \A i \in 1..n : f[i] = Taken(s, c, type, f[i - 1], i)  BY <2>2, UpToIs
    <2> QED  BY <2>1, <2>3, <2>4
  <1>a. k \in 0..Len(s) /\ f[k] \notin Seq(S) /\ <<>> \in Seq(S)  BY <1>4
  <1>6. k \in 1..Len(s) /\ k - 1 \in 0..Len(s) /\ k - 1 \notin T
    <2>1. k # 0  BY <1>5, <1>a
    <2> QED  BY <1>4, <1>a, <2>1
  <1>7. f[k - 1] \in Seq(S) /\ s[k] \in S  BY <1>6
  <1>8. Taken(s, c, type, f[k - 1], k) \in Seq(S)  BY <1>7 DEF Taken
  <1>9. f[k] = Taken(s, c, type, f[k - 1], k)  BY <1>5, <1>6
  <1> QED  BY <1>a, <1>8, <1>9

LEMMA SelectedNext ==
    ASSUME NEW S, NEW s \in Seq(S), NEW e \in S, NEW c, NEW type
    PROVE  Selected(Append(s, e), c, type) =
              IF e.cand = c /\ e.type = type THEN Append(Selected(s, c, type), e)
              ELSE Selected(s, c, type)
  <1> DEFINE u == Append(s, e)  n == Len(s)
  <1>1. /\ n \in Nat /\ Len(u) = n + 1 /\ u[n + 1] = e /\ \A i \in 1..n : u[i] = s[i]
    OBVIOUS
  <1> HIDE DEF u
  <1>2. PICK f : UpTo(f, s, c, type, n) /\ Selected(s, c, type) = f[n]  BY <1>1, SelectedIs
  <1>3. PICK g : UpTo(g, u, c, type, n + 1) /\ Selected(u, c, type) = g[n + 1]
    BY <1>1, SelectedIs
  <1>b. PICK k \in Nat, l \in Nat : k = n /\ l = n + 1  BY <1>1
  <1> HIDE DEF n
  <1>4. g[n] = f[n]
    <2>1. UpTo(f, s, c, type, k) /\ UpTo(g, u, c, type, l) /\ k <= l /\ k \in 0..k
          /\ \A i \in 1..k : u[i] = s[i]
      BY <1>1, <1>2, <1>3, <1>b
    <2>2. \A i \in 0..k : f[i] = g[i]  BY <2>1, UpToAgrees
    <2> QED  BY <1>b, <2>1, <2>2
  <1>5. g[n + 1] = Taken(u, c, type, g[n], n + 1)
    <2>1. UpTo(g, u, c, type, l)  BY <1>3, <1>b
    <2>2. \A i \in 1..l : g[i] = Taken(u, c, type, g[i - 1], i)  BY <2>1, UpToIs
    <2>3. l \in 1..l /\ l - 1 = k  BY <1>b
    <2>4. g[l] = Taken(u, c, type, g[k], l)  BY <2>2, <2>3
    <2> QED  BY <1>b, <2>4
  <1> QED  BY <1>1, <1>2, <1>3, <1>4, <1>5 DEF Taken, u

LEMMA MovesNext ==
    ASSUME ledger \in Seq(Event), NEW e \in Event, ledger' = Append(ledger, e), NEW c
    PROVE  /\ TransitionEvents(c) \in Seq(Subject)
           /\ TransitionEvents(c)' =
                 IF e.cand = c /\ e.type = "STATE_TRANSITION"
                 THEN Append(TransitionEvents(c), e.of) ELSE TransitionEvents(c)
           /\ \/ e.cand = c /\ e.type = "CANDIDATE_PROPOSED"
              \/ Len(EventsOf(c, "CANDIDATE_PROPOSED"))' = Len(EventsOf(c, "CANDIDATE_PROPOSED"))
  <1> DEFINE es == EventsOf(c, "STATE_TRANSITION")
  <1>1. es \in Seq(Event)  BY SelectedSeq DEF EventsOf
  <1>2. EventsOf(c, "STATE_TRANSITION")' =
           IF e.cand = c /\ e.type = "STATE_TRANSITION" THEN Append(es, e) ELSE es
    BY SelectedNext DEF EventsOf
  <1>3. EventsOf(c, "CANDIDATE_PROPOSED")' =
           IF e.cand = c /\ e.type = "CANDIDATE_PROPOSED"
           THEN Append(EventsOf(c, "CANDIDATE_PROPOSED"), e)
           ELSE EventsOf(c, "CANDIDATE_PROPOSED")
    BY SelectedNext DEF EventsOf
  <1>4. TransitionEvents(c) = [i \in DOMAIN es |-> es[i].of]  BY DEF TransitionEvents
  <1> HIDE DEF es
  <1>5. TransitionEvents(c) \in Seq(Subject) /\ e.of \in Subject
    <2>1. \A x \in Event : x.of \in Subject  BY DEF Event
    <2>2. \A i \in DOMAIN es : es[i].of \in Subject  BY <1>1, <2>1
    <2>3. DOMAIN es = 1..Len(es) /\ Len(es) \in Nat  BY <1>1
    <2> QED  BY <1>4, <2>1, <2>2, <2>3
  <1>6. CASE e.cand = c /\ e.type = "STATE_TRANSITION"
    <2>1. TransitionEvents(c)' = [i \in DOMAIN Append(es, e) |-> Append(es, e)[i].of]
      BY <1>2, <1>6 DEF TransitionEvents
    <2>2. [i \in DOMAIN Append(es, e) |-> Append(es, e)[i].of] =
             Append([i \in DOMAIN es |-> es[i].of], e.of)
      BY <1>1, <1>5
    <2> QED  BY <1>3, <1>4, <1>5, <1>6, <2>1, <2>2
  <1>7. CASE ~(e.cand = c /\ e.type = "STATE_TRANSITION")
    <2>1. EventsOf(c, "STATE_TRANSITION")' = es  BY <1>2, <1>7
    <2>2. TransitionEvents(c)' = TransitionEvents(c)  BY <1>4, <2>1 DEF TransitionEvents
    <2> QED  BY <1>3, <1>5, <1>7, <2>2
  <1> QED  BY <1>6, <1>7

LEMMA PlacesNext ==
    ASSUME ledger \in Seq(Event), NEW e \in Event, ledger' = Append(ledger, e),
           NEW x, NEW T, NEW o
    PROVE  Places(x, T, o)' =
              IF e.cand = x /\ e.type \in T /\ e.of = o
              THEN Places(x, T, o) \cup {Len(ledger) + 1} ELSE Places(x, T, o)
  <1>1. /\ Len(ledger) \in Nat /\ DOMAIN ledger = 1..Len(ledger)
        /\ DOMAIN ledger' = 1..Len(ledger) + 1
        /\ \A i \in 1..Len(ledger) : ledger'[i] = ledger[i]
        /\ ledger'[Len(ledger) + 1] = e
    OBVIOUS
  <1>2. PICK n \in Nat : n = Len(ledger)  BY <1>1
  <1>3. /\ DOMAIN ledger = 1..n /\ DOMAIN ledger' = 1..n + 1
        /\ \A i \in 1..n : ledger'[i] = ledger[i] /\ ledger'[n + 1] = e
        /\ \A i : i \in 1..n + 1 <=> i \in 1..n \/ i = n + 1
        /\ n + 1 \notin 1..n
    BY <1>1, <1>2
  <1>4. ledger'[n + 1] = e  BY <1>1, <1>2
  <1>5. Places(x, T, o)' =
           {i \in 1..n + 1 : ledger'[i].cand = x /\ ledger'[i].type \in T /\ ledger'[i].of = o}
    BY <1>3 DEF Places
  <1>6. Places(x, T, o) =
           {i \in 1..n : ledger[i].cand = x /\ ledger[i].type \in T /\ ledger[i].of = o}
    BY <1>3 DEF Places
  <1> QED  BY <1>2, <1>3, <1>4, <1>5, <1>6

-----------------------------------------------------------------------------
(* What an operation that starts has to do with a frozen candidate.        *)

LEMMA LaterFollows ==
    ASSUME TypeOK, NEW c \in Candidate, Extends(c)
    PROVE  /\ State \cap Allowed(CurrentState(c)) \subseteq Later
           /\ "SIGNAL" \notin Allowed(CurrentState(c))
  <1>1. CurrentState(c) \in Later \cup {"REPRODUCED"}
    <2>1. PICK h : h = signed[c].states[1]  OBVIOUS
    <2>2. /\ h \in Seq(StateRecord) /\ h # <<>> /\ h[Len(h)].to = "REPRODUCED"
          /\ Len(h) <= Len(history[c])
          /\ \A j \in 1..Len(h) : history[c][j] = h[j]
          /\ \A j \in 1..Len(history[c]) : j > Len(h) => history[c][j].to \in Later
      BY <2>1 DEF Extends
    <2>3. /\ Len(h) \in 1..Len(h) /\ Len(history[c]) \in Nat
          /\ Len(history[c]) \in 1..Len(history[c])
          /\ Len(history[c]) = Len(h) \/ Len(history[c]) > Len(h)
      BY <2>2 DEF TypeOK
    <2> QED  BY <2>2, <2>3 DEF CurrentState
  <1> QED  BY <1>1 DEF Later, Rejection, Allowed, State

LEMMA AnnouncedGuards ==
    ASSUME NEW c \in Candidate, NEW s, Announced(s)  PROVE  Guarded(s, c)
  BY SignedFiles DEF Announced, Guarded

LEMMA FrozenStore ==
    ASSUME UNCHANGED <<dirs, file, history, tail, observations, scan, ledger>>,
           NEW c \in Candidate, signed'[c] = signed[c], Frozen(c), Spared(job', c)
    PROVE  Frozen(c)'
  <1>1. Sealed(c)'
    BY DEF Frozen, Sealed, IntakeBound, Noted, ExperimentComplete, CleanReplayPassed, Present
  <1>2. Extends(c)'  BY DEF Frozen, Extends
  <1>3. Behind(c)'  BY DEF Frozen, Behind, Verdicts, Places, Evidential
  <1>4. Spared(job, c)'  BY DEF Spared, Guarded, Spares, IsFileOf, IsMove
  <1> QED  BY <1>1, <1>2, <1>3, <1>4 DEF Frozen

LEMMA FrozenAtStart ==
    ASSUME TypeOK, DirInv, Funded, Operation, UNCHANGED signed, NEW c \in Candidate, Frozen(c)
    PROVE  Frozen(c)'
  <1>1. UNCHANGED <<dirs, file, history, tail, observations, scan, ledger>>
    BY OperationStarts DEF store, records, intake
  <1>2. /\ c \in dirs /\ scan /\ Extends(c)  BY DEF Frozen, Sealed, IntakeBound
  <1>3. Guarded(job', c) /\ job' \in Seq(Write)
    BY OperationIsProper, OperationStarts, AnnouncedGuards DEF Proper, Good, AllFormed
  <1>4. ASSUME NEW S, Proper(job', S), NEW i \in 1..Len(job')  PROVE  job'[i] \in S
    BY <1>4 DEF Proper
  <1>5. \A i \in 1..Len(job') : Spares(job'[i], c)
    <2>1. CASE \E e \in 1..MaxExpectations : e = expectations + 1 /\ Proper(job', Expected(e))
      <3>1. PICK e \in 1..MaxExpectations : e = expectations + 1 /\ Proper(job', Expected(e))
        BY <2>1
      <3>2. e # 1  BY <1>2, <3>1 DEF Funded, TypeOK
      <3>3. \A x \in Expected(e) : Spares(x, c)  BY <3>2 DEF Expected, Spares
      <3> QED  BY <1>4, <3>1, <3>3
    <2>2. ASSUME NEW d \in Candidate, NEW T \in SUBSET State, Proper(job', About(d, T)),
                 \/ d \notin dirs /\ expectations > 0
                 \/ Readable(d) /\ T = State \cap Allowed(CurrentState(d))
                 \/ d \in dirs /\ T = {}
          PROVE  \A i \in 1..Len(job') : Spares(job'[i], c)
      <3>1. d = c => T \subseteq Later /\ "SIGNAL" \notin T  BY <1>2, <2>2, LaterFollows
      <3>2. \A x \in About(d, T) : Spares(x, c)  BY <3>1 DEF About, Spares
      <3> QED  BY <1>4, <2>2, <3>2
    <2> QED  BY <1>2, <2>1, <2>2, OperationIsProper
  <1> QED  BY <1>1, <1>3, <1>5, FrozenStore DEF Spared

LEMMA CommitSpares ==
    ASSUME NEW c \in Candidate, NEW d \in Candidate  PROVE  Spared(CommitWrites(c), d)
  <1>1. Len(CommitWrites(c)) = 10  BY CommitIs
  <1>2. ASSUME NEW i \in 1..10  PROVE  Spares(CommitWrites(c)[i], d)
    <2>1. PICK x : x = CommitWrites(c)[i]  OBVIOUS
    <2>2. /\ x.kind \in {"file", "event", "state", "index", "verify"}
          /\ x.value \in {"written", "absent", "STATE_TRANSITION"} \cup CommitEvent
          /\ x.kind = "state" \/ IsMove(x) => x.of = "VERIFIED"
      BY <2>1, CommitParts
    <2>3. Spares(x, d)  BY <2>2 DEF Spares, CommitEvent, IntakeEvent, Later
    <2> QED  BY <2>1, <2>3
  <1>3. Guarded(CommitWrites(c), d)  BY CommitIsProper, AnnouncedGuards DEF Proper
  <1> QED  BY <1>1, <1>2, <1>3 DEF Spared

LEMMA FrozenAtCommit ==
    ASSUME TypeOK, DOMAIN signed = Candidate, NEW k, NEW c \in Candidate, Commit(k, c),
           FilesInv
    PROVE  /\ Frozen(c)'
           /\ \A d \in Candidate : Frozen(d) => Frozen(d)'
  <1>1. /\ UNCHANGED <<store, listing, faults>> /\ job' = CommitWrites(c)
        /\ In(c, "REPRODUCED") /\ GatesPass(c) /\ Uncommitted(c)
        /\ signed' = [signed EXCEPT ![c] = Graph(c)]
    BY DEF Commit, Start
  <1>2. UNCHANGED <<dirs, file, history, tail, observations, scan, ledger>>
    BY <1>1 DEF store, records, intake
  <1>3. \A d \in Candidate : Spared(job', d)  BY <1>1, CommitSpares
  <1>4. signed'[c] = Graph(c) /\ \A d \in Candidate : d # c => signed'[d] = signed[d]
    BY <1>1
  <1>5. ASSUME NEW d \in Candidate, d # c, Frozen(d)  PROVE  Frozen(d)'
    BY <1>2, <1>3, <1>4, <1>5, FrozenStore
  <1>6. /\ signed'[c].files = [n \in SignedFile |-> file[c][n]]
        /\ signed'[c].states[1] = history[c]
        /\ signed'[c].ledger = Len(ledger)
    BY <1>4 DEF Graph
  <1>7. Sealed(c)'
    <2>1. c \in dirs /\ IntakeBound /\ ExperimentComplete(c) /\ CleanReplayPassed(c)
      BY <1>1 DEF GatesPass, ReadCandidate, Readable
    <2>2. \A n \in SignedFile : Present(c, n)
      BY <1>1 DEF GatesPass, ReadCandidate, ExperimentComplete, CleanReplayPassed,
                  ReviewsApproved, SignedFile, Present
    <2> QED  BY <1>2, <1>6, <2>1, <2>2
      DEF Sealed, IntakeBound, Noted, ExperimentComplete, CleanReplayPassed, Present
  <1>8. Extends(c)'
    <2>1. history[c] \in Seq(StateRecord) /\ history[c] # <<>>
          /\ history[c][Len(history[c])].to = "REPRODUCED"
      BY <1>1 DEF TypeOK, In, Readable, CurrentState
    <2> QED  BY <1>2, <1>6, <2>1 DEF Extends
  <1>9. Behind(c)'
    <2>1. Len(ledger) \in Nat /\ DOMAIN ledger = 1..Len(ledger)  BY DEF TypeOK
    <2>2. Verdicts(c) = {}
      <3>1. "verdict" \in FileName /\ ~Present(c, "verdict")
        BY <1>1 DEF FileName, Uncommitted
      <3> QED  BY <3>1 DEF Verdicts, Places, FilesInv
    <2>3. Verdicts(c)' = {}  BY <1>2, <2>2 DEF Verdicts, Places
    <2>4. \A i \in DOMAIN ledger' : i <= Len(ledger)  BY <1>2, <2>1
    <2> QED  BY <1>2, <1>6, <2>1, <2>3, <2>4 DEF Behind
  <1>10. Spared(job, c)'  BY <1>3 DEF Spared, Guarded, Spares, IsFileOf, IsMove
  <1> QED  BY <1>5, <1>7, <1>8, <1>9, <1>10 DEF Frozen

-----------------------------------------------------------------------------
(* How a commit gets from one stage to the next.                           *)

LEMMA NoJob ==
    ASSUME job' = <<>>  PROVE  JobInv'
  BY DEF JobInv

LEMMA OperationIsHarmless ==
    ASSUME TypeOK, Operation
    PROVE  (\A i \in 1..Len(job') : job'[i] \in Harmless) /\ JobInv'
  <1>1. ASSUME NEW S, Proper(job', S), S \subseteq Harmless
        PROVE  \A i \in 1..Len(job') : job'[i] \in Harmless
    BY <1>1 DEF Proper
  <1>2. Observed \subseteq Harmless /\ (\A e : Expected(e) \subseteq Harmless)
        /\ \A d, T : About(d, T) \subseteq Harmless
    BY DEF Observed, Expected, About
  <1>3. \A i \in 1..Len(job') : job'[i] \in Harmless  BY <1>1, <1>2, OperationIsProper
  <1> QED  BY <1>3 DEF JobInv

LEMMA SameStage ==
    ASSUME UNCHANGED <<file, history, tail, ledger, torn, signed, job>>,
           NEW c \in Candidate, NEW n \in 0..9, Stage(c, n)
    PROVE  Stage(c, n)'
  <1>1. Remain(c, n)'
    BY DEF Stage, Remain, CommitWrites, Authorization, Artifact, Transition, OneWrite
  <1>2. torn \/ Issued(c, n)'
    BY DEF Stage, Issued, Verdicts, Certificates, Verifications, Places, Bound,
           TransitionEvents, EventsOf
  <1>3. Markers(c)' = {}  BY DEF Stage, Markers, Places
  <1> QED  BY <1>1, <1>2, <1>3 DEF Stage, Present

LEMMA JobAtRest ==
    ASSUME JobInv, Rested, UNCHANGED signed  PROVE  JobInv'
  <1>1. CASE job' = <<>>  BY <1>1, NoJob
  <1>2. CASE job' = job
    <2>1. UNCHANGED <<file, history, tail, ledger, torn, signed, job>>  BY <1>2 DEF Rested
    <2>2. ASSUME NEW c \in Candidate, NEW n \in 0..9, Stage(c, n)  PROVE  Stage(c, n)'
      BY <2>1, <2>2, SameStage
    <2> QED  BY <1>2, <2>2 DEF JobInv
  <1> QED  BY <1>1, <1>2 DEF Rested

(* VERIFIED is followed by states that nothing follows.                     *)
LEMMA VerifiedIsLate ==
    ASSUME TypeOK, HistoryIsLegal, NEW c \in Candidate, In(c, "REPRODUCED"),
           NEW k \in DOMAIN history[c]
    PROVE  history[c][k].to # "VERIFIED"
  <1> DEFINE h == history[c]
  <1>1. /\ Len(h) \in Nat /\ DOMAIN h = 1..Len(h) /\ h[Len(h)].to = "REPRODUCED"
        /\ \A i \in 1..Len(h) : i # 1 => h[i].to \in Allowed(h[i - 1].to)
    <2>1. h \in Seq(StateRecord)  BY DEF TypeOK
    <2>2. Len(h) \in Nat /\ DOMAIN h = 1..Len(h)  BY <2>1
    <2>3. h[Len(h)].to = "REPRODUCED"  BY DEF In, CurrentState
    <2>4. \A i \in DOMAIN h : i # 1 => h[i].to \in Allowed(h[i - 1].to)
      BY DEF HistoryIsLegal
    <2> QED  BY <2>2, <2>3, <2>4
  <1> HIDE DEF h
  <1>2. SUFFICES ASSUME h[k].to = "VERIFIED"  PROVE FALSE  BY DEF h
  <1>3. k \in 1..Len(h) /\ k # Len(h)  BY <1>1, <1>2 DEF h
  <1>4. k + 1 \in 1..Len(h) /\ k + 1 # 1 /\ (k + 1) - 1 = k  BY <1>1, <1>3
  <1>5. h[k + 1].to \in {"REVOKED", "STALE"}  BY <1>1, <1>2, <1>4 DEF Allowed
  <1>6. k + 1 # Len(h)  BY <1>1, <1>5
  <1>7. k + 2 \in 1..Len(h) /\ k + 2 # 1 /\ (k + 2) - 1 = k + 1  BY <1>1, <1>4, <1>6
  <1>8. h[k + 2].to \in Allowed(h[k + 1].to)  BY <1>1, <1>7
  <1> QED  BY <1>5, <1>8 DEF Allowed

LEMMA StageBegins ==
    ASSUME TypeOK, HistoryIsLegal, FilesInv, MovesAreRecorded, DOMAIN signed = Candidate,
           NEW k, NEW c \in Candidate, Commit(k, c)
    PROVE  Stage(c, 0)'
  <1>1. /\ UNCHANGED <<store, listing, faults>> /\ job' = CommitWrites(c)
        /\ In(c, "REPRODUCED") /\ GatesPass(c) /\ Uncommitted(c)
        /\ signed' = [signed EXCEPT ![c] = Graph(c)]
    BY DEF Commit, Start
  <1>2. UNCHANGED <<file, history, tail, ledger, torn>>  BY <1>1 DEF store, records
  <1>3. Remain(c, 0)'
    <2>1. Len(CommitWrites(c)) = 10  BY CommitIs
    <2>2. \A i \in 1..10 : 0 + i = i  OBVIOUS
    <2>3. Len(job') = 10 /\ \A i \in 1..10 : job'[i] = CommitWrites(c)[0 + i]
      BY <1>1, <2>1, <2>2
    <2> QED  BY <2>3
      DEF Remain, CommitWrites, Authorization, Artifact, Transition, OneWrite
  <1>4. ~Present(c, "verdict") /\ ~Present(c, "certificate") /\ ~Present(c, "marker")
        /\ {"verdict", "certificate", "marker"} \subseteq FileName
    BY <1>1 DEF Uncommitted, FileName
  <1>5. Verdicts(c) = {} /\ Certificates(c) = {} /\ Markers(c) = {}
    BY <1>4 DEF FilesInv, Verdicts, Certificates, Markers, Places
  <1>6. Verifications(c) = {}
    <2>1. ASSUME NEW i \in Verifications(c)  PROVE  FALSE
      <3>1. i \in MovesOf(c) /\ ledger[i].of = "VERIFIED" /\ i <= i
        BY <2>1 DEF Verifications, Places, MovesOf, TypeOK
      <3>2. tail[c] # "garbled"  BY <1>1 DEF In, Readable
      <3>3. \E m \in DOMAIN history[c] : history[c][m].to = "VERIFIED"
        BY <3>1, <3>2 DEF MovesAreRecorded
      <3> QED  BY <1>1, <3>3, VerifiedIsLate
    <2> QED  BY <2>1
  <1>7. Verdicts(c)' = {} /\ Certificates(c)' = {} /\ Markers(c)' = {}
        /\ Verifications(c)' = {}
    BY <1>2, <1>5, <1>6 DEF Verdicts, Certificates, Markers, Verifications, Places
  <1>8. /\ signed'[c].states[1] = history[c]
        /\ signed'[c].ledger = Len(ledger) /\ Len(ledger) \in Nat
    BY <1>1 DEF Graph, TypeOK
  <1>9. Bound(c, 0)'
    <2>1. HistoryBound(Targets(history[c]), TransitionEvents(c),
                       Len(EventsOf(c, "CANDIDATE_PROPOSED")))
      BY <1>1 DEF GatesPass, LegalHistory, HistoryValid
    <2>2. TransitionEvents(c) = Tail(Targets(history[c]))  BY <2>1 DEF HistoryBound
    <2>3. TransitionEvents(c)' = TransitionEvents(c)
          /\ EventsOf(c, "CANDIDATE_PROPOSED")' = EventsOf(c, "CANDIDATE_PROPOSED")
      BY <1>2 DEF TransitionEvents, EventsOf
    <2> QED  BY <1>2, <1>8, <2>1, <2>2, <2>3 DEF Bound
  <1>10. Issued(c, 0)'  BY <1>2, <1>7, <1>8, <1>9 DEF Issued
  <1> QED  BY <1>3, <1>7, <1>10 DEF Stage

LEMMA TargetsNext ==
    ASSUME NEW h \in Seq(StateRecord), NEW r, r.to \in State
    PROVE  /\ Targets(Append(h, r)) = Append(Targets(h), r.to)
           /\ Targets(h) \in Seq(State) /\ Len(Targets(h)) = Len(h)
           /\ \A i \in 1..Len(h) : Targets(h)[i] = h[i].to
  <1>1. \A i \in 1..Len(h) : h[i].to \in State
    <2>1. \A i \in 1..Len(h) : h[i] \in StateRecord  OBVIOUS
    <2> QED  BY <2>1 DEF StateRecord
  <1>2. Targets(h) \in Seq(State) /\ Len(Targets(h)) = Len(h)  BY <1>1 DEF Targets
  <1>3. Targets(Append(h, r)) = Append(Targets(h), r.to)  BY <1>1 DEF Targets
  <1> QED  BY <1>2, <1>3 DEF Targets

LEMMA CommitNext ==
    ASSUME NEW c \in Candidate, NEW n \in 0..9, Remain(c, n), AllFormed(job)
    PROVE  /\ w.cand = c
           /\ w.kind = IF n \in {0, 2, 8} THEN "file" ELSE IF n \in {1, 3, 5, 9} THEN "event"
                       ELSE IF n = 4 THEN "state" ELSE IF n = 6 THEN "index" ELSE "verify"
           /\ n = 0 => w = Record("file", c, "verdict", "written")
           /\ n = 1 => w = Record("event", c, "verdict", "VERDICT_AUTHORIZED")
           /\ n = 2 => w = Record("file", c, "certificate", "written")
           /\ n = 3 => w = Record("event", c, "certificate", "CERTIFICATE_ISSUED")
           /\ n = 4 => w = Record("state", c, "VERIFIED", "written")
           /\ n = 5 => w = Record("event", c, "VERIFIED", "STATE_TRANSITION")
           /\ n = 8 => w = Record("file", c, "marker", "written")
           /\ n = 9 => w = Record("event", c, "marker", "AUTHORIZATION_COMMITTED")
  <1>1. PICK s : s = CommitWrites(c)  OBVIOUS
  <1>2. w = s[n + 1]  BY <1>1, RemainIs
  <1>3. Commits(s, c)  BY <1>1, CommitIs
  <1>4. CASE n \in {0, 1, 2, 3, 4}  BY <1>2, <1>3, <1>4 DEF Commits, Record
  <1>5. CASE n \in {5, 6, 7, 8, 9}  BY <1>2, <1>3, <1>5 DEF Commits, Record
  <1>6. n \in {0, 1, 2, 3, 4} \/ n \in {5, 6, 7, 8, 9}  OBVIOUS
  <1> QED  BY <1>4, <1>5, <1>6

LEMMA MarkersStay ==
    ASSUME TypeOK, AllFormed(job), Did, NEW c \in Candidate,
           ~(w.kind = "event" /\ w.value = "AUTHORIZATION_COMMITTED" /\ w.cand = c),
           Markers(c) = {}
    PROVE  Markers(c)' = {}
  <1>1. /\ DOMAIN ledger' = 1..Len(ledger')
        /\ \A i \in DOMAIN ledger' :
              \/ i \in DOMAIN ledger /\ ledger'[i] = ledger[i]
              \/ ledger'[i] = Entry(w) /\ w.kind = "event"
    BY LedgerSteps
  <1>2. \A i \in Markers(c)' : i \in Markers(c)  BY <1>1 DEF Markers, Places, Entry
  <1> QED  BY <1>2

LEMMA QuietStage ==
    ASSUME UNCHANGED <<ledger, signed>>, NEW c \in Candidate, history'[c] = history[c],
           tail'[c] = tail[c], NEW n \in {0, 2, 6, 7, 8}, Issued(c, n)
    PROVE  Issued(c, n + 1)'
  <1>1. /\ n < 2 <=> n + 1 < 2
        /\ n < 4 <=> n + 1 < 4
        /\ n < 5 <=> n + 1 < 5
        /\ n < 6 <=> n + 1 < 6
    OBVIOUS
  <1>2. Bound(c, n) => Bound(c, n + 1)'  BY <1>1 DEF Bound, TransitionEvents, EventsOf
  <1> QED  BY <1>1, <1>2 DEF Issued, Verdicts, Certificates, Verifications, Places

LEMMA StateStage ==
    ASSUME TypeOK, UNCHANGED <<ledger, signed>>, NEW c \in Candidate, OnHistory,
           w = Record("state", c, "VERIFIED", "written"), Issued(c, 4)
    PROVE  Issued(c, 5)'
  <1>1. \/ /\ history'[c] = Append(history[c], [to |-> w.of, evidence |-> w.value])
           /\ tail[c] # "garbled"
        \/ tail'[c] = "garbled"
    BY DEF OnHistory, Extended, Record
  <1>2. ASSUME Bound(c, 4), tail'[c] # "garbled"  PROVE  Bound(c, 5)'
    <2>1. history[c] = signed[c].states[1] /\ history[c] \in Seq(StateRecord)
      BY <1>2 DEF Bound, TypeOK
    <2>2. Targets(history'[c]) = Append(Targets(history[c]), "VERIFIED")
      <3>1. PICK r : r = [to |-> w.of, evidence |-> w.value]  OBVIOUS
      <3>2. r.to = "VERIFIED" /\ "VERIFIED" \in State  BY <3>1 DEF Record, State
      <3> QED  BY <1>1, <1>2, <2>1, <3>1, <3>2, TargetsNext
    <2> DEFINE h == signed[c].states[1]  t == Targets(h)
    <2>3. /\ Targets(history[c])' = Targets(history'[c])
          /\ h' = h /\ Targets(h)' = Targets(h)
      BY DEF Targets
    <2>4. /\ TransitionEvents(c)' = TransitionEvents(c)
          /\ EventsOf(c, "CANDIDATE_PROPOSED")' = EventsOf(c, "CANDIDATE_PROPOSED")
      BY DEF TransitionEvents, EventsOf
    <2>5. /\ HistoryBound(t, Tail(t), Len(EventsOf(c, "CANDIDATE_PROPOSED")))
          /\ TransitionEvents(c) = Tail(t)
      BY <1>2 DEF Bound
    <2>6. Targets(history'[c]) = Append(t, "VERIFIED")  BY <2>1, <2>2
    <2> HIDE DEF h, t
    <2>7. /\ HistoryBound(t, Tail(t), Len(EventsOf(c, "CANDIDATE_PROPOSED"))')
          /\ TransitionEvents(c)' = Tail(t)
      BY <2>4, <2>5
    <2> QED  BY <2>3, <2>6, <2>7 DEF Bound, h, t
  <1>3. tail'[c] = "garbled" \/ Bound(c, 5)'  BY <1>1, <1>2 DEF Issued
  <1> QED  BY <1>3 DEF Issued, Verdicts, Certificates, Verifications, Places

LEMMA EventStage ==
    ASSUME TypeOK, UNCHANGED signed, NEW c \in Candidate, history'[c] = history[c],
           tail'[c] = tail[c], NEW n \in {1, 3, 5}, Entry(w) \in Event,
           ledger' = Append(ledger, Entry(w)),
           n = 1 => w = Record("event", c, "verdict", "VERDICT_AUTHORIZED"),
           n = 3 => w = Record("event", c, "certificate", "CERTIFICATE_ISSUED"),
           n = 5 => w = Record("event", c, "VERIFIED", "STATE_TRANSITION"),
           Issued(c, n), signed[c].ledger \in Nat
    PROVE  Issued(c, n + 1)'
  <1> DEFINE e == Entry(w)
  <1>1. /\ e.cand = c
        /\ n = 1 => e.type = "VERDICT_AUTHORIZED" /\ e.of = "verdict"
        /\ n = 3 => e.type = "CERTIFICATE_ISSUED" /\ e.of = "certificate"
        /\ n = 5 => e.type = "STATE_TRANSITION" /\ e.of = "VERIFIED"
    BY DEF Entry, Record
  <1>2. ledger \in Seq(Event) /\ e \in Event /\ ledger' = Append(ledger, e)  BY DEF TypeOK
  <1> HIDE DEF e
  <1>3. Len(ledger) \in Nat /\ Len(ledger') = Len(ledger) + 1  BY <1>2
  <1>4. PICK g \in Nat : g = signed[c].ledger  OBVIOUS
  <1>5. /\ Verdicts(c)' = IF n = 1 THEN Verdicts(c) \cup {Len(ledger) + 1} ELSE Verdicts(c)
        /\ Certificates(c)' =
              IF n = 3 THEN Certificates(c) \cup {Len(ledger) + 1} ELSE Certificates(c)
        /\ Verifications(c)' =
              IF n = 5 THEN Verifications(c) \cup {Len(ledger) + 1} ELSE Verifications(c)
    <2>0. \A T, o : Places(c, T, o)' =
             IF e.cand = c /\ e.type \in T /\ e.of = o
             THEN Places(c, T, o) \cup {Len(ledger) + 1} ELSE Places(c, T, o)
      BY <1>2, PlacesNext
    <2>1. Verdicts(c)' = IF e.cand = c /\ e.type \in {"VERDICT_AUTHORIZED"} /\ e.of = "verdict"
                         THEN Verdicts(c) \cup {Len(ledger) + 1} ELSE Verdicts(c)
      BY <2>0 DEF Verdicts
    <2>2. Certificates(c)' =
             IF e.cand = c /\ e.type \in {"CERTIFICATE_ISSUED"} /\ e.of = "certificate"
             THEN Certificates(c) \cup {Len(ledger) + 1} ELSE Certificates(c)
      BY <2>0 DEF Certificates
    <2>3. Verifications(c)' =
             IF e.cand = c /\ e.type \in {"STATE_TRANSITION"} /\ e.of = "VERIFIED"
             THEN Verifications(c) \cup {Len(ledger) + 1} ELSE Verifications(c)
      BY <2>0 DEF Verifications
    <2> QED  BY <1>1, <2>1, <2>2, <2>3
  <1>6. /\ Len(ledger) = IF n = 1 THEN g ELSE IF n = 3 THEN g + 1 ELSE g + 2
        /\ Verdicts(c) = IF n = 1 THEN {} ELSE {g + 1}
        /\ Certificates(c) = IF n = 5 THEN {g + 2} ELSE {}
        /\ Verifications(c) = {}
    BY <1>4 DEF Issued
  <1>7. ASSUME Bound(c, n)  PROVE  Bound(c, n + 1)'
    <2> DEFINE h == signed[c].states[1]  t == Targets(h)
    <2>1. /\ HistoryBound(t, Tail(t), Len(EventsOf(c, "CANDIDATE_PROPOSED")))
          /\ TransitionEvents(c) = Tail(t)
          /\ IF n < 5 THEN history[c] = h ELSE Targets(history[c]) = Append(t, "VERIFIED")
      BY <1>7 DEF Bound
    <2>2. TransitionEvents(c)' = IF n = 5 THEN Append(Tail(t), "VERIFIED") ELSE Tail(t)
      BY <1>1, <1>2, <2>1, MovesNext
    <2>3. Len(EventsOf(c, "CANDIDATE_PROPOSED"))' = Len(EventsOf(c, "CANDIDATE_PROPOSED"))
      BY <1>1, <1>2, MovesNext
    <2>4. h' = h /\ Targets(h)' = Targets(h)
          /\ Targets(history[c])' = Targets(history[c])
      BY DEF Targets
    <2> HIDE DEF h, t
    <2>5. /\ HistoryBound(t, Tail(t), Len(EventsOf(c, "CANDIDATE_PROPOSED"))')
          /\ TransitionEvents(c)' = IF n + 1 < 6 THEN Tail(t) ELSE Append(Tail(t), "VERIFIED")
          /\ IF n + 1 < 5 THEN history'[c] = h
             ELSE Targets(history'[c]) = Append(t, "VERIFIED")
      <3>1. (n < 5 <=> n + 1 < 5) /\ (n = 5 <=> ~(n + 1 < 6))  OBVIOUS
      <3> QED  BY <2>1, <2>2, <2>3, <3>1
    <2> QED  BY <2>4, <2>5 DEF Bound, h, t
  <1>8. tail'[c] = "garbled" \/ Bound(c, n + 1)'  BY <1>7 DEF Issued
  <1>9. /\ Len(ledger') = g + (IF n + 1 < 2 THEN 0 ELSE IF n + 1 < 4 THEN 1
                               ELSE IF n + 1 < 6 THEN 2 ELSE 3)
        /\ Verdicts(c)' = IF n + 1 < 2 THEN {} ELSE {g + 1}
        /\ Certificates(c)' = IF n + 1 < 4 THEN {} ELSE {g + 2}
        /\ Verifications(c)' = IF n + 1 < 6 THEN {} ELSE {g + 3}
    <2>1. CASE n = 1  BY <1>3, <1>5, <1>6, <2>1
    <2>2. CASE n = 3  BY <1>3, <1>5, <1>6, <2>2
    <2>3. CASE n = 5  BY <1>3, <1>5, <1>6, <2>3
    <2> QED  BY <2>1, <2>2, <2>3
  <1> QED  BY <1>4, <1>8, <1>9 DEF Issued

LEMMA StageStays ==
    ASSUME TypeOK, Good(job), Effect, Did, UNCHANGED signed, job' = Tail(job),
           NEW c \in Candidate, NEW n \in 0..9, n < 9, Stage(c, n), signed[c].ledger \in Nat
    PROVE  Stage(c, n + 1)'
  <1>1. /\ AllFormed(job) /\ Remain(c, n) /\ OnFiles /\ OnHistory
        /\ Markers(c) = {} /\ (torn \/ Issued(c, n))
    BY DEF Good, Stage, Effect
  <1>2. /\ n + 1 \in 0..9 /\ Remain(c, n + 1)'  BY <1>1, RemainIs
  <1>3. /\ w.cand = c
        /\ w.kind = IF n \in {0, 2, 8} THEN "file" ELSE IF n \in {1, 3, 5, 9} THEN "event"
                    ELSE IF n = 4 THEN "state" ELSE IF n = 6 THEN "index" ELSE "verify"
        /\ n = 0 => w = Record("file", c, "verdict", "written")
        /\ n = 1 => w = Record("event", c, "verdict", "VERDICT_AUTHORIZED")
        /\ n = 2 => w = Record("file", c, "certificate", "written")
        /\ n = 3 => w = Record("event", c, "certificate", "CERTIFICATE_ISSUED")
        /\ n = 4 => w = Record("state", c, "VERIFIED", "written")
        /\ n = 5 => w = Record("event", c, "VERIFIED", "STATE_TRANSITION")
        /\ n = 8 => w = Record("file", c, "marker", "written")
    BY <1>1, CommitNext
  <1>4. {"verdict", "certificate", "marker"} \subseteq FileName  BY DEF FileName
  <1>5. \A m \in {"verdict", "certificate", "marker"} :
           Present(c, m) \/ w = Record("file", c, m, "written") => Present(c, m)'
    BY <1>1, <1>4 DEF OnFiles, Present, Record
  <1>6. /\ n + 1 > 0 => Present(c, "verdict")'
        /\ n + 1 > 2 => Present(c, "certificate")'
        /\ n + 1 > 8 => Present(c, "marker")'
    <2>1. (n + 1 > 0 => n > 0 \/ n = 0) /\ (n + 1 > 2 => n > 2 \/ n = 2)
          /\ (n + 1 > 8 => n > 8 \/ n = 8)
      OBVIOUS
    <2> QED  BY <1>3, <1>5, <2>1 DEF Stage
  <1>7. Markers(c)' = {}
    <2>1. ~(w.kind = "event" /\ w.value = "AUTHORIZATION_COMMITTED")
      <3>1. w.kind = "event" => n = 1 \/ n = 3 \/ n = 5  BY <1>3
      <3> QED  BY <1>3, <3>1 DEF Record
    <2> QED  BY <1>1, <2>1, MarkersStay
  <1>8. ASSUME ~torn'  PROVE  Issued(c, n + 1)'
    <2>1. Issued(c, n) /\ ~torn  BY <1>1, <1>8 DEF Did
    <2>2. CASE n \in {0, 2, 6, 7, 8}
      <3>1. w.kind \notin {"event", "state"}  BY <1>3, <2>2
      <3>2. ledger' = ledger /\ history'[c] = history[c] /\ tail'[c] = tail[c]
        BY <1>1, <3>1 DEF Did, OnHistory
      <3> QED  BY <2>1, <2>2, <3>2, QuietStage
    <2>3. CASE n = 4
      <3>1. ledger' = ledger /\ w = Record("state", c, "VERIFIED", "written")
        BY <1>3, <2>3 DEF Did
      <3>2. Issued(c, 5)'  BY <1>1, <2>1, <2>3, <3>1, StateStage
      <3> QED  BY <2>3, <3>2
    <2>4. CASE n \in {1, 3, 5}
      <3>1. w.kind = "event"  BY <1>3, <2>4
      <3>2. history'[c] = history[c] /\ tail'[c] = tail[c]  BY <1>1, <3>1 DEF OnHistory
      <3>3. ledger' = Append(ledger, Entry(w)) /\ Entry(w) \in Event
        <4>1. ledger' = Append(ledger, Entry(w))  BY <1>8, <3>1 DEF Did
        <4>2. ledger' # ledger  BY <4>1 DEF TypeOK
        <4> QED  BY <1>1, <4>1, <4>2, LedgerSteps
      <3> QED  BY <1>3, <2>1, <2>4, <3>2, <3>3, EventStage
    <2>5. n \in {0, 2, 6, 7, 8} \/ n = 4 \/ n \in {1, 3, 5}  OBVIOUS
    <2> QED  BY <2>2, <2>3, <2>4, <2>5
  <1> QED  BY <1>2, <1>6, <1>7, <1>8 DEF Stage

LEMMA JobBehindWrite ==
    ASSUME TypeOK, Good(job), Effect, Did, UNCHANGED signed, JobInv,
           \A c \in Candidate : Authorized(c) => Frozen(c)
    PROVE  JobInv'
  <1>1. AllFormed(job)  BY DEF Good
  <1>2. CASE job' = <<>>  BY <1>2, NoJob
  <1>3. CASE job' = Tail(job) /\ \A i \in 1..Len(job) : job[i] \in Harmless
    <2>1. \A i \in 1..Len(job') : job'[i] \in Harmless
      BY <1>1, <1>3, RestIs, RestAt DEF Did
    <2> QED  BY <2>1 DEF JobInv
  <1>4. ASSUME job' = Tail(job), NEW c \in Candidate, NEW n \in 0..9, Stage(c, n)
        PROVE  JobInv'
    <2>1. Remain(c, n)  BY <1>4 DEF Stage
    <2>2. CASE n = 9  BY <1>1, <1>4, <2>1, <2>2, RemainIs, NoJob
    <2>3. CASE n < 9
      <3>1. signed[c].ledger \in Nat
        BY <1>1, <2>1, CommittingIs DEF Authorized, Frozen, Behind
      <3>2. n + 1 \in 0..9 /\ Stage(c, n + 1)'  BY <1>4, <2>3, <3>1, StageStays
      <3> QED  BY <3>2 DEF JobInv
    <2> QED  BY <2>2, <2>3
  <1> QED  BY <1>2, <1>3, <1>4 DEF JobInv, Did

-----------------------------------------------------------------------------
(* Only a commit authorizes, and there is an expectation before it.        *)

(* A preparation changes nothing but what its caller holds.                 *)
LEMMA AuthorityDoes ==
    ASSUME TypeOK, Good(job), DOMAIN prepared = Kernel, [AuthorityNext]_authorityVars
    PROVE  /\ \/ UNCHANGED signed /\ (Operation \/ (Effect /\ Did) \/ Rested)
              \/ \E k \in Kernel, c \in Candidate : Commit(k, c)
           /\ DOMAIN prepared' = Kernel
  <1>1. CASE UNCHANGED <<prepared, signed>> /\ (Operation \/ (Effect /\ Did) \/ Rested)
    BY <1>1
  <1>2. ASSUME NEW k \in Kernel, NEW c \in Candidate, Prepare(k, c)
        PROVE  UNCHANGED signed /\ Rested /\ DOMAIN prepared' = Kernel
    BY <1>2 DEF Prepare, Rested, vars, store, records, intake
  <1>3. ASSUME NEW k \in Kernel, NEW c \in Candidate, Commit(k, c)
        PROVE  DOMAIN prepared' = Kernel
    BY <1>3 DEF Commit
  <1> QED  BY <1>1, <1>2, <1>3, AuthoritySteps

LEMMA FundedStays ==
    ASSUME TypeOK, Good(job), Funded, Effect, Did  PROVE  Funded'
  <1>1. AllFormed(job) /\ job # <<>> /\ expectations \in Nat  BY DEF Good, Did, TypeOK
  <1>2. w = job[1] /\ 1 \in 1..Len(job)  BY <1>1, NextWrite
  <1>3. expectations > 0 => expectations' > 0  BY <1>1 DEF Did
  <1>4. dirs' # {} => dirs # {} \/ job[1].kind = "mkdir"  BY <1>2 DEF Did
  <1>5. ASSUME NEW i \in 1..Len(job'), job'[i].kind = "mkdir"
        PROVE  \E j \in 1..Len(job) : job[j].kind = "mkdir"
    <2>1. job' = Tail(job)  BY <1>5 DEF Did
    <2> QED  BY <1>1, <1>5, <2>1, RestIs, RestAt
  <1> QED  BY <1>2, <1>3, <1>4, <1>5 DEF Funded

LEMMA FundedAtStart ==
    ASSUME TypeOK, DirInv, Funded, Operation  PROVE  Funded'
  <1>1. UNCHANGED <<dirs, expectations>>  BY OperationStarts DEF store, records
  <1>2. ASSUME NEW S, Proper(job', S), NEW i \in 1..Len(job')  PROVE  job'[i] \in S
    BY <1>2 DEF Proper
  <1>3. CASE \E S : Proper(job', S) /\ \A x \in S : x.kind # "mkdir"
    BY <1>1, <1>2, <1>3 DEF Funded
  <1>4. CASE expectations > 0 \/ dirs # {}  BY <1>1, <1>4 DEF Funded
  <1>5. (\A x \in Observed : x.kind # "mkdir") /\ \A e : \A x \in Expected(e) : x.kind # "mkdir"
    BY DEF Observed, Expected
  <1>6. \A d \in Candidate : Readable(d) => dirs # {}  BY DEF Readable
  <1> QED  BY <1>3, <1>4, <1>5, <1>6, OperationIsProper

LEMMA FundedAtCommit ==
    ASSUME Funded, NEW k, NEW c \in Candidate, Commit(k, c)  PROVE  Funded'
  <1>1. UNCHANGED <<dirs, expectations>> /\ job' = CommitWrites(c)
    BY DEF Commit, Start, store, records
  <1>2. Len(CommitWrites(c)) = 10  BY CommitIs
  <1>3. \A i \in 1..10 : CommitWrites(c)[i].kind # "mkdir"
    <2>1. \A i \in 1..10 :
             CommitWrites(c)[i].kind \in {"file", "event", "state", "index", "verify"}
      BY CommitParts
    <2> QED  BY <2>1
  <1> QED  BY <1>1, <1>2, <1>3 DEF Funded

LEMMA FundedAtRest ==
    ASSUME Funded, Rested  PROVE  Funded'
  BY DEF Funded, Rested

(* A file of a commit is written by the commit of its candidate only.       *)
LEMMA CommitFileWritten ==
    ASSUME Good(job), JobInv, job # <<>>, NEW c \in Candidate, w.cand = c,
           \/ w.kind = "file" /\ w.of \in CommitFile
           \/ w.of = "VERIFIED"
           \/ w.value \in CommitEvent
    PROVE  Committing(c) /\ \E n \in 0..9 : Stage(c, n)
  <1>1. AllFormed(job) /\ w = job[1] /\ 1 \in 1..Len(job)  BY NextWrite DEF Good
  <1>2. w \notin Harmless  BY DEF Harmless
  <1>3. PICK d \in Candidate, n \in 0..9 : Stage(d, n)  BY <1>1, <1>2 DEF JobInv
  <1>4. Remain(d, n)  BY <1>3 DEF Stage
  <1>5. d = c  BY <1>1, <1>4, CommitNext
  <1> QED  BY <1>1, <1>3, <1>4, <1>5, CommittingIs

LEMMA AuthorizedBefore ==
    ASSUME Good(job), JobInv, Effect, Did, NEW c \in Candidate, Authorized(c)'
    PROVE  Authorized(c)
  <1>1. AllFormed(job) /\ job # <<>> /\ OnFiles  BY DEF Good, Did, Effect
  <1>2. CASE Committing(c)'
    <2>1. PICK i \in DOMAIN job' :
             job'[i].value = "AUTHORIZATION_COMMITTED" /\ job'[i].cand = c
      BY <1>2 DEF Committing
    <2>2. job' = Tail(job)  BY <2>1 DEF Did
    <2>3. Rest(job, job') /\ DOMAIN job' = 1..Len(job') /\ DOMAIN job = 1..Len(job)
      BY <1>1, <2>2, RestIs DEF AllFormed
    <2>4. i + 1 \in DOMAIN job /\ job'[i] = job[i + 1]  BY <2>1, <2>3, RestAt
    <2> QED  BY <2>1, <2>4 DEF Authorized, Committing
  <1>3. CASE Present(c, "verdict")'
    <2>1. "verdict" \in FileName  BY DEF FileName
    <2>2. Present(c, "verdict") \/ (w.kind = "file" /\ w.cand = c /\ w.of = "verdict")
      BY <1>1, <1>3, <2>1 DEF OnFiles, Present
    <2> QED  BY <1>1, <2>2, CommitFileWritten DEF Authorized, CommitFile
  <1> QED  BY <1>2, <1>3 DEF Authorized

LEMMA AllFrozenStays ==
    ASSUME TypeOK, Good(job), JobInv, Effect, Did, UNCHANGED signed, AllFrozen
    PROVE  AllFrozen'
  <1>1. ASSUME NEW c \in Candidate, Authorized(c)'  PROVE  Frozen(c)'
    BY <1>1, AuthorizedBefore, FrozenStays DEF AllFrozen
  <1> QED  BY <1>1 DEF AllFrozen

LEMMA AllFrozenAtRest ==
    ASSUME Rested, UNCHANGED signed, AllFrozen  PROVE  AllFrozen'
  <1>1. ASSUME NEW c \in Candidate, Authorized(c)'  PROVE  Frozen(c)'
    <2>1. Authorized(c)  BY <1>1 DEF Authorized, Rested, Present, Committing
    <2> QED  BY <2>1, FrozenAtRest DEF AllFrozen
  <1> QED  BY <1>1 DEF AllFrozen

LEMMA AllFrozenAtStart ==
    ASSUME TypeOK, DirInv, Funded, Operation, UNCHANGED signed, AllFrozen  PROVE  AllFrozen'
  <1>1. UNCHANGED file /\ AllFormed(job')  BY OperationStarts DEF store, Good
  <1>2. \A i \in 1..Len(job') : job'[i] \in Harmless  BY OperationIsHarmless
  <1>3. ASSUME NEW c \in Candidate, Authorized(c)'  PROVE  Frozen(c)'
    <2>1. ~Committing(c)'  BY <1>1, <1>2 DEF Committing, Harmless, CommitEvent, AllFormed
    <2>2. Authorized(c)  BY <1>1, <1>3, <2>1 DEF Authorized, Present
    <2> QED  BY <2>2, FrozenAtStart DEF AllFrozen
  <1> QED  BY <1>3 DEF AllFrozen

LEMMA AllFrozenAtCommit ==
    ASSUME TypeOK, DOMAIN signed = Candidate, FilesInv, NEW k, NEW c \in Candidate,
           Commit(k, c), AllFrozen
    PROVE  AllFrozen'
  <1>1. UNCHANGED file /\ job' = CommitWrites(c)  BY DEF Commit, Start, store
  <1>2. DOMAIN CommitWrites(c) = 1..10 /\ \A i \in 1..10 : CommitWrites(c)[i].cand = c
    <2>1. Len(CommitWrites(c)) = 10 /\ CommitWrites(c) \in Seq(Write)  BY CommitIs
    <2> QED  BY <2>1, CommitParts
  <1>3. ASSUME NEW d \in Candidate, Authorized(d)'  PROVE  Frozen(d)'
    <2>1. d = c \/ Authorized(d)  BY <1>1, <1>2, <1>3 DEF Authorized, Present, Committing
    <2> QED  BY <2>1, FrozenAtCommit DEF AllFrozen
  <1> QED  BY <1>3 DEF AllFrozen

-----------------------------------------------------------------------------
(* What an audit reads, of a candidate that is frozen.                     *)

LEMMA SameAudited ==
    ASSUME UNCHANGED ledger, NEW c  PROVE  Audited(c)
  BY DEF Audited, ArtifactEventsBound, EvidenceEvents, Verdicts, Certificates, Verifications,
         Markers, Places, TransitionEvents, EventsOf

LEMMA OthersAudited ==
    ASSUME ledger \in Seq(Event), NEW e \in Event, ledger' = Append(ledger, e),
           NEW c \in Candidate, ~Evidential(e, c),
           e.cand = c => e.type \notin CommitEvent \cup {"CANDIDATE_PROPOSED", "STATE_TRANSITION"}
    PROVE  Audited(c)
  <1>1. \A x, T, o : (e.cand = x /\ e.type \in T /\ e.of = o)
                        \/ Places(x, T, o)' = Places(x, T, o)
    BY PlacesNext
  <1>2. /\ Places(0, {"KNOWLEDGE_SCAN_COMPLETED"}, "scan")' =
              Places(0, {"KNOWLEDGE_SCAN_COMPLETED"}, "scan")
        /\ Places(1, {"EXPECTATION_RECORDED"}, "expectation")' =
              Places(1, {"EXPECTATION_RECORDED"}, "expectation")
        /\ \A i : Places(i, {"OBSERVATION_RECORDED"}, "observation")' =
              Places(i, {"OBSERVATION_RECORDED"}, "observation")
    BY <1>1 DEF Evidential, IntakeEvent
  <1>3. \A n \in SignedFile : \A T : Places(c, T, n)' = Places(c, T, n)
    BY <1>1 DEF Evidential
  <1>4. {"plan", "environment", "result", "replay_environment", "replay"} \cup Review
           \subseteq SignedFile
    BY SignedFiles
  <1>5. EvidenceEvents(c)' = EvidenceEvents(c)
    <2> DEFINE A == {Places(c, {"REVIEW_RECORDED"}, type) : type \in Review}
               B == {Places(i, {"OBSERVATION_RECORDED"}, "observation") : i \in 1..Found}
               E == {Places(0, {"KNOWLEDGE_SCAN_COMPLETED"}, "scan"),
                     Places(1, {"EXPECTATION_RECORDED"}, "expectation"),
                     Places(c, {"EXPERIMENT_PLANNED"}, "plan"),
                     Places(c, {"EXECUTION_ENVIRONMENT_RECORDED"}, "environment"),
                     Places(c, {"EXPERIMENT_EXECUTED"}, "result"),
                     Places(c, {"REPLAY_ENVIRONMENT_RECORDED",
                                "EXTERNAL_REPLAY_ENVIRONMENT_IMPORTED"}, "replay_environment"),
                     Places(c, {"REPLAY_COMPLETED", "EXTERNAL_REPLAY_IMPORTED"}, "replay")}
    <2>1. A' = A  BY <1>3, <1>4
    <2>2. B' = B  BY <1>2
    <2>3. E' = E  BY <1>2, <1>3, <1>4
    <2>4. EvidenceEvents(c) = E \cup A \cup B  BY DEF EvidenceEvents
    <2>5. EvidenceEvents(c)' = E' \cup A' \cup B'  BY DEF EvidenceEvents
    <2> HIDE DEF A, B, E
    <2> QED  BY <2>1, <2>2, <2>3, <2>4, <2>5
  <1>6. ArtifactEventsBound(c)' = ArtifactEventsBound(c)  BY <1>5 DEF ArtifactEventsBound
  <1>7. UNCHANGED <<Verdicts(c), Certificates(c), Verifications(c), Markers(c)>>
    BY <1>1 DEF Verdicts, Certificates, Verifications, Markers, CommitEvent
  <1>8. /\ TransitionEvents(c)' = TransitionEvents(c)
        /\ Len(EventsOf(c, "CANDIDATE_PROPOSED"))' = Len(EventsOf(c, "CANDIDATE_PROPOSED"))
    BY MovesNext
  <1> QED  BY <1>6, <1>7, <1>8 DEF Audited

(* With its evidence sealed, a candidate's gates are its files, its         *)
(* directory and its history against the ledger.                            *)
LEMMA SealedGates ==
    ASSUME NEW c \in Candidate, Sealed(c)
    PROVE  /\ GatesPass(c) <=> Readable(c) /\ ~torn /\ LegalHistory(c)
           /\ Present(c, "candidate") /\ Present(c, "hypothesis")
  <1>1. /\ Present(c, "candidate") /\ Present(c, "hypothesis")
        /\ \A type \in RequiredReview : Present(c, type)
    BY SignedFiles DEF Sealed, SignedFile
  <1> QED  BY <1>1 DEF Sealed, GatesPass, ReadCandidate, ReviewsApproved

LEMMA IssuanceIs ==
    ASSUME NEW c, signed[c].ledger \in Nat
    PROVE  LET g == signed[c].ledger IN
           IssuanceBound(c) <=> /\ Verdicts(c) = {g + 1} /\ Certificates(c) = {g + 2}
                                /\ Verifications(c) = {g + 3} /\ Markers(c) = {g + 4}
  <1>1. PICK g \in Nat : g = signed[c].ledger  OBVIOUS
  <1>2. (g + 1) + 1 = g + 2 /\ (g + 1) + 2 = g + 3 /\ (g + 1) + 3 = g + 4  OBVIOUS
  <1>3. Verdicts(c) = {g + 1} => g + 1 \in DOMAIN ledger  BY DEF Verdicts, Places
  <1> QED  BY <1>1, <1>2, <1>3
    DEF IssuanceBound, Verdicts, Certificates, Verifications, Markers

LEMMA AuditIs == AuditLaw
  <1> SUFFICES ASSUME NEW c \in Candidate, Sealed(c), signed[c].ledger \in Nat
               PROVE  Audit(c) <=> /\ \A n \in CommitFile : Present(c, n)
                                   /\ In(c, "VERIFIED") /\ ~torn
                                   /\ HistoryAudit(c) /\ ArtifactEventsBound(c)
                                   /\ IssuanceAudit(c)
    BY DEF AuditLaw
  <1>1. In(c, "VERIFIED") =>
          (GatesPass(c) <=> ~torn /\ HistoryAudit(c))
    BY SealedGates DEF In, LegalHistory, HistoryValid, HistoryAudit
  <1>2. \A n \in SignedFile : file[c][n] = signed[c].files[n]  BY DEF Sealed
  <1>3. IssuanceBound(c) <=> IssuanceAudit(c)  BY IssuanceIs DEF IssuanceAudit
  <1> QED  BY <1>1, <1>2, <1>3 DEF Audit, CommitFile

(* An audit comes out the same when the evidence stays sealed and the       *)
(* history and the entries it looks for are the same.                       *)
LEMMA SameAudit ==
    ASSUME NEW c \in Candidate,
           signed'[c] = signed[c], Sealed(c), Sealed(c)', signed[c].ledger \in Nat,
           \A n \in CommitFile : Present(c, n)' = Present(c, n),
           history'[c] = history[c], tail'[c] = tail[c], torn' <=> torn, Audited(c)
    PROVE  Audit(c)' <=> Audit(c)
  <1>1. In(c, "VERIFIED")' = In(c, "VERIFIED")  BY DEF In, Readable, CurrentState, Sealed
  <1>2. Targets(history[c])' = Targets(history[c])  BY DEF Targets
  <1>3. /\ HistoryAudit(c)' = HistoryAudit(c) /\ IssuanceAudit(c)' = IssuanceAudit(c)
        /\ ArtifactEventsBound(c)' = ArtifactEventsBound(c)
    BY <1>2 DEF Audited, HistoryAudit, IssuanceAudit
  <1>4. AuditLaw /\ AuditLaw'
    <2>1. AuditLaw'  BY AuditIs, PTL
    <2> QED  BY <2>1, AuditIs
  <1> QED  BY <1>1, <1>3, <1>4 DEF AuditLaw

LEMMA StoreAudit ==
    ASSUME UNCHANGED <<dirs, file, history, tail, observations, scan, ledger, torn>>,
           NEW c \in Candidate, signed'[c] = signed[c]
    PROVE  /\ Audit(c)' <=> Audit(c)
           /\ In(c, "VERIFIED")' <=> In(c, "VERIFIED")
           /\ Audited(c)
  <1>1. Audited(c)  BY SameAudited
  <1>2. \A s : In(c, s)' <=> In(c, s)  BY DEF In, Readable, CurrentState
  <1>3. GatesPass(c)' <=> GatesPass(c)
    <2>1. ReadCandidate(c)' <=> ReadCandidate(c)  BY DEF ReadCandidate, Readable, Present
    <2>2. IntakeBound' <=> IntakeBound  BY DEF IntakeBound, Noted
    <2>3. /\ ExperimentComplete(c)' <=> ExperimentComplete(c)
          /\ CleanReplayPassed(c)' <=> CleanReplayPassed(c)
          /\ ReviewsApproved(c)' <=> ReviewsApproved(c)
      BY DEF ExperimentComplete, CleanReplayPassed, ReviewsApproved, Present
    <2>4. Targets(history[c])' = Targets(history[c])  BY DEF Targets
    <2>5. LegalHistory(c)' <=> LegalHistory(c)
      BY <1>1, <2>4 DEF Audited, LegalHistory, HistoryValid, Readable, CurrentState, Present
    <2> QED  BY <2>1, <2>2, <2>3, <2>5 DEF GatesPass
  <1>4. IssuanceBound(c)' <=> IssuanceBound(c)  BY DEF IssuanceBound, Places
  <1>5. ArtifactEventsBound(c)' <=> ArtifactEventsBound(c)  BY <1>1 DEF Audited
  <1>6. (\A n \in {"verdict", "certificate", "marker"} : Present(c, n))'
           <=> \A n \in {"verdict", "certificate", "marker"} : Present(c, n)
    BY DEF Present
  <1>7. (\A n \in SignedFile : file[c][n] = signed[c].files[n])'
           <=> \A n \in SignedFile : file[c][n] = signed[c].files[n]
    OBVIOUS
  <1> QED  BY <1>1, <1>2, <1>3, <1>4, <1>5, <1>6, <1>7 DEF Audit

LEMMA AuditStays ==
    ASSUME TypeOK, Good(job), JobInv, Headed(job), Effect, Did, UNCHANGED signed,
           NEW c \in Candidate, Frozen(c), ~Committing(c), ~torn', In(c, "VERIFIED")'
    PROVE  In(c, "VERIFIED") /\ Audited(c) /\ (Audit(c)' <=> Audit(c))
  <1>1. /\ AllFormed(job) /\ job # <<>> /\ w = job[1] /\ 1 \in 1..Len(job) /\ Len(job) \in Nat
        /\ OnFiles /\ OnHistory /\ Spared(job, c) /\ (torn' <=> torn)
    <2>1. AllFormed(job) /\ job # <<>> /\ OnFiles /\ OnHistory /\ Spared(job, c)
      BY DEF Good, Did, Effect, Frozen
    <2>2. w = job[1] /\ 1 \in 1..Len(job) /\ Len(job) \in Nat  BY <2>1, NextWrite
    <2>3. ~torn  BY DEF Did
    <2> QED  BY <2>1, <2>2, <2>3
  <1>2. Sealed(c) /\ Sealed(c)' /\ signed[c].ledger \in Nat
    BY SealedStays DEF Frozen, Behind
  <1>3. w.cand = c => /\ ~(w.kind = "file" /\ w.of \in CommitFile)
                      /\ w.of # "VERIFIED" /\ w.value \notin CommitEvent
    BY <1>1, CommitFileWritten
  <1>4. history'[c] = history[c] /\ tail'[c] = tail[c]
    <2>1. CASE ~(w.kind = "state" /\ w.cand = c)  BY <1>1, <2>1 DEF OnHistory
    <2>2. CASE w.kind = "state" /\ w.cand = c
      <3>1. tail'[c] # "garbled" /\ history'[c][Len(history'[c])].to = "VERIFIED"
        BY DEF In, Readable, CurrentState
      <3>2. history'[c] = Append(history[c], [to |-> w.of, evidence |-> w.value])
        BY <1>1, <2>2, <3>1 DEF OnHistory, Extended
      <3>3. history[c] \in Seq(StateRecord)  BY DEF TypeOK
      <3>4. history'[c][Len(history'[c])].to = w.of  BY <3>2, <3>3
      <3> QED  BY <1>3, <2>2, <3>1, <3>4
    <2> QED  BY <2>1, <2>2
  <1>5. In(c, "VERIFIED")  BY <1>2, <1>4 DEF In, Readable, CurrentState, Sealed
  <1>6. \A n \in CommitFile : Present(c, n)' = Present(c, n)
    <2>1. CommitFile \subseteq FileName  BY DEF CommitFile, FileName
    <2> QED  BY <1>1, <1>3, <2>1 DEF OnFiles, Present
  <1>7. Audited(c)
    <2>1. CASE ledger' = ledger  BY <2>1, SameAudited
    <2>2. CASE ledger' # ledger
      <3> DEFINE e == Entry(w)
      <3>1. w.kind = "event" /\ ledger' = Append(ledger, e) /\ e \in Event
            /\ ledger \in Seq(Event)
        BY <1>1, <2>2, LedgerSteps DEF Did, TypeOK
      <3>2. ~Evidential(e, c) /\ (w.cand = c => w.value # "CANDIDATE_PROPOSED")
        BY <1>1, <3>1, SpareIsNotEvidential
      <3>3. w.cand = c => w.value # "STATE_TRANSITION"
        <4>1. ASSUME w.cand = c, w.value = "STATE_TRANSITION"  PROVE  FALSE
          <5>1. Newest(w.cand, w.of)  BY <1>1, <3>1, <4>1 DEF Headed, IsMove
          <5> QED  BY <1>3, <1>5, <4>1, <5>1 DEF Newest, In, Readable
        <4> QED  BY <4>1
      <3>4. e.cand = w.cand /\ e.type = w.value  BY DEF Entry
      <3> HIDE DEF e
      <3> QED  BY <1>3, <3>1, <3>2, <3>3, <3>4, OthersAudited
    <2> QED  BY <2>1, <2>2
  <1> QED  BY <1>1, <1>2, <1>4, <1>5, <1>6, <1>7, SameAudit

-----------------------------------------------------------------------------
(* The marker, which makes a certificate one that audits.                  *)

LEMMA HistoryBoundNext ==
    ASSUME NEW t \in Seq(State), NEW n, HistoryBound(t, Tail(t), n), t[Len(t)] = "REPRODUCED"
    PROVE  HistoryBound(Append(t, "VERIFIED"), Append(Tail(t), "VERIFIED"), n)
  <1> DEFINE u == Append(t, "VERIFIED")
  <1>1. /\ Len(t) \in Nat /\ Len(t) >= 3 /\ t[1] = "SIGNAL" /\ n = 1
        /\ \A i \in 2..Len(t) : t[i] \in Allowed(t[i - 1])
    BY DEF HistoryBound
  <1>2. /\ Len(u) = Len(t) + 1 /\ u[Len(t) + 1] = "VERIFIED"
        /\ \A i \in 1..Len(t) : u[i] = t[i]
    OBVIOUS
  <1>3. Tail(u) = Append(Tail(t), "VERIFIED")
    <2>1. t # <<>>  BY <1>1
    <2> QED  BY <2>1
  <1> HIDE DEF u
  <1>4. ASSUME NEW i \in 2..Len(u)  PROVE  u[i] \in Allowed(u[i - 1])
    <2>1. CASE i \in 2..Len(t)
      <3>1. i \in 1..Len(t) /\ i - 1 \in 1..Len(t)  BY <1>1, <2>1
      <3> QED  BY <1>1, <1>2, <2>1, <3>1
    <2>2. CASE i = Len(t) + 1
      <3>1. i - 1 = Len(t) /\ Len(t) \in 1..Len(t)  BY <1>1, <2>2
      <3> QED  BY <1>2, <2>2, <3>1 DEF Allowed
    <2> QED  BY <1>1, <1>2, <2>1, <2>2
  <1>5. 1 \in 1..Len(t)  BY <1>1
  <1> QED  BY <1>1, <1>2, <1>3, <1>4, <1>5 DEF HistoryBound, u

LEMMA MarkerCompletes ==
    ASSUME TypeOK, Good(job), Effect, Did, UNCHANGED signed, NEW c \in Candidate,
           Stage(c, 9), Frozen(c), ~torn', In(c, "VERIFIED")', ArtifactEventsBound(c)'
    PROVE  Audit(c)'
  <1>1. /\ AllFormed(job) /\ job # <<>> /\ OnFiles /\ OnHistory /\ ~torn
        /\ Remain(c, 9) /\ Issued(c, 9) /\ Markers(c) = {} /\ 9 \in 0..9
        /\ \A n \in CommitFile : Present(c, n)
    BY DEF Good, Did, Effect, Stage, CommitFile
  <1>2. w = Record("event", c, "marker", "AUTHORIZATION_COMMITTED")  BY <1>1, CommitNext
  <1>3. Sealed(c) /\ Sealed(c)' /\ signed[c].ledger \in Nat
    BY SealedStays DEF Frozen, Behind
  <1>4. history'[c] = history[c] /\ tail'[c] = tail[c]
        /\ ledger' = Append(ledger, Entry(w)) /\ ledger \in Seq(Event)
    BY <1>1, <1>2 DEF OnHistory, Did, Record, TypeOK
  <1>5. Entry(w) \in Event
    <2>1. ledger' # ledger  BY <1>4
    <2> QED  BY <1>1, <2>1, LedgerSteps
  <1> DEFINE e == Entry(w)
  <1>6. e.cand = c /\ e.type = "AUTHORIZATION_COMMITTED" /\ e.of = "marker" /\ e \in Event
        /\ ledger' = Append(ledger, e)
    BY <1>2, <1>4, <1>5 DEF Entry, Record
  <1> HIDE DEF e
  <1>7. \A n \in CommitFile : Present(c, n)'
    <2>1. CommitFile \subseteq FileName  BY DEF CommitFile, FileName
    <2> QED  BY <1>1, <2>1 DEF OnFiles, Present
  <1>8. HistoryAudit(c)'
    <2> DEFINE h == signed[c].states[1]  t == Targets(h)
    <2>1. tail[c] # "garbled"  BY <1>4 DEF In, Readable
    <2>2. /\ HistoryBound(t, Tail(t), Len(EventsOf(c, "CANDIDATE_PROPOSED")))
          /\ TransitionEvents(c) = Append(Tail(t), "VERIFIED")
          /\ Targets(history[c]) = Append(t, "VERIFIED")
      BY <1>1, <2>1 DEF Issued, Bound
    <2>3. t \in Seq(State) /\ t[Len(t)] = "REPRODUCED"
      <3>1. h \in Seq(StateRecord) /\ h # <<>> /\ h[Len(h)].to = "REPRODUCED"
        BY DEF Frozen, Extends
      <3> HIDE DEF h
      <3>2. "VERIFIED" \in State /\ Len(h) \in 1..Len(h)  BY <3>1 DEF State
      <3>3. PICK r : r = [to |-> "VERIFIED"]  OBVIOUS
      <3>4. Targets(h) \in Seq(State) /\ Len(Targets(h)) = Len(h)
            /\ \A i \in 1..Len(h) : Targets(h)[i] = h[i].to
        BY <3>1, <3>2, <3>3, TargetsNext
      <3> QED  BY <3>1, <3>2, <3>4
    <2>4. TransitionEvents(c)' = TransitionEvents(c)
          /\ Len(EventsOf(c, "CANDIDATE_PROPOSED"))' = Len(EventsOf(c, "CANDIDATE_PROPOSED"))
      BY <1>4, <1>6, MovesNext
    <2>5. Targets(history[c])' = Targets(history[c])  BY <1>4 DEF Targets
    <2> HIDE DEF t
    <2>6. HistoryBound(Append(t, "VERIFIED"), Append(Tail(t), "VERIFIED"),
                       Len(EventsOf(c, "CANDIDATE_PROPOSED")))
      BY <2>2, <2>3, HistoryBoundNext
    <2> QED  BY <2>2, <2>4, <2>5, <2>6 DEF HistoryAudit
  <1>9. IssuanceAudit(c)'
    <2>0. \A T, o : Places(c, T, o)' =
             IF e.cand = c /\ e.type \in T /\ e.of = o
             THEN Places(c, T, o) \cup {Len(ledger) + 1} ELSE Places(c, T, o)
      BY <1>4, <1>6, PlacesNext
    <2>1. PICK g \in Nat : g = signed[c].ledger  BY <1>3
    <2>2. /\ Len(ledger) = g + 3 /\ Verdicts(c) = {g + 1} /\ Certificates(c) = {g + 2}
          /\ Verifications(c) = {g + 3}
      BY <1>1, <2>1 DEF Issued
    <2>3. Verdicts(c)' = Verdicts(c) /\ Certificates(c)' = Certificates(c)
          /\ Verifications(c)' = Verifications(c)
      BY <1>6, <2>0 DEF Verdicts, Certificates, Verifications
    <2>4. Markers(c)' = {Len(ledger) + 1}  BY <1>1, <1>6, <2>0 DEF Markers
    <2>5. (g + 3) + 1 = g + 4  OBVIOUS
    <2> QED  BY <2>1, <2>2, <2>3, <2>4, <2>5 DEF IssuanceAudit
  <1>10. AuditLaw'  BY AuditIs, PTL
  <1> QED  BY <1>3, <1>7, <1>8, <1>9, <1>10 DEF AuditLaw

-----------------------------------------------------------------------------
(* The inductive invariant of the authority.                               *)

LEMMA CommittingOnce ==
    ASSUME Good(job), JobInv, NEW c \in Candidate, Committing(c)
    PROVE  \E n \in 0..9 : Stage(c, n)
  <1>1. AllFormed(job)  BY DEF Good
  <1>2. PICK d \in Candidate, n \in 0..9 : Stage(d, n)  BY <1>1, CommittingIs DEF JobInv
  <1>3. d = c  BY <1>1, <1>2, CommittingIs DEF Stage
  <1> QED  BY <1>2, <1>3

LEMMA MarkedFirstStays ==
    ASSUME Good(job), JobInv, Effect, Did, MarkedFirst  PROVE  MarkedFirst'
  <1>1. AllFormed(job) /\ job # <<>> /\ OnFiles  BY DEF Good, Did, Effect
  <1>2. {"marker", "verdict"} \subseteq FileName  BY DEF FileName
  <1>3. ASSUME NEW c \in Candidate, Present(c, "marker")'  PROVE  Present(c, "verdict")
    <2>1. CASE Present(c, "marker")  BY <2>1 DEF MarkedFirst
    <2>2. CASE w.kind = "file" /\ w.cand = c /\ w.of = "marker"
      <3>1. PICK n \in 0..9 : Stage(c, n)  BY <1>1, <2>2, CommitFileWritten DEF CommitFile
      <3>2. n \in {0, 2, 8} /\ n # 0  BY <1>1, <2>2, <3>1, CommitNext DEF Stage, Record
      <3> QED  BY <3>1, <3>2 DEF Stage
    <2>3. Present(c, "marker") \/ (w.kind = "file" /\ w.cand = c /\ w.of = "marker")
      BY <1>1, <1>2, <1>3 DEF OnFiles, Present
    <2> QED  BY <2>1, <2>2, <2>3
  <1>4. \A c \in Candidate : Present(c, "verdict") => Present(c, "verdict")'
    BY <1>1, <1>2 DEF OnFiles, Present
  <1> QED  BY <1>3, <1>4 DEF MarkedFirst

LEMMA MarkedStays ==
    ASSUME TypeOK, Good(job), JobInv, Headed(job), FilesInv, AllFrozen, MarkedFirst,
           Effect, Did, UNCHANGED signed, NEW c \in Candidate, Marked(c)
    PROVE  Marked(c)'
  <1>1. AllFormed(job) /\ job # <<>>  BY DEF Good, Did
  <1> SUFFICES ASSUME (Markers(c) # {})', ~torn', In(c, "VERIFIED")', ArtifactEventsBound(c)'
               PROVE  Audit(c)'
    BY DEF Marked
  <1>2. CASE Markers(c) = {}
    <2>1. w.kind = "event" /\ w.value = "AUTHORIZATION_COMMITTED" /\ w.cand = c
      BY <1>1, <1>2, MarkersStay
    <2>2. Committing(c)  BY <1>1, <2>1, CommitFileWritten DEF CommitEvent
    <2>3. PICK n \in 0..9 : Stage(c, n)  BY <2>2, CommittingOnce
    <2>4. n = 9
      <3>1. n \in {1, 3, 5, 9}  BY <1>1, <2>1, <2>3, CommitNext DEF Stage
      <3>2. n # 1 /\ n # 3 /\ n # 5  BY <1>1, <2>1, <2>3, CommitNext DEF Stage, Record
      <3> QED  BY <3>1, <3>2
    <2>5. Frozen(c)  BY <2>2 DEF AllFrozen, Authorized
    <2> QED  BY <2>3, <2>4, <2>5, MarkerCompletes
  <1>3. CASE Markers(c) # {}
    <2>1. Present(c, "marker")
      <3>1. "marker" \in FileName  BY DEF FileName
      <3> QED  BY <1>3, <3>1 DEF Markers, Places, FilesInv
    <2>2. Frozen(c)  BY <2>1 DEF MarkedFirst, Authorized, AllFrozen
    <2>3. ~Committing(c)  BY <1>3, CommittingOnce DEF Stage
    <2>4. In(c, "VERIFIED") /\ Audited(c) /\ (Audit(c)' <=> Audit(c))
      BY <2>2, <2>3, AuditStays
    <2>5. ~torn  BY DEF Did
    <2> QED  BY <1>3, <2>4, <2>5 DEF Marked, Audited
  <1> QED  BY <1>2, <1>3

LEMMA StoreMarked ==
    ASSUME UNCHANGED <<dirs, file, history, tail, observations, scan, ledger, torn>>
    PROVE  /\ MarkedFirst => MarkedFirst'
           /\ \A c \in Candidate : signed'[c] = signed[c] /\ Marked(c) => Marked(c)'
           /\ \A c \in Candidate : Markers(c) = {} => Marked(c)'
  <1>1. MarkedFirst => MarkedFirst'  BY DEF MarkedFirst, Present
  <1>2. ASSUME NEW c \in Candidate, signed'[c] = signed[c], Marked(c)  PROVE  Marked(c)'
    BY <1>2, StoreAudit DEF Marked, Audited
  <1>3. \A c \in Candidate : Markers(c) = {} => Marked(c)'  BY DEF Marked, Markers, Places
  <1> QED  BY <1>1, <1>2, <1>3

LEMMA AuthorityHolds == AuthorityInit => AInv
  <1> SUFFICES ASSUME AuthorityInit  PROVE AInv  OBVIOUS
  <1>1. Init /\ DOMAIN prepared = Kernel /\ DOMAIN signed = Candidate  BY DEF AuthorityInit
  <1>2. /\ IInv /\ ClaimInv  BY <1>1, InitHolds, ClaimsHold
  <1>3. /\ dirs = {} /\ job = <<>> /\ Len(job) = 0
        /\ \A c \in Candidate, n \in FileName : ~Present(c, n)
    BY <1>1 DEF Init, Present
  <1>4. Funded  BY <1>3 DEF Funded
  <1>5. JobInv  BY <1>3 DEF JobInv
  <1>6. {"verdict", "marker"} \subseteq FileName  BY DEF FileName
  <1>7. AllFrozen /\ MarkedFirst
    BY <1>3, <1>6 DEF AllFrozen, Authorized, Committing, MarkedFirst
  <1>8. \A c \in Candidate : ~In(c, "VERIFIED")  BY <1>3 DEF In, Readable
  <1>9. AllMarked  BY <1>8 DEF AllMarked, Marked
  <1> QED  BY <1>1, <1>2, <1>4, <1>5, <1>7, <1>9 DEF AInv

LEMMA AuthorityNextKeeps == AInv /\ [AuthorityNext]_authorityVars => AInv'
  <1> SUFFICES ASSUME AInv, [AuthorityNext]_authorityVars  PROVE AInv'  OBVIOUS
  <1>1. /\ IInv /\ ClaimInv /\ TypeOK /\ Good(job) /\ HistoryIsLegal /\ DirInv
        /\ DOMAIN prepared = Kernel /\ DOMAIN signed = Candidate
        /\ Headed(job) /\ FilesInv /\ MovesAreRecorded
        /\ Funded /\ JobInv /\ AllFrozen /\ MarkedFirst /\ AllMarked
    BY DEF AInv, IInv, StoreInv, ClaimInv
  <1>2. IInv' /\ ClaimInv'  BY <1>1, AuthorityKeeps
  <1>3. DOMAIN prepared' = Kernel  BY <1>1, AuthorityDoes
  <1>4. CASE UNCHANGED signed /\ Operation
    <2>1. UNCHANGED <<dirs, file, history, tail, observations, scan, ledger, torn>>
      BY <1>1, <1>4, OperationStarts DEF store, records, intake
    <2>2. Funded' /\ JobInv' /\ AllFrozen'
      BY <1>1, <1>4, FundedAtStart, OperationIsHarmless, AllFrozenAtStart
    <2>3. MarkedFirst' /\ AllMarked'  BY <1>1, <1>4, <2>1, StoreMarked DEF AllMarked
    <2> QED  BY <1>1, <1>2, <1>3, <1>4, <2>2, <2>3 DEF AInv
  <1>5. CASE UNCHANGED signed /\ Effect /\ Did
    <2>1. Funded' /\ JobInv' /\ AllFrozen'
      BY <1>1, <1>5, FundedStays, JobBehindWrite, AllFrozenStays DEF AllFrozen
    <2>2. MarkedFirst' /\ AllMarked'
      BY <1>1, <1>5, MarkedFirstStays, MarkedStays DEF AllMarked
    <2> QED  BY <1>1, <1>2, <1>3, <1>5, <2>1, <2>2 DEF AInv
  <1>6. CASE UNCHANGED signed /\ Rested
    <2>1. Funded' /\ JobInv' /\ AllFrozen'
      BY <1>1, <1>6, FundedAtRest, JobAtRest, AllFrozenAtRest
    <2>2. MarkedFirst' /\ AllMarked'  BY <1>1, <1>6, StoreMarked DEF AllMarked, Rested
    <2> QED  BY <1>1, <1>2, <1>3, <1>6, <2>1, <2>2 DEF AInv
  <1>7. ASSUME NEW k \in Kernel, NEW c \in Candidate, Commit(k, c)  PROVE  AInv'
    <2>1. /\ UNCHANGED <<dirs, file, history, tail, observations, scan, ledger, torn>>
          /\ signed' = [signed EXCEPT ![c] = Graph(c)] /\ Uncommitted(c)
      BY <1>7 DEF Commit, Start, store, records, intake
    <2>2. Funded' /\ AllFrozen'  BY <1>1, <1>7, FundedAtCommit, AllFrozenAtCommit
    <2>3. JobInv'
      <3>1. Stage(c, 0)' /\ 0 \in 0..9  BY <1>1, <1>7, StageBegins
      <3> QED  BY <3>1 DEF JobInv
    <2>4. Markers(c) = {}
      <3>1. "marker" \in FileName /\ ~Present(c, "marker")
        BY <2>1 DEF FileName, Uncommitted
      <3> QED  BY <1>1, <3>1 DEF Markers, Places, FilesInv
    <2>5. MarkedFirst' /\ AllMarked'  BY <1>1, <2>1, <2>4, StoreMarked DEF AllMarked
    <2>6. DOMAIN signed' = Candidate  BY <1>1, <2>1
    <2> QED  BY <1>2, <1>3, <2>2, <2>3, <2>5, <2>6 DEF AInv
  <1> QED  BY <1>1, <1>4, <1>5, <1>6, <1>7, AuthorityDoes

LEMMA AuthorityInvariance == AuthoritySpec => []AInv
  <1> QED  BY AuthorityHolds, AuthorityNextKeeps, PTL DEF AuthoritySpec

-----------------------------------------------------------------------------
(* What follows for the authority.                                         *)

(* The evidence of RunStore is as sound with a kernel that commits as it is *)
(* without: no commit, finished or interrupted, makes an illegal history, a *)
(* state without its evidence, a claim of what is not there, or a row of    *)
(* the index that is ahead of the records.                                  *)
THEOREM AuthorityKeepsEvidence ==
    AuthoritySpec =>
        [](TypeOK /\ HistoryIsLegal /\ StateIsEvidenced /\ EventsAreBacked /\ IndexNeverAhead)
  <1>1. ASSUME IInv, ClaimInv
        PROVE  TypeOK /\ HistoryIsLegal /\ StateIsEvidenced /\ EventsAreBacked /\ IndexNeverAhead
    <2>1. TypeOK /\ HistoryIsLegal /\ StateIsEvidenced  BY <1>1 DEF IInv, StoreInv
    <2>2. EventsAreBacked
      BY <1>1 DEF IInv, StoreInv, ClaimInv, FilesInv, FilesAreThere, EventsAreBacked
    <2>3. IndexNeverAhead
      <3> SUFFICES ASSUME NEW c \in Candidate
                   PROVE  \/ index[c] = NoRow \/ tail[c] = "garbled"
                          \/ \E i \in DOMAIN history[c] : history[c][i].to = index[c]
        BY DEF IndexNeverAhead
      <3>1. history[c] \in Seq(StateRecord)  BY <2>1 DEF TypeOK
      <3> QED  BY <1>1, <3>1 DEF IInv, StoreInv, IndexInv, Reached
    <2> QED  BY <2>1, <2>2, <2>3
  <1>2. AInv => TypeOK /\ HistoryIsLegal /\ StateIsEvidenced /\ EventsAreBacked
                 /\ IndexNeverAhead
    BY <1>1 DEF AInv
  <1> QED  BY <1>2, AuthorityInvariance, PTL

LEMMA AuthorizedIsFrozen ==
    ASSUME AInv, NEW c \in Candidate,
           Present(c, "verdict") \/ Verdicts(c) # {} \/ Markers(c) # {} \/ Committing(c)
    PROVE  Frozen(c)
  <1>1. {"verdict", "marker"} \subseteq FileName  BY DEF FileName
  <1>2. (Verdicts(c) # {} => Present(c, "verdict")) /\ (Markers(c) # {} => Present(c, "marker"))
    BY <1>1 DEF AInv, ClaimInv, FilesInv, Verdicts, Markers, Places
  <1> QED  BY <1>2 DEF AInv, MarkedFirst, AllFrozen, Authorized

(* Nothing comes between what the authorities signed and the verdict, for   *)
(* any number of callers, candidates, retries and faults: a verdict is the  *)
(* event directly behind the ledger that was signed, the evidence is the    *)
(* signed one, and the history had only VERIFIED and what follows it added. *)
THEOREM VerdictsFollowSignedGraphs == AuthoritySpec => []VerdictFollowsSignedGraph
  <1>1. AInv => VerdictFollowsSignedGraph
    <2> SUFFICES ASSUME AInv, NEW c \in Candidate, NEW i \in Verdicts(c)
                 PROVE  LET g == signed[c] IN
                        /\ i = g.ledger + 1
                        /\ \A n \in DOMAIN g.files : file[c][n] = g.files[n]
                        /\ SubSeq(history[c], 1, Len(g.states[1])) = g.states[1]
                        /\ \A j \in Len(g.states[1]) + 1..Len(history[c]) :
                              history[c][j].to \in {"VERIFIED", "STALE", "REVOKED"} \cup Rejection
      BY DEF VerdictFollowsSignedGraph, Verdicts
    <2>1. Sealed(c) /\ Extends(c) /\ Behind(c)  BY AuthorizedIsFrozen DEF Frozen
    <2>2. i = signed[c].ledger + 1  BY <2>1 DEF Behind
    <2>3. \A n \in DOMAIN signed[c].files : file[c][n] = signed[c].files[n]
      BY <2>1 DEF Sealed
    <2>4. PICK h : h = signed[c].states[1]  OBVIOUS
    <2>5. /\ h \in Seq(StateRecord) /\ Len(h) <= Len(history[c])
          /\ \A j \in 1..Len(h) : history[c][j] = h[j]
          /\ \A j \in 1..Len(history[c]) : j > Len(h) => history[c][j].to \in Later
      BY <2>1, <2>4 DEF Extends
    <2>6. Len(h) \in Nat /\ Len(history[c]) \in Nat /\ history[c] \in Seq(StateRecord)
      BY <2>5 DEF AInv, IInv, TypeOK
    <2>7. SubSeq(history[c], 1, Len(h)) = h
      <3>1. PICK s : s = history[c]  OBVIOUS
      <3>2. /\ s \in Seq(StateRecord) /\ Len(h) <= Len(s)
            /\ \A j \in 1..Len(h) : s[j] = h[j]
        BY <2>5, <2>6, <3>1
      <3>3. SubSeq(s, 1, Len(h)) = h  BY <2>5, <3>2
      <3> QED  BY <3>1, <3>3
    <2>8. \A j \in Len(h) + 1..Len(history[c]) : j \in 1..Len(history[c]) /\ j > Len(h)
      BY <2>6
    <2>9. Later = {"VERIFIED", "STALE", "REVOKED"} \cup Rejection  BY DEF Later, Rejection
    <2> QED  BY <2>2, <2>3, <2>4, <2>5, <2>7, <2>8, <2>9
  <1> QED  BY <1>1, AuthorityInvariance, PTL

LEMMA EvidenceIsEvidential ==
    ASSUME NEW c \in Candidate
    PROVE  /\ \A places \in EvidenceEvents(c) : \A i \in places :
                 i \in DOMAIN ledger /\ Evidential(ledger[i], c)
           /\ \A i \in Places(c, {"STATE_TRANSITION"}, "REPRODUCED") :
                 i \in DOMAIN ledger /\ Evidential(ledger[i], c)
  <1>1. \A x, T, o : \A i \in Places(x, T, o) :
           i \in DOMAIN ledger /\ ledger[i].cand = x /\ ledger[i].type \in T /\ ledger[i].of = o
    BY DEF Places
  <1>2. {"plan", "environment", "result", "replay_environment", "replay"} \cup Review
           \subseteq SignedFile
    BY SignedFiles
  <1>3. \A n \in SignedFile : \A T : \A i \in Places(c, T, n) :
           i \in DOMAIN ledger /\ Evidential(ledger[i], c)
    BY <1>1 DEF Evidential
  <1>4. \A x, T, o : T \subseteq IntakeEvent => \A i \in Places(x, T, o) :
           i \in DOMAIN ledger /\ Evidential(ledger[i], c)
    BY <1>1 DEF Evidential
  <1>5. \A i \in Places(1, {"EXPECTATION_RECORDED"}, "expectation") :
           i \in DOMAIN ledger /\ Evidential(ledger[i], c)
    BY <1>1 DEF Evidential
  <1>6. \A i \in Places(c, {"STATE_TRANSITION"}, "REPRODUCED") :
           i \in DOMAIN ledger /\ Evidential(ledger[i], c)
    BY <1>1 DEF Evidential
  <1>7. {"KNOWLEDGE_SCAN_COMPLETED"} \subseteq IntakeEvent
        /\ {"OBSERVATION_RECORDED"} \subseteq IntakeEvent
    BY DEF IntakeEvent
  <1>8. ASSUME NEW places \in EvidenceEvents(c)
        PROVE  \A i \in places : i \in DOMAIN ledger /\ Evidential(ledger[i], c)
    <2>1. \/ \E n \in SignedFile : \E T : places = Places(c, T, n)
          \/ \E x, T, o : T \subseteq IntakeEvent /\ places = Places(x, T, o)
          \/ places = Places(1, {"EXPECTATION_RECORDED"}, "expectation")
      BY <1>2, <1>7 DEF EvidenceEvents
    <2> QED  BY <1>3, <1>4, <1>5, <2>1
  <1> QED  BY <1>6, <1>8

(* Every event an audit relies on was in the ledger before the verdict:     *)
(* _audit_certificate compares no positions of evidence events, and need    *)
(* not, because commit_authorization holds the lock and write_once refuses. *)
THEOREM AuditedEvidencePrecedes == AuthoritySpec => []AuditedEvidencePrecedesVerdict
  <1>1. AInv => AuditedEvidencePrecedesVerdict
    <2> SUFFICES ASSUME AInv, NEW c \in Candidate, Audit(c)
                 PROVE  /\ \A places \in EvidenceEvents(c) : \A i \in places :
                              i <= signed[c].ledger
                        /\ \A i \in Places(c, {"STATE_TRANSITION"}, "REPRODUCED") :
                              i <= signed[c].ledger
      BY DEF AuditedEvidencePrecedesVerdict
    <2>1. Frozen(c)  BY AuthorizedIsFrozen DEF Audit
    <2>2. \A i \in DOMAIN ledger : Evidential(ledger[i], c) => i <= signed[c].ledger
      BY <2>1 DEF Frozen, Behind
    <2> QED  BY <2>2, EvidenceIsEvidential
  <1> QED  BY <1>1, AuthorityInvariance, PTL

(* A VERIFIED candidate of an idle run whose certificate does not audit was *)
(* interrupted in its commit, lacks the event of a piece of evidence, or    *)
(* shares its run with a write that was cut short.                          *)
THEOREM UnauditableByFaultOnly == AuthoritySpec => []UnauditableOnlyByFault
  <1>1. AInv => UnauditableOnlyByFault
    BY DEF AInv, AllMarked, Marked, Markers, UnauditableOnlyByFault
  <1> QED  BY <1>1, AuthorityInvariance, PTL

LEMMA AuditedIsMarked ==
    ASSUME AInv, NEW c \in Candidate, Audit(c)
    PROVE  Frozen(c) /\ Markers(c) # {} /\ ~Committing(c) /\ ~torn
           /\ \A n \in CommitFile : Present(c, n)
  <1>1. Frozen(c)  BY AuthorizedIsFrozen DEF Audit
  <1>2. Markers(c) # {}  BY DEF Audit, IssuanceBound, Markers
  <1>3. ~Committing(c)
    <2>1. Good(job) /\ JobInv  BY DEF AInv, IInv
    <2> QED  BY <1>2, <2>1, CommittingOnce DEF Stage
  <1> QED  BY <1>1, <1>2, <1>3 DEF Audit, GatesPass, CommitFile

(* A certificate that audits keeps auditing, whatever is done to other      *)
(* candidates or added to the run, until its candidate is withdrawn or a    *)
(* write that failed part-way spoils the ledger or the history.             *)
THEOREM AuditsAreStable == AuthoritySpec => AuditIsStable
  <1>1. ASSUME AInv, [AuthorityNext]_authorityVars, NEW c \in Candidate, Audit(c),
               ~torn', In(c, "VERIFIED")'
        PROVE  Audit(c)'
    <2>1. /\ TypeOK /\ Good(job) /\ JobInv /\ Headed(job) /\ DOMAIN prepared = Kernel
          /\ DOMAIN signed = Candidate /\ DirInv
      BY <1>1 DEF AInv, IInv, ClaimInv, StoreInv
    <2>2. Frozen(c) /\ ~Committing(c) /\ \A n \in CommitFile : Present(c, n)
      BY <1>1, AuditedIsMarked
    <2>3. CASE UNCHANGED signed /\ Effect /\ Did  BY <1>1, <2>1, <2>2, <2>3, AuditStays
    <2>4. CASE UNCHANGED signed /\ Rested  BY <1>1, <2>4, StoreAudit DEF Rested
    <2>5. CASE UNCHANGED signed /\ Operation
      BY <1>1, <2>1, <2>5, OperationStarts, StoreAudit DEF store, records, intake
    <2>6. ASSUME NEW k \in Kernel, NEW d \in Candidate, Commit(k, d)  PROVE  Audit(c)'
      <3>1. /\ UNCHANGED <<dirs, file, history, tail, observations, scan, ledger, torn>>
            /\ signed' = [signed EXCEPT ![d] = Graph(d)] /\ Uncommitted(d)
        BY <2>6 DEF Commit, Start, store, records, intake
      <3>2. d # c  BY <2>2, <3>1 DEF Uncommitted, CommitFile
      <3>3. signed'[c] = signed[c]  BY <2>1, <3>1, <3>2
      <3> QED  BY <1>1, <3>1, <3>3, StoreAudit
    <2> QED  BY <1>1, <2>1, <2>3, <2>4, <2>5, <2>6, AuthorityDoes
  <1>2. AInv /\ [AuthorityNext]_authorityVars =>
           [\A c \in Candidate : Audit(c) => (Audit(c) \/ torn \/ ~In(c, "VERIFIED"))']_authorityVars
    BY <1>1
  <1> QED  BY <1>2, AuthorityInvariance, PTL DEF AuthoritySpec, AuditIsStable

-----------------------------------------------------------------------------
(* The authority implements module Authorizations: its status, its offers   *)
(* and its actions, over the state of this one.                             *)

LEMMA LoseIs ==
    ASSUME NEW C \in SUBSET Candidate, SameEvidence, UNCHANGED prepared,
           \A c \in C : Status(c) \in {"committing", "valid"}, Becomes(C, "void")
    PROVE  Promise!Lose(C)
  BY DEF Promise!Lose, Promise!Become, Status, Becomes, SameEvidence

LEMMA EndIs ==
    ASSUME NEW c \in Candidate, SameEvidence, UNCHANGED prepared,
           Status(c) = "committing", Becomes({c}, "valid") \/ Becomes({c}, "open")
    PROVE  Promise!End(c)
  BY DEF Promise!End, Promise!Become, Status, Becomes, SameEvidence

LEMMA BeginIs ==
    ASSUME NEW c \in Candidate, SameEvidence, UNCHANGED prepared, Status(c) = "open",
           \A d \in Candidate : Status(d) # "committing",
           [cand |-> c, evidence |-> EvidenceOf(c)] \in Offers,
           Becomes({c}, "committing")
    PROVE  Promise!Begin(c)
  BY DEF Promise!Begin, Promise!Become, Promise!Offer, Status, Becomes, SameEvidence, Offers,
         Offered

LEMMA PrepareIs ==
    ASSUME NEW c \in Candidate, SameEvidence, Becomes({}, "open"),
           NEW kept \in SUBSET Offers,
           Offers' = kept \cup {[cand |-> c, evidence |-> EvidenceOf(c)]}
    PROVE  Promise!Prepare(c)
  BY DEF Promise!Prepare, Promise!Offer, Status, Becomes, SameEvidence, Offers, Offered

LEMMA GatherIs ==
    ASSUME NEW c \in Candidate, Status(c) = "open", Becomes({}, "open"), UNCHANGED prepared,
           \A d \in Candidate : EvidenceOf(d)' \in [SignedFile -> Content],
           \A d \in Candidate \ {c} : EvidenceOf(d)' = EvidenceOf(d)
    PROVE  Promise!Gather(c)
  BY DEF Promise!Gather, Status, Becomes

LEMMA StutterIs ==
    ASSUME SameEvidence, UNCHANGED prepared, Becomes({}, "open")
    PROVE  UNCHANGED Promise!promised
  BY DEF Promise!promised, Status, Becomes, SameEvidence

LEMMA EvidenceTyped ==
    ASSUME TypeOK, NEW c \in Candidate  PROVE  EvidenceOf(c) \in [SignedFile -> Content]
  BY SignedFiles DEF TypeOK, EvidenceOf

LEMMA AuthorityStarts ==
    ASSUME AuthorityInit  PROVE  Promise!Init
  <1>1. AInv  BY AuthorityHolds
  <1>2. \A c \in Candidate : EvidenceOf(c) \in [SignedFile -> Content]
    BY <1>1, EvidenceTyped DEF AInv, IInv
  <1>3. \A k \in Kernel : prepared[k] = Unprepared  BY DEF AuthorityInit
  <1>4. job = <<>> /\ \A c \in Candidate, n \in FileName : ~Present(c, n)
    BY DEF AuthorityInit, Init, Present
  <1>5. "verdict" \in FileName  BY DEF FileName
  <1>6. \A c \in Candidate : Status(c) = "open"  BY <1>4, <1>5 DEF Status, Committing, Audit
  <1> QED  BY <1>2, <1>3, <1>6 DEF Promise!Init, Status

LEMMA CommitsAlone ==
    ASSUME AInv, NEW c \in Candidate, NEW d \in Candidate, Committing(c), Committing(d)
    PROVE  c = d
  <1>1. AllFormed(job) /\ Good(job) /\ JobInv  BY DEF AInv, IInv, Good
  <1>2. PICK n \in 0..9 : Stage(c, n)  BY <1>1, CommittingOnce
  <1> QED  BY <1>1, <1>2, CommittingIs DEF Stage

(* The store unchanged, only who is committing can make a difference.       *)
LEMMA StoreStatus ==
    ASSUME UNCHANGED <<dirs, file, history, tail, observations, scan, ledger, torn>>
    PROVE  /\ SameEvidence
           /\ \A c \in Candidate : signed'[c] = signed[c] /\ Committing(c)' = Committing(c)
                 => Status(c)' = Status(c)
  <1>1. SameEvidence  BY DEF SameEvidence, EvidenceOf
  <1>2. ASSUME NEW c \in Candidate, signed'[c] = signed[c], Committing(c)' = Committing(c)
        PROVE  Status(c)' = Status(c)
    BY <1>2, StoreAudit DEF Status, Present
  <1> QED  BY <1>1, <1>2

LEMMA StartImplements ==
    ASSUME AInv, UNCHANGED <<prepared, signed>>, Operation
    PROVE  UNCHANGED Promise!promised
  <1>1. TypeOK /\ DirInv  BY DEF AInv, IInv, StoreInv
  <1>2. /\ UNCHANGED <<dirs, file, history, tail, observations, scan, ledger, torn>>
        /\ AllFormed(job') /\ job = <<>>
    BY <1>1, OperationStarts DEF store, records, intake, Good
  <1>3. \A i \in 1..Len(job') : job'[i] \in Harmless  BY <1>1, OperationIsHarmless
  <1>4. ASSUME NEW c \in Candidate  PROVE  ~Committing(c) /\ ~Committing(c)'
    BY <1>2, <1>3 DEF Committing, Harmless, CommitEvent, AllFormed
  <1>5. \A c \in Candidate : Status(c)' = Status(c)
    <2>1. \A c \in Candidate : Committing(c)' = Committing(c)  BY <1>4 DEF Committing
    <2> QED  BY <1>2, <2>1, StoreStatus
  <1>6. SameEvidence  BY <1>2, StoreStatus
  <1> QED  BY <1>5, <1>6, StutterIs DEF Becomes

LEMMA PrepareImplements ==
    ASSUME NEW k \in Kernel, NEW c \in Candidate, Prepare(k, c), DOMAIN prepared = Kernel
    PROVE  Promise!Prepare(c)
  <1>1. /\ UNCHANGED <<dirs, file, history, tail, observations, scan, ledger, torn, signed, job>>
        /\ prepared' = [prepared EXCEPT ![k] = Graph(c)]
    BY DEF Prepare, vars, store, records, intake
  <1>2. SameEvidence /\ Becomes({}, "open")
    <2>1. \A d \in Candidate : Committing(d)' = Committing(d)  BY <1>1 DEF Committing
    <2> QED  BY <1>1, <2>1, StoreStatus DEF Becomes
  <1> DEFINE kept == {Offered(prepared[m]) : m \in {l \in Kernel \ {k} : prepared[l] # Unprepared}}
  <1>3. kept \in SUBSET Offers  BY DEF Offers
  <1>4. Graph(c) # Unprepared /\ Offered(Graph(c)) = [cand |-> c, evidence |-> EvidenceOf(c)]
    <2>1. Graph(c).cand = c /\ Graph(c).files = EvidenceOf(c)  BY DEF Graph, EvidenceOf
    <2>2. Unprepared.cand = 0 /\ c # 0  BY DEF Unprepared, Candidate
    <2> QED  BY <2>1, <2>2 DEF Offered
  <1>5. prepared'[k] = Graph(c) /\ \A l \in Kernel \ {k} : prepared'[l] = prepared[l]
    BY <1>1
  <1>6. Offers' = kept \cup {Offered(Graph(c))}
    <2>1. Offers' = {Offered(prepared'[m]) : m \in {l \in Kernel : prepared'[l] # Unprepared}}
      BY DEF Offers, Offered, Unprepared
    <2> HIDE DEF kept
    <2>2. ASSUME NEW o \in Offers'  PROVE  o \in kept \cup {Offered(Graph(c))}
      <3>1. PICK m \in Kernel : prepared'[m] # Unprepared /\ o = Offered(prepared'[m])
        BY <2>1, <2>2
      <3> QED  BY <1>5, <3>1 DEF kept
    <2>3. ASSUME NEW o \in kept  PROVE  o \in Offers'
      <3>1. PICK m \in Kernel \ {k} : prepared[m] # Unprepared /\ o = Offered(prepared[m])
        BY <2>3 DEF kept
      <3> QED  BY <1>5, <2>1, <3>1
    <2>4. Offered(Graph(c)) \in Offers'  BY <1>4, <1>5, <2>1
    <2> QED  BY <2>2, <2>3, <2>4
  <1> QED  BY <1>2, <1>3, <1>4, <1>6, PrepareIs

LEMMA CommitImplements ==
    ASSUME AInv, NEW k \in Kernel, NEW c \in Candidate, Commit(k, c)
    PROVE  Promise!Begin(c)
  <1>1. /\ UNCHANGED <<dirs, file, history, tail, observations, scan, ledger, torn, prepared>>
        /\ signed' = [signed EXCEPT ![c] = Graph(c)] /\ Uncommitted(c)
        /\ job = <<>> /\ job' = CommitWrites(c) /\ Graph(c) = prepared[k]
    BY DEF Commit, Start, store, records, intake
  <1>2. \A d \in Candidate : ~Committing(d) /\ Status(d) # "committing"
    BY <1>1 DEF Committing, Status
  <1>3. Status(c) = "open"  BY <1>1, <1>2 DEF Status, Uncommitted, Audit
  <1>4. SameEvidence  BY <1>1, StoreStatus
  <1>5. [cand |-> c, evidence |-> EvidenceOf(c)] \in Offers
    <2>1. Graph(c).cand = c /\ Graph(c).files = EvidenceOf(c)  BY DEF Graph, EvidenceOf
    <2>2. Unprepared.cand = 0 /\ c # 0  BY DEF Unprepared, Candidate
    <2>3. prepared[k] # Unprepared
          /\ Offered(prepared[k]) = [cand |-> c, evidence |-> EvidenceOf(c)]
      BY <1>1, <2>1, <2>2 DEF Offered
    <2> QED  BY <2>3 DEF Offers
  <1>6. Status(c)' = "committing"
    <2>1. DOMAIN CommitWrites(c) = 1..10 /\ 10 \in 1..10  BY CommitIs
    <2>2. CommitWrites(c)[10].value = "AUTHORIZATION_COMMITTED" /\ CommitWrites(c)[10].cand = c
      BY <2>1, CommitParts
    <2> QED  BY <1>1, <2>1, <2>2 DEF Status, Committing
  <1>7. ASSUME NEW d \in Candidate, d # c  PROVE  Status(d)' = Status(d)
    <2>1. DOMAIN CommitWrites(c) = 1..10  BY CommitIs
    <2>2. \A i \in 1..10 : CommitWrites(c)[i].cand = c  BY CommitParts
    <2>3. ~Committing(d)'  BY <1>1, <1>7, <2>1, <2>2 DEF Committing
    <2>4. Committing(d)' = Committing(d)  BY <1>2, <2>3 DEF Committing
    <2>5. signed'[d] = signed[d]  BY <1>1, <1>7 DEF AInv
    <2> QED  BY <1>1, <2>4, <2>5, StoreStatus
  <1>8. Becomes({c}, "committing")  BY <1>6, <1>7 DEF Becomes
  <1> QED  BY <1>1, <1>2, <1>3, <1>4, <1>5, <1>8, BeginIs

LEMMA CommittingIsUnmarked ==
    ASSUME AInv, NEW c \in Candidate, Committing(c)  PROVE  Markers(c) = {} /\ ~Audit(c)
  <1>1. Good(job) /\ JobInv  BY DEF AInv, IInv
  <1>2. Markers(c) = {}  BY <1>1, CommittingOnce DEF Stage
  <1> QED  BY <1>2 DEF Audit, IssuanceBound, Markers

LEMMA RestImplements ==
    ASSUME AInv, UNCHANGED <<prepared, signed>>, Rested
    PROVE  \/ \E c \in Candidate : Promise!End(c)
           \/ \E C \in SUBSET Candidate : Promise!Lose(C)
  <1>1. /\ UNCHANGED <<dirs, file, history, tail, observations, scan, ledger, torn>>
        /\ job' \in {job, <<>>}
    BY DEF Rested
  <1>2. SameEvidence  BY <1>1, StoreStatus
  <1>3. ASSUME NEW d \in Candidate, Committing(d)' = Committing(d)
        PROVE  Status(d)' = Status(d)
    BY <1>1, <1>3, StoreStatus
  <1>4. CASE \A d \in Candidate : Committing(d)' = Committing(d)
    <2>1. Becomes({}, "void") /\ {} \in SUBSET Candidate  BY <1>3, <1>4 DEF Becomes
    <2> QED  BY <1>2, <2>1, LoseIs
  <1>5. CASE job' = <<>>
    <2>1. \A d \in Candidate : ~Committing(d)'  BY <1>5 DEF Committing
    <2>2. CASE \A d \in Candidate : ~Committing(d)
      <3>1. \A d \in Candidate : Committing(d)' = Committing(d)
        BY <2>1, <2>2 DEF Committing
      <3> QED  BY <1>4, <3>1
    <2>3. ASSUME NEW c \in Candidate, Committing(c)
          PROVE  \/ Promise!End(c)
                 \/ \E C \in SUBSET Candidate : Promise!Lose(C)
      <3>1. Status(c) = "committing"  BY <2>3 DEF Status
      <3>2. ~Audit(c)'  BY <1>1, <2>3, CommittingIsUnmarked, StoreAudit
      <3>3. Status(c)' \in {"void", "open"}  BY <2>1, <3>2 DEF Status
      <3>4. ASSUME NEW d \in Candidate, d # c  PROVE  Status(d)' = Status(d)
        <4>1. ~Committing(d)  BY <2>3, <3>4, CommitsAlone
        <4>2. Committing(d)' = Committing(d)  BY <2>1, <4>1 DEF Committing
        <4> QED  BY <1>3, <4>2
      <3>5. CASE Status(c)' = "open"
        <4>1. Becomes({c}, "open")  BY <3>4, <3>5 DEF Becomes
        <4> QED  BY <1>2, <3>1, <4>1, EndIs
      <3>6. CASE Status(c)' = "void"
        <4>1. Becomes({c}, "void") /\ {c} \in SUBSET Candidate  BY <3>4, <3>6 DEF Becomes
        <4> QED  BY <1>2, <3>1, <4>1, LoseIs
      <3> QED  BY <3>3, <3>5, <3>6
    <2> QED  BY <2>2, <2>3
  <1>6. CASE job' = job  BY <1>4, <1>6 DEF Committing
  <1> QED  BY <1>1, <1>5, <1>6

(* A write neither makes an audit succeed that failed, but the commit's     *)
(* own, nor a commit begin.                                                 *)
LEMMA AuditBefore ==
    ASSUME AInv, UNCHANGED signed, Effect, Did, NEW d \in Candidate, ~Committing(d), Audit(d)'
    PROVE  Audit(d)
  <1>1. TypeOK /\ Good(job) /\ JobInv /\ Headed(job) /\ AllFrozen
    BY DEF AInv, IInv, ClaimInv
  <1>2. Present(d, "verdict")' /\ ~torn' /\ In(d, "VERIFIED")'  BY DEF Audit, GatesPass
  <1>3. Authorized(d)  BY <1>1, <1>2, AuthorizedBefore DEF Authorized
  <1> QED  BY <1>1, <1>2, <1>3, AuditStays DEF AllFrozen

LEMMA AuditAfter ==
    ASSUME AInv, UNCHANGED signed, Effect, Did, w.kind # "state", ~torn',
           NEW d \in Candidate, Audit(d)
    PROVE  Audit(d)'
  <1>1. TypeOK /\ Good(job) /\ JobInv /\ Headed(job)  BY DEF AInv, IInv, ClaimInv
  <1>2. Frozen(d) /\ ~Committing(d)  BY AuditedIsMarked
  <1>3. In(d, "VERIFIED")'
    BY DEF Audit, In, Readable, CurrentState, Effect, OnHistory, OnFiles
  <1> QED  BY <1>1, <1>2, <1>3, AuditStays

LEMMA CommittingBefore ==
    ASSUME AInv, Did, NEW d \in Candidate, Committing(d)'  PROVE  Committing(d)
  <1>1. AllFormed(job) /\ job # <<>>  BY DEF AInv, IInv, Good, Did
  <1>2. PICK i \in DOMAIN job' :
           job'[i].value = "AUTHORIZATION_COMMITTED" /\ job'[i].cand = d
    BY DEF Committing
  <1>3. job' = Tail(job)  BY <1>2 DEF Did
  <1>4. Rest(job, job') /\ DOMAIN job' = 1..Len(job') /\ DOMAIN job = 1..Len(job)
    BY <1>1, <1>3, RestIs DEF AllFormed
  <1>5. i + 1 \in DOMAIN job /\ job'[i] = job[i + 1]  BY <1>2, <1>4, RestAt
  <1> QED  BY <1>2, <1>5 DEF Committing

(* Evidence is written of candidates that are open, and of no others.       *)
LEMMA GatherImplements ==
    ASSUME AInv, TypeOK', UNCHANGED <<prepared, signed>>, Effect, Did,
           w.kind = "file", w.of \in SignedFile
    PROVE  \E c \in Candidate : Promise!Gather(c)
  <1>1. AllFormed(job) /\ Good(job) /\ JobInv /\ job # <<>> /\ OnFiles /\ AllFrozen
        /\ torn' = torn
    BY DEF AInv, IInv, Good, Did, Effect
  <1>2. w.cand \in Candidate /\ w.of \in FileName  BY <1>1, NextWrite DEF Formed
  <1>3. PICK c \in Candidate : c = w.cand  BY <1>2
  <1>4. ~Authorized(c)  BY <1>1, <1>3 DEF AllFrozen, Frozen, Sealed, OnFiles
  <1>5. Status(c) = "open"  BY <1>4 DEF Status, Authorized, Audit
  <1>6. ASSUME NEW d \in Candidate  PROVE  ~Committing(d) /\ ~Committing(d)'
    <2>1. ~Committing(d)
      <3>1. ASSUME NEW n \in 0..9, Remain(d, n)  PROVE  FALSE
        <4>1. n \in {0, 2, 8}  BY <1>1, <3>1, CommitNext
        <4>2. w.of \in CommitFile  BY <1>1, <3>1, <4>1, CommitNext DEF Record, CommitFile
        <4> QED  BY <4>2, SignedFiles
      <3> QED  BY <1>1, <3>1, CommittingOnce DEF Stage
    <2> QED  BY <2>1, CommittingBefore
  <1>7. ASSUME NEW d \in Candidate  PROVE  Status(d)' = Status(d)
    <2>1. Present(d, "verdict")' <=> Present(d, "verdict")
      <3>1. w.of # "verdict" /\ "verdict" \in FileName
        BY SignedFiles DEF CommitFile, FileName
      <3> QED  BY <1>1, <3>1 DEF OnFiles, Present
    <2>2. Audit(d)' => Audit(d)  BY <1>6, AuditBefore
    <2>3. Audit(d) => Audit(d)'
      <3>1. Audit(d) => ~torn'  BY <1>1, AuditedIsMarked
      <3> QED  BY <3>1, AuditAfter
    <2> QED  BY <1>6, <2>1, <2>2, <2>3 DEF Status
  <1>8. \A d \in Candidate : EvidenceOf(d)' \in [SignedFile -> Content]
    BY SignedFiles DEF TypeOK, EvidenceOf
  <1>9. \A d \in Candidate \ {c} : EvidenceOf(d)' = EvidenceOf(d)
    BY <1>1, <1>3, SignedFiles DEF OnFiles, EvidenceOf
  <1>10. Becomes({}, "open")  BY <1>7 DEF Becomes
  <1> QED  BY <1>5, <1>8, <1>9, <1>10, GatherIs

LEMMA WriteImplements ==
    ASSUME AInv, TypeOK', UNCHANGED <<prepared, signed>>, Effect, Did
    PROVE  \/ \E c \in Candidate : Promise!Gather(c) \/ Promise!End(c)
           \/ \E C \in SUBSET Candidate : Promise!Lose(C)
  <1>1. AllFormed(job) /\ Good(job) /\ JobInv /\ job # <<>> /\ OnFiles /\ AllFrozen
        /\ "verdict" \in FileName
    BY DEF AInv, IInv, Good, Did, Effect, FileName
  <1>2. CASE w.kind = "file" /\ w.of \in SignedFile  BY <1>2, GatherImplements
  <1>3. CASE ~(w.kind = "file" /\ w.of \in SignedFile)
    <2>1. SameEvidence  BY <1>1, <1>3, SignedFiles DEF OnFiles, SameEvidence, EvidenceOf
    <2>2. \A d \in Candidate : Present(d, "verdict") => Present(d, "verdict")'
      BY <1>1 DEF OnFiles, Present
    <2>3. ASSUME NEW c \in Candidate, Committing(c), Status(c)' \in {"valid", "open"}
          PROVE  Promise!End(c)
      <3>1. PICK n \in 0..9 : Stage(c, n)  BY <1>1, <2>3, CommittingOnce
      <3>2. Present(c, "verdict")' \/ Committing(c)'
        <4>1. CASE n = 0
          <5>1. w = Record("file", c, "verdict", "written")
            BY <1>1, <3>1, <4>1, CommitNext DEF Stage
          <5> QED  BY <1>1, <5>1 DEF Record, OnFiles, Present
        <4>2. CASE n # 0  BY <2>2, <3>1, <4>2 DEF Stage
        <4> QED  BY <4>1, <4>2
      <3>3. Audit(c)' /\ Status(c)' = "valid" /\ ~Committing(c)'  BY <2>3, <3>2 DEF Status
      <3>4. Markers(c)' # {} /\ ~torn'  BY <3>3 DEF Audit, IssuanceBound, Markers, GatesPass
      <3>5. w.kind = "event"
        <4>1. TypeOK /\ Markers(c) = {}  BY <2>3, CommittingIsUnmarked DEF AInv, IInv
        <4> QED  BY <1>1, <3>4, <4>1, MarkersStay
      <3>6. ASSUME NEW d \in Candidate, d # c  PROVE  Status(d)' = Status(d)
        <4>1. ~Committing(d)  BY <2>3, <3>6, CommitsAlone
        <4>2. ~Committing(d)'  BY <4>1, CommittingBefore
        <4>3. Audit(d)' <=> Audit(d)  BY <3>4, <3>5, <4>1, AuditBefore, AuditAfter
        <4>4. Present(d, "verdict")' <=> Present(d, "verdict")
          BY <1>1, <3>5 DEF OnFiles, Present
        <4> QED  BY <4>1, <4>2, <4>3, <4>4 DEF Status
      <3>7. Becomes({c}, "valid") /\ Status(c) = "committing"
        BY <2>3, <3>3, <3>6 DEF Becomes, Status
      <3> QED  BY <2>1, <3>7, EndIs
    <2>4. CASE \A c \in Candidate : Committing(c) => Status(c)' \notin {"valid", "open"}
      <3>1. ASSUME NEW d \in Candidate, Status(d)' # Status(d)
            PROVE  Status(d) \in {"committing", "valid"} /\ Status(d)' = "void"
        <4>1. CASE Committing(d)  BY <2>4, <3>1, <4>1 DEF Status
        <4>2. CASE ~Committing(d) /\ Present(d, "verdict")
          <5>1. ~Committing(d)'  BY <4>2, CommittingBefore
          <5>2. Audit(d)' => Audit(d)  BY <4>2, AuditBefore
          <5> QED  BY <2>2, <3>1, <4>2, <5>1, <5>2 DEF Status
        <4>3. CASE ~Committing(d) /\ ~Present(d, "verdict")
          <5>1. ~Authorized(d)'  BY <1>1, <4>3, AuthorizedBefore DEF Authorized
          <5>2. Status(d)' = "open" /\ Status(d) = "open"
            BY <4>3, <5>1 DEF Authorized, Status, Audit
          <5> QED  BY <3>1, <5>2
        <4> QED  BY <4>1, <4>2, <4>3
      <3> DEFINE C == {d \in Candidate : Status(d)' # Status(d)}
      <3>2. C \in SUBSET Candidate /\ Becomes(C, "void")
            /\ \A c \in C : Status(c) \in {"committing", "valid"}
        BY <3>1 DEF Becomes
      <3> HIDE DEF C
      <3> QED  BY <2>1, <3>2, LoseIs
    <2> QED  BY <2>3, <2>4
  <1> QED  BY <1>2, <1>3

(* authority.py keeps what module Authorizations promises: evidence is      *)
(* frozen from the beginning of a commit on, one commit is carried out at a *)
(* time and over what was prepared, and neither an interrupted commit nor a *)
(* certificate that ceased to audit is ever made good.                      *)
THEOREM AuthorityImplements == AuthoritySpec => ImplementsAuthorizations
  <1>1. AuthorityInit => Promise!Init  BY AuthorityStarts
  <1>2. ASSUME AInv, AInv', [AuthorityNext]_authorityVars
        PROVE  Promise!Next \/ UNCHANGED Promise!promised
    <2>1. TypeOK /\ TypeOK' /\ Good(job) /\ DOMAIN prepared = Kernel  BY <1>2 DEF AInv, IInv
    <2>2. CASE UNCHANGED <<prepared, signed>> /\ Operation  BY <1>2, <2>2, StartImplements
    <2>3. CASE UNCHANGED <<prepared, signed>> /\ Effect /\ Did
      BY <1>2, <2>1, <2>3, WriteImplements DEF Promise!Next
    <2>4. CASE UNCHANGED <<prepared, signed>> /\ Rested
      BY <1>2, <2>4, RestImplements DEF Promise!Next
    <2>5. ASSUME NEW k \in Kernel, NEW c \in Candidate, Prepare(k, c)
          PROVE  Promise!Prepare(c)
      BY <2>1, <2>5, PrepareImplements
    <2>6. ASSUME NEW k \in Kernel, NEW c \in Candidate, Commit(k, c)
          PROVE  Promise!Begin(c)
      BY <1>2, <2>6, CommitImplements
    <2> QED  BY <1>2, <2>1, <2>2, <2>3, <2>4, <2>5, <2>6, AuthoritySteps DEF Promise!Next
  <1>3. AInv /\ AInv' /\ [AuthorityNext]_authorityVars => [Promise!Next]_Promise!promised
    BY <1>2
  <1> QED  BY <1>1, <1>3, AuthorityInvariance, PTL
           DEF AuthoritySpec, ImplementsAuthorizations, Promise!Spec

-----------------------------------------------------------------------------
(* What the operation in progress will still bring, selected like entries   *)
(* of the ledger.                                                           *)

LEMMA SelectedNothing ==
    ASSUME NEW c, NEW type  PROVE  Selected(<<>>, c, type) = <<>>
  <1>1. Len(<<>>) = 0 /\ 0 \in Nat  OBVIOUS
  <1>2. PICK f : UpTo(f, <<>>, c, type, 0) /\ Selected(<<>>, c, type) = f[0]
    BY <1>1, SelectedIs
  <1> QED  BY <1>1, <1>2, UpToFirst

LEMMA SplitLast ==
    ASSUME NEW S, NEW x \in Seq(S), Len(x) # 0
    PROVE  \E y \in Seq(S), e \in S : x = Append(y, e) /\ Len(y) = Len(x) - 1
  <1>1. PICK n \in Nat : n = Len(x)  OBVIOUS
  <1>2. n \in 1..n /\ n - 1 \in Nat /\ x[n] \in S  BY <1>1
  <1>3. PICK y : y = SubSeq(x, 1, n - 1)  OBVIOUS
  <1>4. y \in Seq(S) /\ Len(y) = n - 1 /\ \A i \in 1..n - 1 : y[i] = x[i]
    <2>1. \A i \in 1..n - 1 : i \in 1..Len(x)  BY <1>1
    <2> QED  BY <1>1, <1>2, <1>3, <2>1
  <1>5. PICK e \in S : e = x[n]  BY <1>2
  <1>6. PICK z \in Seq(S) : z = Append(y, e)
    <2>1. PICK u \in Seq(S) : u = y  BY <1>4
    <2>2. Append(u, e) \in Seq(S)  OBVIOUS
    <2> QED  BY <2>1, <2>2
  <1>7. Len(z) = n /\ z[n] = x[n] /\ \A i \in 1..n - 1 : z[i] = x[i]
    BY <1>2, <1>4, <1>5, <1>6
  <1>8. x = z
    <2>1. \A i \in 1..n : i = n \/ i \in 1..n - 1  OBVIOUS
    <2>2. Len(z) = Len(x) /\ \A i \in 1..Len(x) : z[i] = x[i]  BY <1>1, <1>7, <2>1
    <2> QED  BY <2>2
  <1> QED  BY <1>1, <1>4, <1>6, <1>8

LEMMA ConcatTyped ==
    ASSUME NEW S, NEW a \in Seq(S), NEW b \in Seq(S)  PROVE  a \o b \in Seq(S)
  OBVIOUS

LEMMA AppendBehind ==
    ASSUME NEW S, NEW a \in Seq(S), NEW y \in Seq(S), NEW e \in S
    PROVE  a \o Append(y, e) = Append(a \o y, e)
  OBVIOUS

LEMMA SelectedConcat ==
    ASSUME NEW S, NEW a \in Seq(S), NEW b \in Seq(S), NEW c, NEW type
    PROVE  Selected(a \o b, c, type) = Selected(a, c, type) \o Selected(b, c, type)
  <1> DEFINE Off(x) == Selected(a \o x, c, type) # Selected(a, c, type) \o Selected(x, c, type)
             T == {n \in Nat : \E x \in Seq(S) : Len(x) = n /\ Off(x)}
  <1>1. SUFFICES ASSUME Off(b)  PROVE FALSE  OBVIOUS
  <1>2. Len(b) \in T  BY <1>1
  <1>3. PICK n \in T : \A k \in T : n <= k  BY <1>2, Least
  <1>4. PICK x \in Seq(S) : Len(x) = n /\ Off(x)  BY <1>3
  <1>5. n \in Nat /\ \A y \in Seq(S) : Len(y) = n - 1 /\ n # 0 => ~Off(y)  BY <1>3
  <1>6. PICK p \in Seq(S) : p = Selected(a, c, type)  BY SelectedSeq
  <1>7. CASE n = 0
    <2>1. x = <<>> /\ a \o x = a /\ p \o <<>> = p  BY <1>4, <1>7
    <2> QED  BY <1>4, <1>6, <2>1, SelectedNothing
  <1>8. CASE n # 0
    <2> HIDE DEF Off, T
    <2>1. PICK y \in Seq(S), e \in S : x = Append(y, e) /\ Len(y) = n - 1
      BY <1>4, <1>8, SplitLast
    <2>2. ~Off(y)  BY <1>5, <1>8, <2>1
    <2>3. PICK z \in Seq(S) : z = a \o y  BY ConcatTyped
    <2>4. a \o x = Append(z, e)  BY <2>1, <2>3, AppendBehind
    <2>5. PICK q \in Seq(S) : q = Selected(y, c, type)  BY SelectedSeq
    <2>6. Selected(Append(y, e), c, type) =
             IF e.cand = c /\ e.type = type THEN Append(Selected(y, c, type), e)
             ELSE Selected(y, c, type)
      BY SelectedNext
    <2>7. Selected(Append(z, e), c, type) =
             IF e.cand = c /\ e.type = type THEN Append(Selected(z, c, type), e)
             ELSE Selected(z, c, type)
      BY SelectedNext
    <2>8. p \o Append(q, e) = Append(p \o q, e)  BY AppendBehind
    <2>9. Selected(z, c, type) = p \o q  BY <1>6, <2>2, <2>3, <2>5 DEF Off
    <2> QED  BY <1>4, <1>6, <2>1, <2>4, <2>5, <2>6, <2>7, <2>8, <2>9 DEF Off
  <1> QED  BY <1>7, <1>8

LEMMA SelectedNone ==
    ASSUME NEW S, NEW b \in Seq(S), NEW c, NEW type,
           \A i \in 1..Len(b) : ~(b[i].cand = c /\ b[i].type = type)
    PROVE  Selected(b, c, type) = <<>>
  <1> DEFINE Clear(x) == \A i \in 1..Len(x) : ~(x[i].cand = c /\ x[i].type = type)
             T == {n \in Nat : \E x \in Seq(S) :
                      Len(x) = n /\ Clear(x) /\ Selected(x, c, type) # <<>>}
  <1>1. SUFFICES ASSUME Selected(b, c, type) # <<>>  PROVE FALSE  OBVIOUS
  <1>2. Len(b) \in T  BY <1>1
  <1>3. PICK n \in T : \A k \in T : n <= k  BY <1>2, Least
  <1>4. PICK x \in Seq(S) : Len(x) = n /\ Clear(x) /\ Selected(x, c, type) # <<>>  BY <1>3
  <1>5. n # 0
    <2>1. n = 0 => x = <<>>  BY <1>4
    <2> QED  BY <1>4, <2>1, SelectedNothing
  <1> DEFINE y == SubSeq(x, 1, n - 1)  e == x[n]
  <1>6. /\ n \in Nat /\ n - 1 \in Nat /\ y \in Seq(S) /\ Len(y) = n - 1 /\ e \in S
        /\ x = Append(y, e) /\ n \in 1..Len(x) /\ \A i \in 1..n - 1 : y[i] = x[i] /\ i \in 1..Len(x)
    BY <1>3, <1>4, <1>5
  <1>7. ~(e.cand = c /\ e.type = type) /\ Clear(y)  BY <1>4, <1>6
  <1> HIDE DEF y, e, Clear
  <1>8. Selected(y, c, type) = <<>>
    <2>1. n - 1 \notin T  BY <1>3, <1>6
    <2> QED  BY <1>6, <1>7, <2>1
  <1>9. Selected(x, c, type) = Selected(y, c, type)  BY <1>6, <1>7, SelectedNext
  <1> QED  BY <1>4, <1>8, <1>9

LEMMA SelectedOne ==
    ASSUME NEW S, NEW e \in S, NEW c, NEW type
    PROVE  Selected(<<e>>, c, type) = IF e.cand = c /\ e.type = type THEN <<e>> ELSE <<>>
  <1>1. <<>> \in Seq(S) /\ Append(<<>>, e) = <<e>>  OBVIOUS
  <1>2. PICK z \in Seq(S) : z = <<>>  BY <1>1
  <1>3. Selected(Append(z, e), c, type) =
           IF e.cand = c /\ e.type = type THEN Append(Selected(z, c, type), e)
           ELSE Selected(z, c, type)
    BY SelectedNext
  <1> QED  BY <1>1, <1>2, <1>3, SelectedNothing

LEMMA ComingIs ==
    ASSUME NEW s \in Seq(Write)
    PROVE  /\ Coming(s) \in Seq(Brought) /\ Len(Coming(s)) = Len(s)
           /\ \A i \in 1..Len(s) : Coming(s)[i] = Told(s[i])
  <1>1. Coming(s) = [i \in DOMAIN s |-> Told(s[i])]  BY DEF Coming, Told
  <1>2. DOMAIN s = 1..Len(s) /\ Len(s) \in Nat  OBVIOUS
  <1>3. \A x \in Write : Told(x) \in Brought  BY DEF Write, Told, Brought
  <1> HIDE DEF Told
  <1>4. \A i \in 1..Len(s) : Told(s[i]) \in Brought  BY <1>3
  <1> QED  BY <1>1, <1>2, <1>4

LEMMA ComingConcat ==
    ASSUME NEW a \in Seq(Write), NEW b \in Seq(Write)
    PROVE  Coming(a \o b) = Coming(a) \o Coming(b)
  <1>1. /\ a \o b \in Seq(Write) /\ Len(a \o b) = Len(a) + Len(b)
        /\ Len(a) \in Nat /\ Len(b) \in Nat
        /\ \A i \in 1..Len(a) : (a \o b)[i] = a[i]
        /\ \A i \in 1..Len(b) : (a \o b)[Len(a) + i] = b[i]
        /\ \A i \in 1..Len(a \o b) : i \in 1..Len(a) \/ \E k \in 1..Len(b) : i = Len(a) + k
    BY ConcatIs
  <1> DEFINE s == a \o b  p == Coming(a)  q == Coming(b)
  <1>2. /\ p \in Seq(Brought) /\ Len(p) = Len(a)
        /\ \A i \in 1..Len(a) : p[i] = Told(a[i])
    BY ComingIs
  <1>3. /\ q \in Seq(Brought) /\ Len(q) = Len(b)
        /\ \A i \in 1..Len(b) : q[i] = Told(b[i])
    BY ComingIs
  <1>4. /\ Coming(s) \in Seq(Brought) /\ Len(Coming(s)) = Len(s)
        /\ \A i \in 1..Len(s) : Coming(s)[i] = Told(s[i])
    BY <1>1, ComingIs
  <1> HIDE DEF s, p, q
  <1>5. /\ p \o q \in Seq(Brought) /\ Len(p \o q) = Len(p) + Len(q)
        /\ \A i \in 1..Len(p) : (p \o q)[i] = p[i]
        /\ \A i \in 1..Len(q) : (p \o q)[Len(p) + i] = q[i]
    <2>1. p \in Seq(Brought) /\ q \in Seq(Brought)  BY <1>2, <1>3
    <2> QED  BY <2>1, ConcatIs
  <1>6. ASSUME NEW i \in 1..Len(s)  PROVE  Coming(s)[i] = (p \o q)[i]
    <2>1. Coming(s)[i] = Told(s[i])  BY <1>4
    <2>2. CASE i \in 1..Len(a)  BY <1>1, <1>2, <1>5, <2>1, <2>2 DEF s
    <2>3. ASSUME NEW k \in 1..Len(b), i = Len(a) + k  PROVE  Coming(s)[i] = (p \o q)[i]
      <3>1. s[i] = b[k]  BY <1>1, <2>3 DEF s
      <3>2. (p \o q)[i] = q[k]  BY <1>2, <1>3, <1>5, <2>3
      <3> QED  BY <1>3, <2>1, <3>1, <3>2
    <2> QED  BY <1>1, <2>2, <2>3 DEF s
  <1>7. Len(Coming(s)) = Len(p \o q)  BY <1>1, <1>2, <1>3, <1>4, <1>5 DEF s
  <1>8. PICK u \in Seq(Brought) : u = p \o q  BY <1>5
  <1>9. PICK v \in Seq(Brought) : v = Coming(s)  BY <1>4
  <1>10. u = v
    <2>1. Len(u) = Len(v) /\ \A i \in 1..Len(u) : u[i] = v[i]
      BY <1>4, <1>6, <1>7, <1>8, <1>9
    <2> QED  BY <2>1
  <1> QED  BY <1>8, <1>9, <1>10 DEF s, p, q

LEMMA SelConcat ==
    ASSUME NEW a \in Seq(Write), NEW b \in Seq(Write), NEW c, NEW type
    PROVE  Sel(a \o b, c, type) = Sel(a, c, type) \o Sel(b, c, type)
  <1>1. Coming(a) \in Seq(Brought) /\ Coming(b) \in Seq(Brought)  BY ComingIs
  <1>2. Selected(Coming(a) \o Coming(b), c, type)
           = Selected(Coming(a), c, type) \o Selected(Coming(b), c, type)
    BY <1>1, SelectedConcat
  <1> QED  BY <1>2, ComingConcat DEF Sel

LEMMA SelSeq ==
    ASSUME NEW s \in Seq(Write), NEW c, NEW type  PROVE  Sel(s, c, type) \in Seq(Brought)
  BY ComingIs, SelectedSeq DEF Sel

LEMMA SelNone ==
    ASSUME NEW s \in Seq(Write), NEW c, NEW type,
           \A i \in 1..Len(s) : ~(s[i].cand = c /\ Told(s[i]).type = type)
    PROVE  Sel(s, c, type) = <<>>
  <1>1. /\ Coming(s) \in Seq(Brought) /\ Len(Coming(s)) = Len(s)
        /\ \A i \in 1..Len(s) : Coming(s)[i] = Told(s[i])
    BY ComingIs
  <1>2. \A i \in 1..Len(s) : Told(s[i]).cand = s[i].cand  BY DEF Told
  <1> QED  BY <1>1, <1>2, SelectedNone DEF Sel

LEMMA SelOne ==
    ASSUME NEW x \in Write, NEW c, NEW type
    PROVE  Sel(<<x>>, c, type) =
              IF x.cand = c /\ Told(x).type = type THEN <<Told(x)>> ELSE <<>>
  <1>1. <<x>> \in Seq(Write) /\ Len(<<x>>) = 1 /\ <<x>>[1] = x  OBVIOUS
  <1>2. /\ Coming(<<x>>) \in Seq(Brought) /\ Len(Coming(<<x>>)) = 1
        /\ Coming(<<x>>)[1] = Told(x)
    <2>1. PICK s \in Seq(Write) : s = <<x>>  BY <1>1
    <2>2. /\ Coming(s) \in Seq(Brought) /\ Len(Coming(s)) = Len(s)
          /\ \A i \in 1..Len(s) : Coming(s)[i] = Told(s[i])
      BY ComingIs
    <2> QED  BY <1>1, <2>1, <2>2
  <1>3. Coming(<<x>>) = <<Told(x)>>  BY <1>2
  <1>4. Told(x) \in Brought /\ Told(x).cand = x.cand  BY DEF Told, Write, Brought
  <1> HIDE DEF Told
  <1> QED  BY <1>3, <1>4, SelectedOne DEF Sel

-----------------------------------------------------------------------------
(* What the operations bring: at most one move of a candidate whose history *)
(* was read, as their last three writes, or the three states of a new       *)
(* candidate and its proposal.                                              *)

LEMMA HushedArtifact ==
    ASSUME NEW c \in Candidate, NEW name \in FileName \ {"candidate", "hypothesis"},
           NEW v \in Content,
           NEW type \in EventType \ {"STATE_TRANSITION", "CANDIDATE_PROPOSED"}
    PROVE  Proper(Artifact(c, name, v, type), Hushed)
  <1>1. c \in Number /\ name \in Subject /\ {"file", "event"} \subseteq WriteKind
    BY DEF Number, Subject, WriteKind
  <1>2. Record("file", c, name, v) \in Hushed
    BY <1>1 DEF Record, Write, Hushed, IsMove, IsProposal
  <1>3. Record("event", c, name, type) \in Hushed
    BY <1>1 DEF Record, Write, Hushed, IsMove, IsProposal
  <1> QED  BY <1>2, <1>3, ProperArtifact

LEMMA HushedCommands ==
    ASSUME NEW c \in Candidate, NEW n \in Nat,
           NEW type \in {"COMMAND_RESULT_RECORDED", "REPLAY_COMMAND_RECORDED"}
    PROVE  Proper(CommandRecords(c, n, type), Hushed)
  <1>1. /\ c \in Number /\ "command" \in Subject /\ {"command", "event"} \subseteq WriteKind
        /\ "written" \in Content /\ type \in EventType
        /\ type \notin {"STATE_TRANSITION", "CANDIDATE_PROPOSED"}
    BY DEF Number, Subject, WriteKind, Content, EventType
  <1>2. Record("command", c, "command", "written") \in Hushed
    BY <1>1 DEF Record, Write, Hushed, IsMove, IsProposal
  <1>3. Record("event", c, "command", type) \in Hushed
    BY <1>1 DEF Record, Write, Hushed, IsMove, IsProposal
  <1> QED  BY <1>1, <1>2, <1>3, ProperCommands

LEMMA HushedExecution ==
    ASSUME NEW c \in Candidate, NEW outcome \in Outcome, NEW n \in Nat
    PROVE  Execution(c, outcome, n) \in Seq(Hushed)
  <1> DEFINE a == Artifact(c, "environment", "written", "EXECUTION_ENVIRONMENT_RECORDED")
             b == Artifact(c, "result", outcome, "EXPERIMENT_EXECUTED")
             d == CommandRecords(c, n, "COMMAND_RESULT_RECORDED")
  <1>1. /\ {"environment", "result"} \subseteq FileName \ {"candidate", "hypothesis"}
        /\ "written" \in Content /\ outcome \in Content
        /\ {"EXECUTION_ENVIRONMENT_RECORDED", "EXPERIMENT_EXECUTED"} \subseteq
              EventType \ {"STATE_TRANSITION", "CANDIDATE_PROPOSED"}
    BY DEF FileName, Content, EventType
  <1>2. n \in Nat  OBVIOUS
  <1>3. Proper(a, Hushed)  BY <1>1, HushedArtifact
  <1>4. Proper(b, Hushed)  BY <1>1, HushedArtifact
  <1>5. Proper(d, Hushed)  BY <1>2, HushedCommands
  <1>6. Execution(c, outcome, n) = (a \o b) \o d  BY DEF Execution
  <1> HIDE DEF a, b, d
  <1> QED  BY <1>3, <1>4, <1>5, <1>6, ProperConcat DEF Proper

LEMMA HushedReplays ==
    ASSUME NEW c \in Candidate, NEW status \in ReplayStatus, NEW n \in Nat
    PROVE  \E q \in Seq(Hushed), r \in Seq(Hushed) :
              /\ Replaying(c, status, n) = q \o Reproduced(c, status)
              /\ Importing(c, status) = r \o Reproduced(c, status)
  <1> DEFINE a == Artifact(c, "replay_environment", "written", "REPLAY_ENVIRONMENT_RECORDED")
             b == Artifact(c, "replay", status, "REPLAY_COMPLETED")
             d == CommandRecords(c, n, "REPLAY_COMMAND_RECORDED")
             f == Artifact(c, "replay_environment", "written",
                           "EXTERNAL_REPLAY_ENVIRONMENT_IMPORTED")
             g == Artifact(c, "replay", status, "EXTERNAL_REPLAY_IMPORTED")
  <1>1. /\ {"replay_environment", "replay"} \subseteq FileName \ {"candidate", "hypothesis"}
        /\ "written" \in Content /\ status \in Content
        /\ {"REPLAY_ENVIRONMENT_RECORDED", "REPLAY_COMPLETED",
            "EXTERNAL_REPLAY_ENVIRONMENT_IMPORTED", "EXTERNAL_REPLAY_IMPORTED"} \subseteq
              EventType \ {"STATE_TRANSITION", "CANDIDATE_PROPOSED"}
    BY DEF FileName, Content, EventType
  <1>2. n \in Nat  OBVIOUS
  <1>3. Proper(a, Hushed)  BY <1>1, HushedArtifact
  <1>4. Proper(b, Hushed)  BY <1>1, HushedArtifact
  <1>5. Proper(d, Hushed)  BY <1>2, HushedCommands
  <1>6. Proper(f, Hushed)  BY <1>1, HushedArtifact
  <1>7. Proper(g, Hushed)  BY <1>1, HushedArtifact
  <1>8. /\ Replaying(c, status, n) = ((a \o b) \o d) \o Reproduced(c, status)
        /\ Importing(c, status) = (f \o g) \o Reproduced(c, status)
    BY DEF Replaying, Importing
  <1> HIDE DEF a, b, d, f, g
  <1>9. (a \o b) \o d \in Seq(Hushed) /\ f \o g \in Seq(Hushed)
    BY <1>3, <1>4, <1>5, <1>6, <1>7, ProperConcat DEF Proper
  <1> QED  BY <1>8, <1>9

LEMMA ReproducedMoves ==
    ASSUME NEW c \in Candidate, In(c, "SUPPORTED"), NEW status, NEW q \in Seq(Hushed)
    PROVE  LET s == q \o Reproduced(c, status) IN
           s \in Seq(Hushed) \/ Moving(s, c, "REPRODUCED")
  <1>1. CASE status = "PASS"
    <2>1. /\ "REPRODUCED" \in State /\ "REPRODUCED" \in Allowed("SUPPORTED")
          /\ "PASS" \in Content
      BY DEF State, Allowed, Content, ReplayStatus
    <2> QED  BY <1>1, <2>1 DEF Reproduced, Moving, In
  <1>2. CASE status # "PASS"
    <2>1. q \o <<>> = q  OBVIOUS
    <2> QED  BY <1>2, <2>1 DEF Reproduced
  <1> QED  BY <1>1, <1>2

LEMMA OperationMoves ==
    ASSUME TypeOK, Operation
    PROVE  \/ job' \in Seq(Hushed)
           \/ \E c \in Candidate, to \in State : Moving(job', c, to)
           \/ \E c \in Candidate : c \notin dirs /\ job' = Proposal(c)
  <1>1. CASE Observe
    <2>1. job' = Observing /\ Observed \subseteq Hushed
      BY <1>1 DEF Observe, Start, Observed, Harmless, Hushed, IsProposal
    <2>2. Observing \in Seq(Observed)  BY ObservingIsProper DEF Proper
    <2> QED  BY <2>1, <2>2
  <1>2. CASE AddExpectation
    <2> DEFINE e == expectations + 1
    <2>1. e \in 1..MaxExpectations /\ job' = Expecting(e)
      BY <1>2, RunStoreAssumption DEF AddExpectation, TypeOK, Start
    <2>2. Expecting(e) \in Seq(Expected(e))  BY <2>1, ExpectingIsProper DEF Proper
    <2>3. Expected(e) \subseteq Hushed  BY DEF Expected, Harmless, Hushed, IsProposal
    <2> HIDE DEF e
    <2> QED  BY <2>1, <2>2, <2>3
  <1>3. ASSUME NEW c \in Candidate, CreateCandidate(c)
        PROVE  c \notin dirs /\ job' = Proposal(c)
    BY <1>3 DEF CreateCandidate, Start
  <1>4. ASSUME NEW c \in Candidate, PlanExperiment(c)
        PROVE  \E to \in State : Moving(job', c, to)
    <2> DEFINE a == Artifact(c, "plan", "written", "EXPERIMENT_PLANNED")
    <2>1. /\ "TESTABLE" \in State /\ "TESTABLE" \in Allowed("HYPOTHESIZED")
          /\ "written" \in Content /\ "plan" \in FileName \ {"candidate", "hypothesis"}
          /\ "EXPERIMENT_PLANNED" \in EventType \ {"STATE_TRANSITION", "CANDIDATE_PROPOSED"}
      BY DEF State, Allowed, Content, FileName, EventType
    <2>2. Proper(a, Hushed)  BY <2>1, HushedArtifact
    <2>3. job' = a \o Transition(c, "TESTABLE", "written")
      BY <1>4 DEF PlanExperiment, Start, Planning, Transition
    <2> HIDE DEF a
    <2>4. a \in Seq(Hushed) /\ Readable(c) /\ CurrentState(c) = "HYPOTHESIZED"
      BY <1>4, <2>2 DEF PlanExperiment, In, Proper
    <2>5. Moving(job', c, "TESTABLE")  BY <2>1, <2>3, <2>4 DEF Moving
    <2> QED  BY <2>1, <2>5
  <1>5. ASSUME NEW c \in Candidate, ExecuteExperiment(c)  PROVE  job' \in Seq(Hushed)
    BY <1>5, RecordedCount, HushedExecution DEF ExecuteExperiment, Start
  <1>6. ASSUME NEW c \in Candidate, NEW to \in State, TransitionCandidate(c, to)
        PROVE  Moving(job', c, to)
    <2> DEFINE v == IF EvidenceFile(to) = "none" THEN "absent" ELSE file[c][EvidenceFile(to)]
    <2>1. v \in Content
      <3>1. \A n \in FileName : file[c][n] \in Content  BY DEF TypeOK
      <3>2. "absent" \in Content /\ {"plan", "result", "replay"} \subseteq FileName
        BY DEF Content, FileName
      <3>3. EvidenceFile(to) \in {"none", "plan", "result", "replay"}  BY DEF EvidenceFile
      <3> QED  BY <3>1, <3>2, <3>3
    <2>2. job' = Transition(c, to, v) /\ Readable(c) /\ to \in Allowed(CurrentState(c))
      BY <1>6 DEF TransitionCandidate, Start
    <2> HIDE DEF v
    <2>3. Transition(c, to, v) = <<>> \o Transition(c, to, v)
      BY <2>1, AppendNothing, TransitionIs DEF AllFormed
    <2>4. <<>> \in Seq(Hushed)  OBVIOUS
    <2> QED  BY <2>1, <2>2, <2>3, <2>4 DEF Moving
  <1>7. ASSUME NEW c \in Candidate, Replay(c)
        PROVE  job' \in Seq(Hushed) \/ \E to \in State : Moving(job', c, to)
    <2>1. PICK status \in ReplayStatus, n \in Nat : Start(Replaying(c, status, n))
      BY <1>7, RecordedCount DEF Replay
    <2>2. PICK q \in Seq(Hushed) : job' = q \o Reproduced(c, status)
      BY <2>1, HushedReplays DEF Start
    <2>3. job' \in Seq(Hushed) \/ Moving(job', c, "REPRODUCED")
      BY <1>7, <2>2, ReproducedMoves DEF Replay
    <2> QED  BY <2>3 DEF State
  <1>8. ASSUME NEW c \in Candidate, ImportExternalReplay(c)
        PROVE  job' \in Seq(Hushed) \/ \E to \in State : Moving(job', c, to)
    <2>1. PICK status \in ReplayStatus : Start(Importing(c, status))
      BY <1>8 DEF ImportExternalReplay
    <2>2. PICK q \in Seq(Hushed) : job' = q \o Reproduced(c, status)
      BY <2>1, HushedReplays DEF Start
    <2>3. job' \in Seq(Hushed) \/ Moving(job', c, "REPRODUCED")
      BY <1>8, <2>2, ReproducedMoves DEF ImportExternalReplay
    <2> QED  BY <2>3 DEF State
  <1>9. ASSUME NEW c \in Candidate, AddReview(c)  PROVE  job' \in Seq(Hushed)
    <2>1. PICK type \in Review : Start(Reviewing(c, type))  BY <1>9 DEF AddReview
    <2>2. /\ type \in FileName \ {"candidate", "hypothesis"} /\ "written" \in Content
          /\ "REVIEW_RECORDED" \in EventType \ {"STATE_TRANSITION", "CANDIDATE_PROPOSED"}
      <3>1. type \in ReviewType  BY RunStoreAssumption
      <3> QED  BY <3>1 DEF ReviewType, FileName, Content, EventType
    <2>3. Proper(Reviewing(c, type), Hushed)  BY <2>2, HushedArtifact DEF Reviewing
    <2> QED  BY <2>1, <2>3 DEF Start, Proper
  <1> QED  BY <1>1, <1>2, <1>3, <1>4, <1>5, <1>6, <1>7, <1>8, <1>9 DEF Operation

-----------------------------------------------------------------------------
(* The subjects of what is still to come.                                   *)

LEMMA SameSequence ==
    ASSUME NEW S, NEW u \in Seq(S), NEW v \in Seq(S), Len(u) = Len(v),
           \A i \in 1..Len(u) : u[i] = v[i]
    PROVE  u = v
  OBVIOUS

LEMMA SubjectsIs ==
    ASSUME NEW e \in Seq(Brought)
    PROVE  Subjects(e) \in Seq(Subject) /\ Len(Subjects(e)) = Len(e)
           /\ \A i \in 1..Len(e) : Subjects(e)[i] = e[i].of
  <1>1. DOMAIN e = 1..Len(e) /\ Len(e) \in Nat /\ \A i \in 1..Len(e) : e[i] \in Brought
    OBVIOUS
  <1>2. \A i \in 1..Len(e) : e[i].of \in Subject  BY <1>1 DEF Brought
  <1>3. Subjects(e) = [i \in 1..Len(e) |-> e[i].of]  BY <1>1 DEF Subjects
  <1> QED  BY <1>1, <1>2, <1>3

LEMMA SubjectsConcat ==
    ASSUME NEW a \in Seq(Brought), NEW b \in Seq(Brought)
    PROVE  Subjects(a \o b) = Subjects(a) \o Subjects(b)
  <1>1. PICK s \in Seq(Brought) : s = a \o b  BY ConcatTyped
  <1>2. /\ Len(s) = Len(a) + Len(b) /\ Len(a) \in Nat /\ Len(b) \in Nat
        /\ \A i \in 1..Len(a) : s[i] = a[i]
        /\ \A i \in 1..Len(b) : s[Len(a) + i] = b[i]
        /\ \A i \in 1..Len(s) : i \in 1..Len(a) \/ \E k \in 1..Len(b) : i = Len(a) + k
    BY <1>1, ConcatIs
  <1>3. PICK p \in Seq(Subject) : p = Subjects(a)  BY SubjectsIs
  <1>4. PICK q \in Seq(Subject) : q = Subjects(b)  BY SubjectsIs
  <1>5. PICK u \in Seq(Subject) : u = Subjects(s)  BY SubjectsIs
  <1>6. /\ Len(p) = Len(a) /\ Len(q) = Len(b) /\ Len(u) = Len(s)
        /\ \A i \in 1..Len(a) : p[i] = a[i].of
        /\ \A i \in 1..Len(b) : q[i] = b[i].of
        /\ \A i \in 1..Len(s) : u[i] = s[i].of
    BY <1>3, <1>4, <1>5, SubjectsIs
  <1>7. PICK v \in Seq(Subject) : v = p \o q  BY ConcatTyped
  <1>8. /\ Len(v) = Len(p) + Len(q)
        /\ \A i \in 1..Len(p) : v[i] = p[i]
        /\ \A i \in 1..Len(q) : v[Len(p) + i] = q[i]
    BY <1>7, ConcatIs
  <1>9. ASSUME NEW i \in 1..Len(s)  PROVE  u[i] = v[i]
    <2>1. CASE i \in 1..Len(a)  BY <1>2, <1>6, <1>8, <2>1
    <2>2. ASSUME NEW k \in 1..Len(b), i = Len(a) + k  PROVE  u[i] = v[i]
      <3>1. u[i] = s[i].of /\ s[i] = b[k]  BY <1>2, <1>6, <2>2
      <3>2. v[i] = q[k] /\ q[k] = b[k].of  BY <1>6, <1>8, <2>2
      <3> QED  BY <3>1, <3>2
    <2> QED  BY <1>2, <2>1, <2>2
  <1>10. Len(u) = Len(v) /\ \A i \in 1..Len(u) : u[i] = v[i]  BY <1>2, <1>6, <1>8, <1>9
  <1>11. u = v  BY <1>10, SameSequence
  <1> QED  BY <1>1, <1>3, <1>4, <1>5, <1>7, <1>11

LEMMA SubTyped ==
    ASSUME NEW s \in Seq(Write), NEW c, NEW type
    PROVE  Sub(s, c, type) \in Seq(Subject) /\ Len(Sub(s, c, type)) = Len(Sel(s, c, type))
  <1>1. PICK e \in Seq(Brought) : e = Sel(s, c, type)  BY SelSeq
  <1>2. Subjects(e) \in Seq(Subject) /\ Len(Subjects(e)) = Len(e)  BY SubjectsIs
  <1> QED  BY <1>1, <1>2 DEF Sub

LEMMA SubConcat ==
    ASSUME NEW a \in Seq(Write), NEW b \in Seq(Write), NEW c, NEW type
    PROVE  Sub(a \o b, c, type) = Sub(a, c, type) \o Sub(b, c, type)
  <1>1. PICK p \in Seq(Brought) : p = Sel(a, c, type)  BY SelSeq
  <1>2. PICK q \in Seq(Brought) : q = Sel(b, c, type)  BY SelSeq
  <1>3. Sel(a \o b, c, type) = p \o q
    <2>1. Sel(a \o b, c, type) = Sel(a, c, type) \o Sel(b, c, type)  BY SelConcat
    <2> QED  BY <1>1, <1>2, <2>1
  <1>4. Subjects(p \o q) = Subjects(p) \o Subjects(q)  BY SubjectsConcat
  <1> QED  BY <1>1, <1>2, <1>3, <1>4 DEF Sub

LEMMA SubNone ==
    ASSUME NEW s \in Seq(Write), NEW c, NEW type,
           \A i \in 1..Len(s) : ~(s[i].cand = c /\ Told(s[i]).type = type)
    PROVE  Sub(s, c, type) = <<>>
  <1>1. Sel(s, c, type) = <<>>  BY SelNone
  <1>2. Subjects(<<>>) = <<>>  BY DEF Subjects
  <1> QED  BY <1>1, <1>2 DEF Sub

LEMMA SubOne ==
    ASSUME NEW x \in Write, NEW c, NEW type
    PROVE  Sub(<<x>>, c, type) = IF x.cand = c /\ Told(x).type = type THEN <<x.of>> ELSE <<>>
  <1>1. Told(x).of = x.of  BY DEF Told
  <1>2. Subjects(<<Told(x)>>) = <<x.of>>  BY <1>1 DEF Subjects
  <1>3. Subjects(<<>>) = <<>>  BY DEF Subjects
  <1> HIDE DEF Told
  <1> QED  BY <1>2, <1>3, SelOne DEF Sub

LEMMA ToldIs ==
    ASSUME NEW x \in Write
    PROVE  /\ Told(x).type = "state" <=> x.kind = "state"
           /\ Told(x).type = "STATE_TRANSITION" <=> IsMove(x)
           /\ Told(x).type = "CANDIDATE_PROPOSED" <=> IsProposal(x)
  <1>1. /\ "state" \notin Content \cup EventType
        /\ "STATE_TRANSITION" \notin WriteKind /\ "CANDIDATE_PROPOSED" \notin WriteKind
    BY DEF Content, Outcome, ReplayStatus, EventType, WriteKind
  <1>2. x.kind \in WriteKind /\ x.value \in Content \cup EventType  BY DEF Write
  <1>3. Told(x).type = IF x.kind = "event" THEN x.value ELSE x.kind  BY DEF Told
  <1> QED  BY <1>1, <1>2, <1>3 DEF IsMove, IsProposal

(* The next write and what comes behind it.                                 *)
LEMMA SubNext ==
    ASSUME NEW s \in Seq(Write), s # <<>>, NEW c, NEW type
    PROVE  Sub(s, c, type) =
              (IF s[1].cand = c /\ Told(s[1]).type = type THEN << s[1].of >> ELSE <<>>)
                  \o Sub(Tail(s), c, type)
  <1>1. PICK x \in Write : x = s[1]
    <2>1. 1 \in 1..Len(s)  OBVIOUS
    <2> QED  BY <2>1
  <1>2. PICK t \in Seq(Write) : t = Tail(s)
    <2>1. Tail(s) \in Seq(Write)  OBVIOUS
    <2> QED  BY <2>1
  <1>3. PICK a \in Seq(Write) : a = <<x>>
    <2>1. <<x>> \in Seq(Write)  OBVIOUS
    <2> QED  BY <2>1
  <1>4. s = a \o t  BY <1>1, <1>2, <1>3
  <1>5. Sub(a \o t, c, type) = Sub(a, c, type) \o Sub(t, c, type)  BY SubConcat
  <1>6. Sub(<<x>>, c, type) = IF x.cand = c /\ Told(x).type = type THEN <<x.of>> ELSE <<>>
    BY SubOne
  <1> HIDE DEF Told
  <1> QED  BY <1>1, <1>2, <1>3, <1>4, <1>5, <1>6

LEMMA HushedIsWrite == Seq(Hushed) \subseteq Seq(Write)
  <1>1. Hushed \subseteq Write  BY DEF Hushed
  <1> QED  BY <1>1

LEMMA HushedSub ==
    ASSUME NEW s \in Seq(Hushed), NEW c, NEW type \in Kind3  PROVE  Sub(s, c, type) = <<>>
  <1>1. s \in Seq(Write)  BY HushedIsWrite
  <1>2. ASSUME NEW i \in 1..Len(s)  PROVE  Told(s[i]).type # type
    <2>1. PICK x \in Hushed : x = s[i]  OBVIOUS
    <2>2. x \in Write /\ x.kind # "state" /\ ~IsMove(x) /\ ~IsProposal(x)  BY DEF Hushed
    <2> QED  BY <2>1, <2>2, ToldIs DEF Kind3
  <1> QED  BY <1>1, <1>2, SubNone

LEMMA OneSub ==
    ASSUME NEW s \in Seq(Write), Len(s) = 1, NEW x \in Write, s[1] = x, NEW d, NEW type
    PROVE  Sub(s, d, type) = IF x.cand = d /\ Told(x).type = type THEN <<x.of>> ELSE <<>>
  <1>1. s = <<x>>  OBVIOUS
  <1> HIDE DEF Told
  <1> QED  BY <1>1, SubOne

LEMMA TransitionSub ==
    ASSUME NEW c \in Candidate, NEW to \in State, NEW v \in Content, NEW d
    PROVE  LET s == Transition(c, to, v) IN
           /\ Sub(s, d, "state") = IF d = c THEN <<to>> ELSE <<>>
           /\ Sub(s, d, "STATE_TRANSITION") = IF d = c THEN <<to>> ELSE <<>>
           /\ Sub(s, d, "CANDIDATE_PROPOSED") = <<>>
  <1>1. c \in Number /\ to \in Subject /\ {"state", "event", "index"} \subseteq WriteKind
        /\ "absent" \in Content /\ "STATE_TRANSITION" \in EventType
    BY DEF Number, Subject, WriteKind, Content, EventType
  <1>2. PICK a \in Seq(Write) : a = OneWrite("state", c, to, v) /\ Len(a) = 1
           /\ a[1] = [kind |-> "state", cand |-> c, of |-> to, value |-> v]
    BY <1>1, OneWriteIs
  <1>3. PICK b \in Seq(Write) : b = OneWrite("event", c, to, "STATE_TRANSITION") /\ Len(b) = 1
           /\ b[1] = [kind |-> "event", cand |-> c, of |-> to, value |-> "STATE_TRANSITION"]
    BY <1>1, OneWriteIs
  <1>4. PICK e \in Seq(Write) : e = OneWrite("index", c, to, "absent") /\ Len(e) = 1
           /\ e[1] = [kind |-> "index", cand |-> c, of |-> to, value |-> "absent"]
    BY <1>1, OneWriteIs
  <1>5. PICK x \in Write : x = a[1]  BY <1>2
  <1>6. PICK y \in Write : y = b[1]  BY <1>3
  <1>7. PICK z \in Write : z = e[1]  BY <1>4
  <1>8. /\ x.cand = c /\ x.of = to /\ Told(x).type = "state"
        /\ y.cand = c /\ y.of = to /\ Told(y).type = "STATE_TRANSITION"
        /\ z.cand = c /\ Told(z).type = "index"
    BY <1>2, <1>3, <1>4, <1>5, <1>6, <1>7 DEF Told
  <1>9. PICK f \in Seq(Write) : f = a \o b  BY ConcatTyped
  <1>10. Transition(c, to, v) = f \o e  BY <1>2, <1>3, <1>4, <1>9 DEF Transition
  <1> HIDE DEF Told
  <1>11. ASSUME NEW type
         PROVE  /\ Sub(f, d, type) = Sub(a, d, type) \o Sub(b, d, type)
                /\ Sub(f \o e, d, type) = Sub(f, d, type) \o Sub(e, d, type)
                /\ Sub(a, d, type) = IF c = d /\ type = "state" THEN <<to>> ELSE <<>>
                /\ Sub(b, d, type) = IF c = d /\ type = "STATE_TRANSITION" THEN <<to>> ELSE <<>>
                /\ Sub(e, d, type) = IF c = d /\ type = "index" THEN <<z.of>> ELSE <<>>
    <2>0. Len(a) = 1 /\ a[1] = x /\ Len(b) = 1 /\ b[1] = y /\ Len(e) = 1 /\ e[1] = z
      BY <1>2, <1>3, <1>4, <1>5, <1>6, <1>7
    <2>1. Sub(a \o b, d, type) = Sub(a, d, type) \o Sub(b, d, type)  BY SubConcat
    <2>2. Sub(f \o e, d, type) = Sub(f, d, type) \o Sub(e, d, type)  BY SubConcat
    <2>3. Sub(a, d, type) = IF x.cand = d /\ Told(x).type = type THEN <<x.of>> ELSE <<>>
      BY <2>0, OneSub
    <2>4. Sub(b, d, type) = IF y.cand = d /\ Told(y).type = type THEN <<y.of>> ELSE <<>>
      BY <2>0, OneSub
    <2>5. Sub(e, d, type) = IF z.cand = d /\ Told(z).type = type THEN <<z.of>> ELSE <<>>
      BY <2>0, OneSub
    <2> QED  BY <1>8, <1>9, <2>1, <2>2, <2>3, <2>4, <2>5
  <1>12. <<>> \o <<>> = <<>> /\ <<to>> \o <<>> = <<to>> /\ <<>> \o <<to>> = <<to>>  OBVIOUS
  <1>13. Sub(f \o e, d, "state") = IF d = c THEN <<to>> ELSE <<>>  BY <1>11, <1>12
  <1>14. Sub(f \o e, d, "STATE_TRANSITION") = IF d = c THEN <<to>> ELSE <<>>
    BY <1>11, <1>12
  <1>15. Sub(f \o e, d, "CANDIDATE_PROPOSED") = <<>>  BY <1>11, <1>12
  <1> QED  BY <1>10, <1>13, <1>14, <1>15

-----------------------------------------------------------------------------
(* What the operation in progress is about, next to what is on disk: writes *)
(* that bring neither states nor moves nor a proposal, such writes and then *)
(* one move, the rest of a move whose record is written, or the rest of a   *)
(* proposal.                                                                *)

LEMMA EventsTyped ==
    ASSUME TypeOK, NEW c
    PROVE  TransitionEvents(c) \in Seq(Subject) /\ Proposals(c) \in Nat
  <1>1. PICK l \in Seq(Event) : l = ledger  BY DEF TypeOK
  <1>2. Selected(l, c, "STATE_TRANSITION") \in Seq(Event)
        /\ Selected(l, c, "CANDIDATE_PROPOSED") \in Seq(Event)
    BY SelectedSeq
  <1>3. Event \subseteq Brought  BY DEF Event, Brought
  <1>4. PICK es \in Seq(Brought) : es = EventsOf(c, "STATE_TRANSITION")
    <2>1. PICK x \in Seq(Event) : x = Selected(l, c, "STATE_TRANSITION")  BY <1>2
    <2>2. x \in Seq(Brought)  BY <1>3
    <2> QED  BY <1>1, <2>1, <2>2 DEF EventsOf
  <1>5. Subjects(es) \in Seq(Subject)  BY SubjectsIs
  <1>6. TransitionEvents(c) = Subjects(es)  BY <1>4 DEF TransitionEvents, Subjects
  <1>7. PICK y \in Seq(Event) : y = EventsOf(c, "CANDIDATE_PROPOSED")
    BY <1>1, <1>2 DEF EventsOf
  <1>8. Len(y) \in Nat  OBVIOUS
  <1> QED  BY <1>5, <1>6, <1>7, <1>8 DEF Proposals

LEMMA ProposalsNext ==
    ASSUME ledger \in Seq(Event), NEW e \in Event, ledger' = Append(ledger, e), NEW c
    PROVE  Proposals(c)' = IF e.cand = c /\ e.type = "CANDIDATE_PROPOSED"
                           THEN Proposals(c) + 1 ELSE Proposals(c)
  <1>1. PICK l \in Seq(Event) : l = ledger  OBVIOUS
  <1>2. PICK y \in Seq(Event) : y = Selected(l, c, "CANDIDATE_PROPOSED")  BY SelectedSeq
  <1>3. Selected(Append(l, e), c, "CANDIDATE_PROPOSED") =
           IF e.cand = c /\ e.type = "CANDIDATE_PROPOSED"
           THEN Append(Selected(l, c, "CANDIDATE_PROPOSED"), e)
           ELSE Selected(l, c, "CANDIDATE_PROPOSED")
    BY SelectedNext
  <1>4. Len(Append(y, e)) = Len(y) + 1  OBVIOUS
  <1>5. /\ Proposals(c) = Len(y)
        /\ Proposals(c)' = Len(Selected(Append(l, e), c, "CANDIDATE_PROPOSED"))
    BY <1>1, <1>2 DEF Proposals, EventsOf
  <1> QED  BY <1>2, <1>3, <1>4, <1>5

(* What the next write adds to the ledger, as seen from a candidate.        *)
LEMMA EventsNext ==
    ASSUME TypeOK, AllFormed(job), Did, NEW c \in Candidate
    PROVE  \/ /\ w.kind = "event" /\ ~torn' /\ job' = Tail(job)
              /\ TransitionEvents(c)' =
                    IF IsMove(w) /\ w.cand = c
                    THEN Append(TransitionEvents(c), w.of) ELSE TransitionEvents(c)
              /\ Proposals(c)' =
                    IF IsProposal(w) /\ w.cand = c THEN Proposals(c) + 1 ELSE Proposals(c)
           \/ /\ w.kind = "event" => torn'
              /\ TransitionEvents(c)' = TransitionEvents(c) /\ Proposals(c)' = Proposals(c)
  <1>1. CASE ledger' = ledger /\ (w.kind = "event" => torn')
    <2>1. \A type : EventsOf(c, type)' = EventsOf(c, type)  BY <1>1 DEF EventsOf
    <2>2. TransitionEvents(c)' = TransitionEvents(c) /\ Proposals(c)' = Proposals(c)
      BY <2>1 DEF TransitionEvents, Proposals
    <2> QED  BY <1>1, <2>2
  <1>2. CASE /\ w.kind = "event" /\ ~torn' /\ job' = Tail(job)
             /\ ledger' = Append(ledger, Entry(w)) /\ Entry(w) \in Event
    <2>1. PICK e \in Event : e = Entry(w)  BY <1>2
    <2>2. e.cand = w.cand /\ e.of = w.of /\ e.type = w.value  BY <2>1 DEF Entry
    <2>3. ledger \in Seq(Event) /\ ledger' = Append(ledger, e)  BY <1>2, <2>1 DEF TypeOK
    <2>4. TransitionEvents(c)' =
             IF e.cand = c /\ e.type = "STATE_TRANSITION"
             THEN Append(TransitionEvents(c), e.of) ELSE TransitionEvents(c)
      BY <2>3, MovesNext
    <2>5. Proposals(c)' = IF e.cand = c /\ e.type = "CANDIDATE_PROPOSED"
                          THEN Proposals(c) + 1 ELSE Proposals(c)
      BY <2>3, ProposalsNext
    <2> QED  BY <1>2, <2>2, <2>4, <2>5 DEF IsMove, IsProposal
  <1>3. \/ ledger' = ledger /\ (w.kind = "event" => torn')
        \/ /\ w.kind = "event" /\ ~torn' /\ job' = Tail(job)
           /\ ledger' = Append(ledger, Entry(w))
    BY DEF Did
  <1>4. w.kind = "event" => Entry(w) \in Event
    <2>1. w \in Write /\ Formed(w)  BY NextWrite DEF Did
    <2> QED  BY <2>1 DEF Entry, Event, Write, Formed
  <1> QED  BY <1>1, <1>2, <1>3, <1>4

LEMMA TailsStay ==
    ASSUME Effect, NEW c \in Candidate, tail'[c] # "garbled"
    PROVE  /\ tail[c] # "garbled"
           /\ history'[c] =
                 IF w.kind = "state" /\ w.cand = c
                 THEN Append(history[c], [to |-> w.of, evidence |-> w.value]) ELSE history[c]
  BY DEF Effect, OnHistory, Extended

(* The writes of a proposal, by their place.                                *)
LEMMA ProposalMarks ==
    ASSUME NEW c \in Candidate, NEW i \in 1..11
    PROVE  /\ Proposal(c)[i] \in Write /\ Proposal(c)[i].cand = c
           /\ i = 1 => Proposal(c)[i].kind = "mkdir"
           /\ Proposal(c)[i].kind = "state" <=> i \in {4, 5, 8}
           /\ IsMove(Proposal(c)[i]) <=> i \in {6, 9}
           /\ IsProposal(Proposal(c)[i]) <=> i = 11
  <1>1. PICK s : s = Proposal(c)  OBVIOUS
  <1>2. Proposes(s, c) /\ AllFormed(s)  BY <1>1, ProposalIs
  <1>3. s \in Seq(Write) /\ i \in 1..Len(s)  BY <1>2 DEF AllFormed, Proposes
  <1>4. i \in {1, 2, 3, 4, 5, 6, 7, 8, 9, 10, 11}  OBVIOUS
  <1>5. s[i] \in Write  BY <1>3
  <1>6. /\ s[i].cand = c
        /\ i = 1 => s[i].kind = "mkdir"
        /\ s[i].kind = "state" <=> i \in {4, 5, 8}
        /\ IsMove(s[i]) <=> i \in {6, 9}
        /\ IsProposal(s[i]) <=> i = 11
    BY <1>2, <1>4 DEF Proposes, Record, IsMove, IsProposal
  <1> QED  BY <1>1, <1>5, <1>6

LEMMA TailBehind ==
    ASSUME NEW S, NEW a \in Seq(S), NEW b \in Seq(S), a # <<>>
    PROVE  Head(a \o b) = Head(a) /\ Tail(a \o b) = Tail(a) \o b
  OBVIOUS

LEMMA TailIs ==
    ASSUME NEW S, NEW t \in Seq(S), t # <<>>
    PROVE  /\ Len(t) \in Nat \ {0} /\ t[1] \in S /\ Head(t) = t[1]
           /\ Tail(t) \in Seq(S) /\ Len(Tail(t)) = Len(t) - 1
           /\ \A i \in 1..Len(t) - 1 : Tail(t)[i] = t[i + 1]
  <1>1. Len(t) \in Nat \ {0} /\ \A i \in 1..Len(t) : t[i] \in S  OBVIOUS
  <1>2. t[1] \in S /\ Head(t) = t[1]  BY <1>1
  <1>3. /\ Tail(t) \in Seq(S) /\ Len(Tail(t)) = Len(t) - 1
        /\ \A i \in 1..Len(t) - 1 : Tail(t)[i] = t[i + 1]
    OBVIOUS
  <1> QED  BY <1>1, <1>2, <1>3

LEMMA OfThree ==
    ASSUME NEW S, NEW t \in Seq(S), NEW n, n = 3, Len(t) = n
    PROVE  /\ t[1] \in S /\ Head(t) = t[1]
           /\ Len(Tail(t)) = 2 /\ Tail(t)[1] = t[2] /\ Tail(t)[2] = t[3]
  <1>1. t # <<>>
    <2>1. Len(<<>>) = 0 /\ 0 # 3  OBVIOUS
    <2> QED  BY <2>1, Zenon
  <1>2. /\ t[1] \in S /\ Head(t) = t[1] /\ Len(Tail(t)) = n - 1
        /\ \A i \in 1..n - 1 : Tail(t)[i] = t[i + 1]
    BY <1>1, TailIs
  <1>3. 1 \in 1..n - 1 /\ 2 \in 1..n - 1 /\ n - 1 = 2 /\ 1 + 1 = 2 /\ 2 + 1 = 3  OBVIOUS
  <1> QED  BY <1>2, <1>3

(* The first write of an operation that brings a move, and its rest.        *)
LEMMA TurningHead ==
    ASSUME NEW c \in Candidate, NEW to \in State, NEW v \in Content, NEW q \in Seq(Hushed),
           job = q \o Transition(c, to, v)
    PROVE  \/ /\ w \in Hushed
              /\ \E r \in Seq(Hushed) : Tail(job) = r \o Transition(c, to, v)
           \/ /\ IsState(w, c, to) /\ w \in Write
              /\ Len(Tail(job)) = 2 /\ IsMove(Tail(job)[1]) /\ Tail(job)[1].cand = c
              /\ Tail(job)[2].kind = "index"
  <1>1. PICK t \in Seq(Write) : t = Transition(c, to, v)  BY TransitionIs DEF AllFormed
  <1>2. /\ Len(t) = 3
        /\ t[1] = [kind |-> "state", cand |-> c, of |-> to, value |-> v]
        /\ t[2] = [kind |-> "event", cand |-> c, of |-> to, value |-> "STATE_TRANSITION"]
        /\ t[3] = [kind |-> "index", cand |-> c, of |-> to, value |-> "absent"]
    BY <1>1, TransitionIs
  <1>3. /\ t[1].kind = "state" /\ t[1].cand = c /\ t[1].of = to
        /\ t[2].kind = "event" /\ t[2].cand = c /\ t[2].value = "STATE_TRANSITION"
        /\ t[3].kind = "index"
    BY <1>2
  <1>4. CASE q = <<>>
    <2>1. job = t  BY <1>1, <1>4
    <2>2. t[1] \in Write /\ Head(t) = t[1] /\ Len(Tail(t)) = 2 /\ Tail(t)[1] = t[2]
          /\ Tail(t)[2] = t[3]
      BY <1>2, OfThree
    <2> QED  BY <1>3, <2>1, <2>2 DEF w, IsState, IsMove
  <1>5. CASE q # <<>>
    <2>1. PICK p \in Seq(Write) : p = q  BY HushedIsWrite
    <2>2. Head(p \o t) = Head(p) /\ Tail(p \o t) = Tail(p) \o t  BY <1>5, <2>1, TailBehind
    <2>3. Head(q) \in Hushed /\ Tail(q) \in Seq(Hushed)  BY <1>5
    <2> QED  BY <1>1, <2>1, <2>2, <2>3 DEF w
  <1> QED  BY <1>4, <1>5

-----------------------------------------------------------------------------
(* TurnInv is inductive.                                                    *)

LEMMA NothingIsHushed == <<>> \in Seq(Hushed)
  OBVIOUS

LEMMA HushedHead ==
    ASSUME job # <<>>, job \in Seq(Hushed)  PROVE  w \in Hushed /\ Tail(job) \in Seq(Hushed)
  <1>1. PICK s \in Seq(Hushed) : s = job  OBVIOUS
  <1>2. Head(s) = s[1] /\ s[1] \in Hushed /\ Tail(s) \in Seq(Hushed)  BY <1>1, TailIs
  <1> QED  BY <1>1, <1>2 DEF w

(* Where the next write is within a proposal.                               *)
LEMMA ProposingHead ==
    ASSUME NEW c \in Candidate, Proposing(c), AllFormed(job)
    PROVE  \E k \in 0..10 :
              /\ k = 11 - Len(job) /\ w.cand = c
              /\ k = 0 => w.kind = "mkdir"
              /\ w.kind = "state" <=> k \in {3, 4, 7}
              /\ IsMove(w) <=> k \in {5, 8}
              /\ IsProposal(w) <=> k = 10
  <1>1. PICK n \in 1..11 : n = Len(job)  BY DEF Proposing
  <1>2. PICK k \in 0..10 : k = 11 - n
    <2>1. 11 - n \in 0..10  OBVIOUS
    <2> QED  BY <2>1
  <1>3. w = job[1]
    <2>1. job # <<>>
      <3>1. Len(<<>>) = 0 /\ n # 0  OBVIOUS
      <3> QED  BY <1>1, <3>1, Zenon
    <2> QED  BY <2>1, NextWrite
  <1>4. job[1] = Proposal(c)[11 - n + 1]
    <2>1. 1 \in 1..n  OBVIOUS
    <2> QED  BY <1>1, <2>1 DEF Proposing
  <1>5. PICK i \in 1..11 : i = k + 1
    <2>1. k + 1 \in 1..11  OBVIOUS
    <2> QED  BY <2>1
  <1>6. w = Proposal(c)[i]  BY <1>2, <1>3, <1>4, <1>5
  <1>7. /\ w.cand = c /\ i = 1 => w.kind = "mkdir"
        /\ w.kind = "state" <=> i \in {4, 5, 8}
        /\ IsMove(w) <=> i \in {6, 9}
        /\ IsProposal(w) <=> i = 11
    BY <1>6, ProposalMarks
  <1>8. /\ k = 0 <=> i = 1
        /\ k \in {3, 4, 7} <=> i \in {4, 5, 8}
        /\ k \in {5, 8} <=> i \in {6, 9}
        /\ k = 10 <=> i = 11
    BY <1>5
  <1>9. w.cand = c  BY <1>6, ProposalMarks
  <1> QED  BY <1>1, <1>2, <1>7, <1>8, <1>9

(* A move that is logged next has its record, the proposal its states.      *)
LEMMA HeadIs ==
    ASSUME TypeOK, AllFormed(job), AboutOne, job # <<>>, NEW c \in Candidate, w.cand = c
    PROVE  /\ IsMove(w) /\ tail[c] # "garbled" =>
                 Len(TransitionEvents(c)) + 1 < Len(history[c])
           /\ IsProposal(w) =>
                 /\ c \in dirs /\ Proposals(c) = 0
                 /\ tail[c] # "garbled" => Len(history[c]) >= 3
  <1>1. CASE job \in Seq(Hushed)
    <2>1. w \in Hushed  BY <1>1, HushedHead
    <2> QED  BY <2>1 DEF Hushed
  <1>2. ASSUME NEW d \in Candidate, NEW to \in State, Turning(d, to)
        PROVE  ~IsMove(w) /\ ~IsProposal(w)
    <2>1. PICK q \in Seq(Hushed), v \in Content : job = q \o Transition(d, to, v)
      BY <1>2 DEF Turning
    <2>2. w \in Hushed \/ w.kind = "state"  BY <2>1, TurningHead DEF IsState
    <2> QED  BY <2>2 DEF Hushed, IsMove, IsProposal
  <1>3. ASSUME NEW d \in Candidate, Owing(d)
        PROVE  /\ ~IsProposal(w) /\ d = c
               /\ tail[c] # "garbled" => Len(TransitionEvents(c)) < Len(history[c]) - 1
    <2>1. w = job[1]  BY NextWrite
    <2> QED  BY <1>3, <2>1 DEF Owing, IsMove, IsProposal
  <1>4. ASSUME NEW d \in Candidate, Proposing(d)
        PROVE  /\ IsMove(w) /\ tail[c] # "garbled" =>
                     Len(TransitionEvents(c)) + 1 < Len(history[c])
               /\ IsProposal(w) =>
                     /\ c \in dirs /\ Proposals(c) = 0
                     /\ tail[c] # "garbled" => Len(history[c]) >= 3
    <2>1. PICK k \in 0..10 :
              /\ k = 11 - Len(job) /\ w.cand = d
              /\ IsMove(w) <=> k \in {5, 8}
              /\ IsProposal(w) <=> k = 10
      BY <1>4, ProposingHead
    <2>2. /\ Proposals(c) = 0 /\ (k = 0 \/ c \in dirs)
          /\ tail[c] # "garbled" =>
                Len(history[c]) >= Written(k) /\ Len(TransitionEvents(c)) <= Moved(k)
      <3>1. Len(job) \in 1..11  BY <1>4 DEF Proposing
      <3>2. Len(job) = 11 => k = 0  BY <2>1, <3>1
      <3> QED  BY <1>4, <2>1, <3>2 DEF Proposing
    <2>3. Len(TransitionEvents(c)) \in Nat /\ Len(history[c]) \in Nat
      <3>1. TransitionEvents(c) \in Seq(Subject)  BY EventsTyped
      <3>2. history[c] \in Seq(StateRecord)  BY DEF TypeOK
      <3> QED  BY <3>1, <3>2
    <2>4. /\ Written(5) = 2 /\ Written(8) = 3 /\ Written(10) = 3
          /\ Moved(5) = 0 /\ Moved(8) = 1
      BY DEF Written, Moved
    <2>5. CASE k = 5  BY <2>1, <2>2, <2>3, <2>4, <2>5
    <2>6. CASE k = 8  BY <2>1, <2>2, <2>3, <2>4, <2>6
    <2>7. CASE k = 10
      <3>1. ~IsMove(w)  BY <2>1, <2>7
      <3>2. /\ c \in dirs /\ Proposals(c) = 0
            /\ tail[c] # "garbled" => Len(history[c]) >= 3
        BY <2>2, <2>4, <2>7
      <3> QED  BY <3>1, <3>2
    <2>8. CASE k \notin {5, 8, 10}  BY <2>1, <2>8
    <2> QED  BY <2>5, <2>6, <2>7, <2>8
  <1>5. Len(TransitionEvents(c)) \in Nat /\ Len(history[c]) \in Nat
    <2>1. TransitionEvents(c) \in Seq(Subject)  BY EventsTyped
    <2>2. history[c] \in Seq(StateRecord)  BY DEF TypeOK
    <2> QED  BY <2>1, <2>2
  <1>6. (\E d \in Candidate : Owing(d)) => 
           /\ ~IsProposal(w)
           /\ tail[c] # "garbled" => Len(TransitionEvents(c)) + 1 < Len(history[c])
    BY <1>3, <1>5
  <1> QED  BY <1>1, <1>2, <1>4, <1>6 DEF AboutOne

LEMMA CountsNext ==
    ASSUME TypeOK, AllFormed(job), Effect, Did, NEW c \in Candidate
    PROVE  /\ Len(TransitionEvents(c)) \in Nat /\ Len(history[c]) \in Nat /\ Proposals(c) \in Nat
           /\ \/ /\ w.kind = "event"
                 /\ Len(TransitionEvents(c)') = IF IsMove(w) /\ w.cand = c
                       THEN Len(TransitionEvents(c)) + 1 ELSE Len(TransitionEvents(c))
                 /\ Proposals(c)' =
                       IF IsProposal(w) /\ w.cand = c THEN Proposals(c) + 1 ELSE Proposals(c)
              \/ /\ Len(TransitionEvents(c)') = Len(TransitionEvents(c))
                 /\ Proposals(c)' = Proposals(c)
           /\ tail'[c] # "garbled" =>
                 /\ tail[c] # "garbled"
                 /\ Len(history'[c]) = IF w.kind = "state" /\ w.cand = c
                                       THEN Len(history[c]) + 1 ELSE Len(history[c])
  <1>1. PICK e \in Seq(Subject) : e = TransitionEvents(c)  BY EventsTyped
  <1>2. PICK h \in Seq(StateRecord) : h = history[c]  BY DEF TypeOK
  <1>3. Proposals(c) \in Nat  BY EventsTyped
  <1>4. w \in Write  BY NextWrite DEF Did
  <1>5. Len(e) \in Nat /\ Len(h) \in Nat /\ Len(Append(h, [to |-> w.of, evidence |-> w.value])) = Len(h) + 1
    OBVIOUS
  <1>6. Len(Append(e, w.of)) = Len(e) + 1  OBVIOUS
  <1>7. tail'[c] # "garbled" =>
           /\ tail[c] # "garbled"
           /\ Len(history'[c]) = IF w.kind = "state" /\ w.cand = c
                                 THEN Len(h) + 1 ELSE Len(h)
    BY <1>2, <1>5, TailsStay
  <1>8. \/ /\ w.kind = "event"
           /\ Len(TransitionEvents(c)') = IF IsMove(w) /\ w.cand = c
                 THEN Len(e) + 1 ELSE Len(e)
           /\ Proposals(c)' =
                 IF IsProposal(w) /\ w.cand = c THEN Proposals(c) + 1 ELSE Proposals(c)
        \/ /\ Len(TransitionEvents(c)') = Len(e)
           /\ Proposals(c)' = Proposals(c)
    BY <1>1, <1>6, EventsNext
  <1> QED  BY <1>1, <1>2, <1>3, <1>5, <1>7, <1>8

LEMMA BalancedNext ==
    ASSUME TypeOK, AllFormed(job), AboutOne, Effect, Did, NEW c \in Candidate, Balanced(c)
    PROVE  Balanced(c)'
  <1>1. c \in dirs => c \in dirs'  BY DEF Effect, OnFiles
  <1>2. job # <<>>  BY DEF Did
  <1>3. w.cand = c =>
           /\ IsMove(w) /\ tail[c] # "garbled" =>
                 Len(TransitionEvents(c)) + 1 < Len(history[c])
           /\ IsProposal(w) =>
                 /\ c \in dirs /\ Proposals(c) = 0
                 /\ tail[c] # "garbled" => Len(history[c]) >= 3
    BY <1>2, HeadIs
  <1>4. /\ IsMove(w) => w.kind # "state"
        /\ IsProposal(w) => w.kind # "state"
    BY DEF IsMove, IsProposal
  <1>5. tail'[c] # "garbled" =>
           Len(TransitionEvents(c)') = 0 \/ Len(TransitionEvents(c)') < Len(history'[c])
    BY <1>3, <1>4, CountsNext DEF Balanced
  <1>6. Proposals(c)' # 0 => c \in dirs' /\ (tail'[c] # "garbled" => Len(history'[c]) >= 3)
    BY <1>1, <1>3, <1>4, CountsNext DEF Balanced
  <1> QED  BY <1>5, <1>6 DEF Balanced

LEMMA ShortProposal ==
    ASSUME NEW k \in 0..10
    PROVE  /\ k \in {3, 4, 7} => Written(k + 1) <= Written(k) + 1
           /\ k \notin {3, 4, 7} => Written(k + 1) = Written(k)
           /\ k \in {5, 8} => Moved(k + 1) = Moved(k) + 1
           /\ Moved(k) <= Moved(k + 1)
           /\ Written(k) \in Nat /\ Moved(k) \in Nat
           /\ Written(k + 1) \in Nat /\ Moved(k + 1) \in Nat
  BY DEF Written, Moved

LEMMA ProposingNext ==
    ASSUME TypeOK, AllFormed(job), Effect, Did, NEW c \in Candidate, Proposing(c),
           job' = Tail(job)
    PROVE  AboutOne'
  <1>1. PICK k \in 0..10 :
           /\ k = 11 - Len(job) /\ w.cand = c
           /\ k = 0 => w.kind = "mkdir"
           /\ w.kind = "state" <=> k \in {3, 4, 7}
           /\ IsMove(w) <=> k \in {5, 8}
           /\ IsProposal(w) <=> k = 10
    BY ProposingHead
  <1>2. PICK n \in 1..11 : n = Len(job)  BY DEF Proposing
  <1>3. k = 11 - n  BY <1>1, <1>2
  <1>4. /\ AllFormed(job') /\ job' \in Seq(Write) /\ Len(job') = n - 1
        /\ \A i \in 1..n - 1 : job'[i] = job[i + 1]
    BY <1>2, NextWrite DEF Did, AllFormed
  <1>5. CASE k = 10
    <2>1. Len(job') = 0  BY <1>3, <1>4, <1>5
    <2>2. job' = <<>>  BY <1>4, <2>1
    <2> QED  BY <2>2, NothingIsHushed DEF AboutOne
  <1>6. CASE k # 10
    <2>1. n - 1 \in 1..11 /\ 11 - (n - 1) = k + 1 /\ n - 1 # 11  BY <1>3, <1>6
    <2>2. \A i \in 1..n - 1 : job'[i] = Proposal(c)[11 - (n - 1) + i]
      <3>1. ASSUME NEW i \in 1..n - 1  PROVE  job'[i] = Proposal(c)[11 - (n - 1) + i]
        <4>1. i + 1 \in 1..n /\ 11 - n + (i + 1) = 11 - (n - 1) + i  OBVIOUS
        <4>2. \A j \in 1..n : job[j] = Proposal(c)[11 - n + j]  BY <1>2 DEF Proposing
        <4>3. job[i + 1] = Proposal(c)[11 - n + (i + 1)]  BY <4>1, <4>2
        <4> QED  BY <1>4, <4>1, <4>3
      <3> QED  BY <3>1
    <2>3. c \in dirs'
      <3>1. k = 0 \/ c \in dirs  BY <1>2, <1>3 DEF Proposing
      <3> QED  BY <1>1, <3>1 DEF Effect, OnFiles
    <2>4. /\ Proposals(c) = 0
          /\ tail[c] # "garbled" =>
                Len(history[c]) >= Written(k) /\ Len(TransitionEvents(c)) <= Moved(k)
      BY <1>1 DEF Proposing
    <2>5. Proposals(c)' = 0  BY <1>1, <1>6, <2>4, CountsNext
    <2>6. /\ IsMove(w) => w.kind # "state"  BY DEF IsMove
    <2>7. ASSUME tail'[c] # "garbled"
          PROVE  /\ Len(history'[c]) >= Written(k + 1)
                 /\ Len(TransitionEvents(c)') <= Moved(k + 1)
      <3>0. /\ k \in {3, 4, 7} => Written(k + 1) <= Written(k) + 1
            /\ k \notin {3, 4, 7} => Written(k + 1) = Written(k)
            /\ k \in {5, 8} => Moved(k + 1) = Moved(k) + 1
            /\ Moved(k) <= Moved(k + 1)
            /\ Written(k) \in Nat /\ Moved(k) \in Nat
            /\ Written(k + 1) \in Nat /\ Moved(k + 1) \in Nat
        BY ShortProposal
      <3>1. /\ Len(history[c]) \in Nat /\ Len(TransitionEvents(c)) \in Nat
            /\ Len(history[c]) >= Written(k) /\ Len(TransitionEvents(c)) <= Moved(k)
            /\ Len(history'[c]) = IF k \in {3, 4, 7} THEN Len(history[c]) + 1 ELSE Len(history[c])
        BY <1>1, <2>4, <2>7, CountsNext
      <3>2. \/ Len(TransitionEvents(c)') = Len(TransitionEvents(c))
            \/ k \in {5, 8} /\ Len(TransitionEvents(c)') = Len(TransitionEvents(c)) + 1
        BY <1>1, CountsNext
      <3>3. Len(history'[c]) >= Written(k + 1)  BY <3>0, <3>1
      <3>4. Len(TransitionEvents(c)') <= Moved(k + 1)  BY <3>0, <3>1, <3>2
      <3> QED  BY <3>3, <3>4
    <2>8. Proposing(c)'  BY <1>4, <2>1, <2>2, <2>3, <2>5, <2>7 DEF Proposing
    <2> QED  BY <2>8 DEF AboutOne
  <1> QED  BY <1>5, <1>6

LEMMA TurningNext ==
    ASSUME TypeOK, AllFormed(job), Effect, Did, NEW c \in Candidate, NEW to \in State,
           Turning(c, to), Balanced(c), job' = Tail(job)
    PROVE  AboutOne'
  <1>1. PICK q \in Seq(Hushed), v \in Content : job = q \o Transition(c, to, v)
    BY DEF Turning
  <1>2. ASSUME w \in Hushed, NEW r \in Seq(Hushed), Tail(job) = r \o Transition(c, to, v)
        PROVE  Turning(c, to)'
    <2>1. w.kind # "state"  BY <1>2 DEF Hushed
    <2>2. tail'[c] # "garbled" => tail[c] # "garbled" /\ history'[c] = history[c]
      BY <2>1, TailsStay
    <2>3. tail'[c] # "garbled" => history'[c] # <<>> /\ to \in Allowed(CurrentState(c))'
      BY <2>2 DEF Turning, CurrentState, Allowed
    <2> QED  BY <1>2, <2>3 DEF Turning
  <1>3. ASSUME IsState(w, c, to),
               Len(Tail(job)) = 2, IsMove(Tail(job)[1]), Tail(job)[1].cand = c,
               Tail(job)[2].kind = "index"
        PROVE  Owing(c)'
    <2>1. w.kind = "state" /\ w.cand = c /\ ~IsMove(w)  BY <1>3 DEF IsState, IsMove
    <2>2. ASSUME tail'[c] # "garbled"
          PROVE  Len(TransitionEvents(c)') < Len(history'[c]) - 1
      <3>1. /\ tail[c] # "garbled" /\ Len(history'[c]) = Len(history[c]) + 1
            /\ Len(TransitionEvents(c)') = Len(TransitionEvents(c))
            /\ Len(history[c]) \in Nat /\ Len(TransitionEvents(c)) \in Nat
        BY <2>1, <2>2, CountsNext
      <3>2. Len(history[c]) # 0
        <4>1. history[c] # <<>> /\ history[c] \in Seq(StateRecord)
          BY <3>1 DEF Turning, TypeOK
        <4> QED  BY <4>1
      <3> QED  BY <3>1, <3>2 DEF Balanced
    <2>3. IsMove(job'[1])  BY <1>3
    <2> QED  BY <1>3, <2>2, <2>3 DEF Owing, IsMove
  <1> QED  BY <1>1, <1>2, <1>3, TurningHead DEF AboutOne

LEMMA AboutNext ==
    ASSUME TypeOK, AllFormed(job), TurnInv, Effect, Did  PROVE  AboutOne'
  <1>1. job # <<>>  BY DEF Did
  <1>2. CASE job' = <<>>  BY <1>2, NothingIsHushed DEF AboutOne
  <1>3. CASE job' = Tail(job)
    <2>1. CASE job \in Seq(Hushed)  BY <1>1, <1>3, <2>1, HushedHead DEF AboutOne
    <2>2. ASSUME NEW c \in Candidate, NEW to \in State, Turning(c, to)  PROVE  AboutOne'
      BY <1>3, <2>2, TurningNext DEF TurnInv
    <2>3. ASSUME NEW c \in Candidate, Owing(c)  PROVE  AboutOne'
      <3>1. /\ job' \in Seq(Write) /\ Len(job') = Len(job) - 1 /\ Len(job) = 2
            /\ job[2].kind = "index" /\ job \in Seq(Write)
            /\ \A i \in 1..Len(job) - 1 : job'[i] = job[i + 1]
        BY <1>1, <1>3, <2>3, NextWrite DEF AllFormed, Owing
      <3>2. Len(job') = 1  BY <3>1
      <3>3. PICK x \in Write : x = job'[1] /\ job' = <<x>>  BY <3>1, <3>2
      <3>4. x.kind = "index"
        <4>1. 1 \in 1..Len(job) - 1 /\ 1 + 1 = 2  BY <3>1
        <4> QED  BY <3>1, <3>3, <4>1
      <3>5. x \in Hushed  BY <3>4 DEF Hushed, IsMove, IsProposal
      <3>6. job' \in Seq(Hushed)  BY <3>3, <3>5
      <3> QED  BY <3>6 DEF AboutOne
    <2>4. ASSUME NEW c \in Candidate, Proposing(c)  PROVE  AboutOne'
      BY <1>3, <2>4, ProposingNext
    <2> QED  BY <2>1, <2>2, <2>3, <2>4 DEF TurnInv, AboutOne
  <1> QED  BY <1>2, <1>3 DEF Did

LEMMA SameBalance ==
    ASSUME UNCHANGED <<dirs, history, tail, ledger>>, NEW c, Balanced(c)
    PROVE  Balanced(c)'
  <1>1. \A type : EventsOf(c, type)' = EventsOf(c, type)  BY DEF EventsOf
  <1>2. TransitionEvents(c)' = TransitionEvents(c) /\ Proposals(c)' = Proposals(c)
    BY <1>1 DEF TransitionEvents, Proposals
  <1> QED  BY <1>2 DEF Balanced

LEMMA QuietIsAboutOne ==
    ASSUME job' \in Seq(Hushed)  PROVE  AboutOne'
  BY DEF AboutOne

LEMMA TurnAtStart ==
    ASSUME TypeOK, DirInv, TurnInv, Operation  PROVE  TurnInv'
  <1>1. UNCHANGED <<dirs, history, tail, ledger>>  BY OperationStarts DEF store, records
  <1>2. \A c \in Candidate : Balanced(c)'  BY <1>1, SameBalance DEF TurnInv
  <1>3. CASE job' \in Seq(Hushed)  BY <1>2, <1>3, QuietIsAboutOne DEF TurnInv
  <1>4. ASSUME NEW c \in Candidate, NEW to \in State, Moving(job', c, to)  PROVE  AboutOne'
    <2>1. history[c] # <<>> /\ to \in Allowed(CurrentState(c))  BY <1>4 DEF Moving, Readable
    <2>2. Turning(c, to)'  BY <1>1, <1>4, <2>1 DEF Turning, Moving, CurrentState
    <2> QED  BY <2>2 DEF AboutOne
  <1>5. ASSUME NEW c \in Candidate, c \notin dirs, job' = Proposal(c)  PROVE  AboutOne'
    <2>1. Len(job') = 11  BY <1>5, ProposalIs DEF Proposes
    <2>2. Proposals(c) = 0 /\ history[c] = <<>>  BY <1>5 DEF TurnInv, Balanced, DirInv
    <2>3. Proposals(c)' = Proposals(c) /\ TransitionEvents(c)' = TransitionEvents(c)
      <3>1. \A type : EventsOf(c, type)' = EventsOf(c, type)  BY <1>1 DEF EventsOf
      <3> QED  BY <3>1 DEF TransitionEvents, Proposals
    <2>4. tail[c] # "garbled" => Len(history[c]) = 0 /\ Len(TransitionEvents(c)) = 0
      <3>1. Len(<<>>) = 0  OBVIOUS
      <3>2. TransitionEvents(c) \in Seq(Subject)  BY EventsTyped
      <3>3. Len(TransitionEvents(c)) \in Nat  BY <3>2
      <3> QED  BY <2>2, <3>1, <3>3 DEF TurnInv, Balanced
    <2>5. Written(0) = 0 /\ Moved(0) = 0  BY DEF Written, Moved
    <2>6. tail'[c] # "garbled" =>
             Len(history'[c]) >= Written(0) /\ Len(TransitionEvents(c)') <= Moved(0)
      BY <1>1, <2>3, <2>4, <2>5
    <2>7. \A i \in 1..11 : 11 - 11 + i = i  OBVIOUS
    <2>8. 11 \in 1..11 /\ 11 - 11 = 0  OBVIOUS
    <2>9. Proposing(c)'  BY <1>5, <2>1, <2>2, <2>3, <2>6, <2>7, <2>8 DEF Proposing
    <2> QED  BY <2>9 DEF AboutOne
  <1> QED  BY <1>2, <1>3, <1>4, <1>5, OperationMoves DEF TurnInv

LEMMA TurnAtRest ==
    ASSUME TurnInv, Rested  PROVE  TurnInv'
  <1>1. UNCHANGED <<dirs, history, tail, ledger>>  BY DEF Rested
  <1>2. \A c \in Candidate : Balanced(c)'  BY <1>1, SameBalance DEF TurnInv
  <1>3. CASE job' = <<>>  BY <1>2, <1>3, NothingIsHushed DEF TurnInv, AboutOne
  <1>4. CASE job' = job
    <2>1. \A c : TransitionEvents(c)' = TransitionEvents(c) /\ Proposals(c)' = Proposals(c)
      <3>1. \A c, type : EventsOf(c, type)' = EventsOf(c, type)  BY <1>1 DEF EventsOf
      <3> QED  BY <3>1 DEF TransitionEvents, Proposals
    <2>2. CASE job \in Seq(Hushed)  BY <1>2, <1>4, <2>2 DEF TurnInv, AboutOne
    <2>3. ASSUME NEW c \in Candidate, NEW to \in State, Turning(c, to)
          PROVE  Turning(c, to)'
      BY <1>1, <1>4, <2>3 DEF Turning, CurrentState
    <2>4. ASSUME NEW c \in Candidate, Owing(c)  PROVE  Owing(c)'
      BY <1>1, <1>4, <2>1, <2>4 DEF Owing, IsMove
    <2>5. ASSUME NEW c \in Candidate, Proposing(c)  PROVE  Proposing(c)'
      BY <1>1, <1>4, <2>1, <2>5 DEF Proposing
    <2> QED  BY <1>2, <2>2, <2>3, <2>4, <2>5 DEF TurnInv, AboutOne
  <1> QED  BY <1>3, <1>4 DEF Rested

LEMMA TurnHolds == Init => TurnInv
  <1> SUFFICES ASSUME Init  PROVE TurnInv  OBVIOUS
  <1>1. job \in Seq(Hushed)  BY NothingIsHushed DEF Init
  <1>2. ASSUME NEW c \in Candidate  PROVE  Len(TransitionEvents(c)) = 0 /\ Proposals(c) = 0
    <2>1. PICK l \in Seq(Event) : l = ledger  BY InitHolds DEF IInv, TypeOK
    <2>2. \A i \in 1..Len(l) :
             l[i].type # "STATE_TRANSITION" /\ l[i].type # "CANDIDATE_PROPOSED"
      BY <2>1 DEF Init
    <2>3. /\ Selected(l, c, "STATE_TRANSITION") = <<>>
          /\ Selected(l, c, "CANDIDATE_PROPOSED") = <<>>
      BY <2>2, SelectedNone
    <2>4. EventsOf(c, "STATE_TRANSITION") = <<>> /\ EventsOf(c, "CANDIDATE_PROPOSED") = <<>>
      BY <2>1, <2>3 DEF EventsOf
    <2>5. Subjects(<<>>) = <<>> /\ Len(<<>>) = 0  BY DEF Subjects
    <2>6. TransitionEvents(c) = <<>>  BY <2>4, <2>5 DEF TransitionEvents, Subjects
    <2> QED  BY <2>4, <2>5, <2>6 DEF Proposals
  <1> QED  BY <1>1, <1>2 DEF TurnInv, AboutOne, Balanced

LEMMA TurnNext == IInv /\ TurnInv /\ [Next]_vars => TurnInv'
  <1> SUFFICES ASSUME IInv, TurnInv, [Next]_vars  PROVE TurnInv'  OBVIOUS
  <1>1. TypeOK /\ Good(job) /\ DirInv /\ AllFormed(job)  BY DEF IInv, StoreInv, Good
  <1>2. CASE Effect /\ Did  BY <1>1, <1>2, AboutNext, BalancedNext DEF TurnInv
  <1> QED  BY <1>1, <1>2, StepsAre, TurnAtStart, TurnAtRest

LEMMA TurnInvariance == Spec => [](IInv /\ TurnInv)
  <1>1. Init => IInv /\ TurnInv  BY InitHolds, TurnHolds
  <1>2. IInv /\ TurnInv /\ [Next]_vars => (IInv /\ TurnInv)'  BY NextKeeps, TurnNext
  <1> QED  BY <1>1, <1>2, PTL DEF Spec

-----------------------------------------------------------------------------
(* What a history that will be valid tells of the one there is.             *)

LEMMA WillBe ==
    ASSUME job \in Seq(Write), NEW c
    PROVE  WillBeValid(c) <=>
              /\ ~torn /\ tail[c] # "garbled"
              /\ WillBePresent(c, "candidate") /\ WillBePresent(c, "hypothesis")
              /\ HistoryBound(Targets(history[c]) \o Sub(job, c, "state"),
                              TransitionEvents(c) \o Sub(job, c, "STATE_TRANSITION"),
                              Proposals(c) + Len(Sub(job, c, "CANDIDATE_PROPOSED")))
  <1>1. \A type : ToCome(c, type) = Sel(job, c, type)  BY DEF ToCome, Sel
  <1>2. Len(Sub(job, c, "CANDIDATE_PROPOSED")) = Len(Sel(job, c, "CANDIDATE_PROPOSED"))
    BY SubTyped
  <1> QED  BY <1>1, <1>2 DEF WillBeValid, Sub, Proposals

LEMMA TargetsTyped ==
    ASSUME NEW h \in Seq(StateRecord)
    PROVE  Targets(h) \in Seq(Subject) /\ Len(Targets(h)) = Len(h)
           /\ \A i \in 1..Len(h) : Targets(h)[i] = h[i].to
  <1>1. \A i \in 1..Len(h) : h[i].to \in Subject
    <2>1. \A i \in 1..Len(h) : h[i] \in StateRecord  OBVIOUS
    <2> QED  BY <2>1 DEF StateRecord, Subject
  <1> QED  BY <1>1 DEF Targets

(* One more legal move, on both sides.                                      *)
LEMMA OneMoreMove ==
    ASSUME NEW t \in Seq(Subject), NEW e \in Seq(Subject), NEW to \in Subject, NEW n,
           Len(t) >= 3
    PROVE  HistoryBound(t \o <<to>>, e \o <<to>>, n) <=>
              HistoryBound(t, e, n) /\ to \in Allowed(t[Len(t)])
  <1>1. PICK u \in Seq(Subject) : u = t \o <<to>>
    <2>1. t \o <<to>> \in Seq(Subject)  OBVIOUS
    <2> QED  BY <2>1
  <1>2. /\ Len(t) \in Nat /\ Len(u) = Len(t) + 1 /\ u[Len(t) + 1] = to
        /\ \A i \in 1..Len(t) : u[i] = t[i]
    BY <1>1
  <1>3. Tail(u) = Tail(t) \o <<to>> /\ Tail(t) \in Seq(Subject)
    <2>1. t # <<>>  OBVIOUS
    <2> QED  BY <1>1, <2>1
  <1>4. e \o <<to>> = Tail(u) <=> e = Tail(t)
    <2>1. PICK y \in Seq(Subject) : y = Tail(t)  BY <1>3
    <2>2. e \o <<to>> = y \o <<to>> => e = y
      <3>1. /\ Len(e \o <<to>>) = Len(e) + 1 /\ Len(y \o <<to>>) = Len(y) + 1
            /\ Len(e) \in Nat /\ Len(y) \in Nat
            /\ \A i \in 1..Len(e) : (e \o <<to>>)[i] = e[i]
            /\ \A i \in 1..Len(y) : (y \o <<to>>)[i] = y[i]
        OBVIOUS
      <3>2. ASSUME e \o <<to>> = y \o <<to>>
            PROVE  Len(e) = Len(y) /\ \A i \in 1..Len(e) : e[i] = y[i]
        BY <3>1, <3>2
      <3> QED  BY <3>2, SameSequence
    <2> QED  BY <1>3, <2>1, <2>2
  <1>5. (\A i \in 2..Len(u) : u[i] \in Allowed(u[i - 1])) <=>
           /\ \A i \in 2..Len(t) : t[i] \in Allowed(t[i - 1])
           /\ to \in Allowed(t[Len(t)])
    <2>1. \A i \in 2..Len(t) : i \in 1..Len(t) /\ i - 1 \in 1..Len(t) /\ i \in 2..Len(u)
      BY <1>2
    <2>2. \A i \in 2..Len(u) : i \in 2..Len(t) \/ i = Len(t) + 1  BY <1>2
    <2>3. Len(t) + 1 \in 2..Len(u) /\ Len(t) + 1 - 1 = Len(t) /\ Len(t) \in 1..Len(t)
      BY <1>2
    <2>4. u[Len(t)] = t[Len(t)]  BY <1>2, <2>3
    <2>5. \A i \in 2..Len(t) : u[i] = t[i] /\ u[i - 1] = t[i - 1]  BY <1>2, <2>1
    <2>6. ASSUME \A i \in 2..Len(u) : u[i] \in Allowed(u[i - 1])
          PROVE  /\ \A i \in 2..Len(t) : t[i] \in Allowed(t[i - 1])
                 /\ to \in Allowed(t[Len(t)])
      <3>1. \A i \in 2..Len(t) : u[i] \in Allowed(u[i - 1])  BY <2>1, <2>6
      <3>2. u[Len(t) + 1] \in Allowed(u[Len(t) + 1 - 1])  BY <2>3, <2>6
      <3> QED  BY <1>2, <2>3, <2>4, <2>5, <3>1, <3>2
    <2>7. ASSUME \A i \in 2..Len(t) : t[i] \in Allowed(t[i - 1]), to \in Allowed(t[Len(t)]),
                 NEW i \in 2..Len(u)
          PROVE  u[i] \in Allowed(u[i - 1])
      <3>1. CASE i \in 2..Len(t)
        <4>1. t[i] \in Allowed(t[i - 1]) /\ u[i] = t[i] /\ u[i - 1] = t[i - 1]
          BY <2>5, <2>7, <3>1
        <4> QED  BY <4>1
      <3>2. CASE i = Len(t) + 1
        <4>1. u[i] = to /\ i - 1 = Len(t)  BY <1>2, <3>2
        <4> QED  BY <2>4, <2>7, <4>1
      <3> QED  BY <2>2, <3>1, <3>2
    <2> QED  BY <2>6, <2>7
  <1>6. u[1] = t[1] /\ Len(u) >= 3
    <2>1. 1 \in 1..Len(t)  BY <1>2
    <2> QED  BY <1>2, <2>1
  <1> QED  BY <1>1, <1>4, <1>5, <1>6 DEF HistoryBound

LEMMA MovingSub ==
    ASSUME NEW d \in Candidate, NEW to \in State, NEW s, Bringing(s, d, to), NEW c
    PROVE  /\ d = c => /\ Sub(s, c, "state") = <<to>>
                       /\ Sub(s, c, "STATE_TRANSITION") = <<to>>
                       /\ Sub(s, c, "CANDIDATE_PROPOSED") = <<>>
           /\ d # c => \A type \in Kind3 : Sub(s, c, type) = <<>>
  <1>0. PICK q \in Seq(Hushed), v \in Content : s = q \o Transition(d, to, v)
    BY DEF Bringing
  <1>1. PICK t \in Seq(Write) : t = Transition(d, to, v)  BY TransitionIs DEF AllFormed
  <1>2. PICK p \in Seq(Write) : p = q  BY HushedIsWrite
  <1>3. /\ Sub(t, c, "state") = IF c = d THEN <<to>> ELSE <<>>
        /\ Sub(t, c, "STATE_TRANSITION") = IF c = d THEN <<to>> ELSE <<>>
        /\ Sub(t, c, "CANDIDATE_PROPOSED") = <<>>
    BY <1>1, TransitionSub
  <1>4. <<>> \o <<>> = <<>> /\ <<>> \o <<to>> = <<to>>  OBVIOUS
  <1>5. ASSUME NEW type \in Kind3  PROVE  Sub(p \o t, c, type) = <<>> \o Sub(t, c, type)
    <2>1. Sub(p \o t, c, type) = Sub(p, c, type) \o Sub(t, c, type)  BY SubConcat
    <2>2. Sub(q, c, type) = <<>>  BY HushedSub
    <2> QED  BY <1>2, <2>1, <2>2
  <1>6. CASE d = c  BY <1>0, <1>1, <1>2, <1>3, <1>4, <1>5, <1>6 DEF Kind3
  <1>7. CASE d # c  BY <1>0, <1>1, <1>2, <1>3, <1>4, <1>5, <1>7 DEF Kind3
  <1> QED  BY <1>6, <1>7

(* What the operation in progress will still bring to a candidate.          *)
LEMMA StillToCome ==
    ASSUME AllFormed(job), AboutOne, NEW c \in Candidate
    PROVE  \/ \A type \in Kind3 : Sub(job, c, type) = <<>>
           \/ \E to \in State :
                 /\ Turning(c, to)
                 /\ Sub(job, c, "state") = <<to>> /\ Sub(job, c, "STATE_TRANSITION") = <<to>>
                 /\ Sub(job, c, "CANDIDATE_PROPOSED") = <<>>
           \/ Owing(c)
           \/ Proposing(c)
  <1>1. job \in Seq(Write)  BY DEF AllFormed
  <1>2. CASE job \in Seq(Hushed)  BY <1>2, HushedSub
  <1>3. ASSUME NEW d \in Candidate, NEW to \in State, Turning(d, to)
        PROVE  \/ \A type \in Kind3 : Sub(job, c, type) = <<>>
               \/ /\ d = c
                  /\ Sub(job, c, "state") = <<to>> /\ Sub(job, c, "STATE_TRANSITION") = <<to>>
                  /\ Sub(job, c, "CANDIDATE_PROPOSED") = <<>>
    <2>1. Bringing(job, d, to)  BY <1>3 DEF Turning, Bringing
    <2>2. /\ d = c => /\ Sub(job, c, "state") = <<to>>
                      /\ Sub(job, c, "STATE_TRANSITION") = <<to>>
                      /\ Sub(job, c, "CANDIDATE_PROPOSED") = <<>>
          /\ d # c => \A type \in Kind3 : Sub(job, c, type) = <<>>
      BY <2>1, MovingSub
    <2> QED  BY <2>2
  <1>4. ASSUME NEW d \in Candidate, d # c, Owing(d), NEW type \in Kind3
        PROVE  Sub(job, c, type) = <<>>
    <2>0. (\A i \in 1..Len(job) : job[i] \in Write) /\ 1 \in 1..Len(job) /\ 2 \in 1..Len(job)
      <3>1. \A i \in 1..Len(job) : job[i] \in Write  BY <1>1
      <3> QED  BY <1>4, <3>1 DEF Owing
    <2>1. PICK x \in Write : x = job[1]  BY <2>0
    <2>2. PICK y \in Write : y = job[2]  BY <2>0
    <2>3. x.cand = d /\ Told(y).type = "index"  BY <1>4, <2>1, <2>2 DEF Owing, Told
    <2>4. \A i \in 1..Len(job) : i = 1 \/ i = 2  BY <1>4 DEF Owing
    <2>5. "index" \notin Kind3  BY DEF Kind3
    <2> HIDE DEF Told
    <2>6. \A i \in 1..Len(job) : ~(job[i].cand = c /\ Told(job[i]).type = type)
      BY <1>4, <2>1, <2>2, <2>3, <2>4, <2>5
    <2> QED  BY <1>1, <2>6, SubNone
  <1>5. ASSUME NEW d \in Candidate, d # c, Proposing(d), NEW type \in Kind3
        PROVE  Sub(job, c, type) = <<>>
    <2>1. PICK n \in 1..11 : n = Len(job)  BY <1>5 DEF Proposing
    <2>2. ASSUME NEW i \in 1..n  PROVE  job[i].cand = d
      <3>1. \A k \in 1..n : job[k] = Proposal(d)[11 - n + k]  BY <1>5, <2>1 DEF Proposing
      <3>2. PICK k \in 1..11 : k = 11 - n + i
        <4>1. 11 - n + i \in 1..11  OBVIOUS
        <4> QED  BY <4>1
      <3>3. job[i] = Proposal(d)[k]  BY <3>1, <3>2
      <3> QED  BY <3>3, ProposalMarks
    <2>3. \A i \in 1..Len(job) : ~(job[i].cand = c /\ Told(job[i]).type = type)
      BY <1>5, <2>1, <2>2
    <2> QED  BY <1>1, <2>3, SubNone
  <1> QED  BY <1>2, <1>3, <1>4, <1>5 DEF AboutOne

(* A history that is valid without the operation in progress is so with it: *)
(* giving an operation up repairs nothing.                                  *)
LEMMA GivingUp ==
    ASSUME TypeOK, AllFormed(job), AboutOne, NEW c \in Candidate, tail[c] # "garbled",
           HistoryBound(Targets(history[c]), TransitionEvents(c), Proposals(c))
    PROVE  HistoryBound(Targets(history[c]) \o Sub(job, c, "state"),
                        TransitionEvents(c) \o Sub(job, c, "STATE_TRANSITION"),
                        Proposals(c) + Len(Sub(job, c, "CANDIDATE_PROPOSED")))
  <1>1. PICK h \in Seq(StateRecord) : h = history[c]  BY DEF TypeOK
  <1>2. PICK t \in Seq(Subject) : t = Targets(h)  BY TargetsTyped
  <1>3. PICK e \in Seq(Subject) : e = TransitionEvents(c)  BY EventsTyped
  <1>4. PICK n \in Nat : n = Proposals(c)  BY EventsTyped
  <1>5. HistoryBound(t, e, n) /\ Len(t) = Len(h) /\ \A i \in 1..Len(h) : t[i] = h[i].to
    BY <1>1, <1>2, <1>3, <1>4, TargetsTyped
  <1>6. t \o <<>> = t /\ e \o <<>> = e /\ n + 0 = n /\ Len(<<>>) = 0  OBVIOUS
  <1>7. Len(t) >= 3 /\ e = Tail(t) /\ n = 1  BY <1>5 DEF HistoryBound
  <1>8. CASE \A type \in Kind3 : Sub(job, c, type) = <<>>
    BY <1>1, <1>2, <1>3, <1>4, <1>5, <1>6, <1>8 DEF Kind3
  <1>9. ASSUME NEW to \in State, Turning(c, to),
               Sub(job, c, "state") = <<to>>, Sub(job, c, "STATE_TRANSITION") = <<to>>,
               Sub(job, c, "CANDIDATE_PROPOSED") = <<>>
        PROVE  HistoryBound(t \o <<to>>, e \o <<to>>, n)
    <2>1. to \in Allowed(h[Len(h)].to)  BY <1>1, <1>9 DEF Turning, CurrentState
    <2>2. Len(h) \in 1..Len(h)  BY <1>5, <1>7
    <2>3. to \in Allowed(t[Len(t)])  BY <1>5, <2>1, <2>2
    <2>4. to \in Subject  BY DEF Subject
    <2> QED  BY <1>5, <1>7, <2>3, <2>4, OneMoreMove
  <1>10. CASE Owing(c)
    <2>1. Len(e) < Len(h) - 1  BY <1>1, <1>3, <1>10 DEF Owing
    <2>2. Len(Tail(t)) = Len(t) - 1
      <3>1. t # <<>>  BY <1>7
      <3> QED  BY <3>1
    <2>3. Len(t) \in Nat  OBVIOUS
    <2> QED  BY <1>5, <1>7, <2>1, <2>2, <2>3
  <1>11. CASE Proposing(c)
    <2>1. Proposals(c) = 0  BY <1>11 DEF Proposing
    <2>2. n = 1  BY <1>5 DEF HistoryBound
    <2>3. FALSE  BY <1>4, <2>1, <2>2
    <2> QED  BY <2>3
  <1> QED  BY <1>1, <1>2, <1>3, <1>4, <1>6, <1>8, <1>9, <1>10, <1>11, StillToCome

LEMMA PresentAtStart ==
    ASSUME TypeOK, DirInv, Operation, NEW c \in dirs, c \in Candidate,
           NEW name \in {"candidate", "hypothesis"}, WillBePresent(c, name)'
    PROVE  WillBePresent(c, name)
  <1>1. UNCHANGED file  BY OperationStarts DEF store, records
  <1>2. Present(c, name)' => Present(c, name)  BY <1>1 DEF Present
  <1>3. SUFFICES ASSUME Pending(c, "file", name)' # {}  PROVE FALSE
    BY <1>2 DEF WillBePresent
  <1>4. PICK k \in DOMAIN job' : job'[k].kind = "file" /\ job'[k].cand = c /\ job'[k].of = name
    BY <1>3 DEF Pending
  <1>5. Hushed \subseteq Plainly  BY DEF Hushed, Plainly
  <1>6. job' \in Seq(Plainly) => FALSE
    <2>1. SUFFICES ASSUME job' \in Seq(Plainly)  PROVE FALSE  OBVIOUS
    <2>2. job'[k] \in Plainly  BY <1>4, <2>1
    <2> QED  BY <1>4, <2>2 DEF Plainly
  <1>7. CASE job' \in Seq(Hushed)  BY <1>5, <1>6, <1>7
  <1>8. ASSUME NEW d \in Candidate, NEW to \in State, Moving(job', d, to)  PROVE  FALSE
    <2>1. PICK q \in Seq(Hushed), v \in Content : job' = q \o Transition(d, to, v)
      BY <1>8 DEF Moving
    <2>2. PICK t \in Seq(Write) : t = Transition(d, to, v)  BY TransitionIs DEF AllFormed
    <2>3. Len(t) = 3 /\ t[1].kind = "state" /\ t[2].kind = "event" /\ t[3].kind = "index"
      <3>1. /\ Len(t) = 3
            /\ t[1] = [kind |-> "state", cand |-> d, of |-> to, value |-> v]
            /\ t[2] = [kind |-> "event", cand |-> d, of |-> to, value |-> "STATE_TRANSITION"]
            /\ t[3] = [kind |-> "index", cand |-> d, of |-> to, value |-> "absent"]
        BY <2>2, TransitionIs
      <3> QED  BY <3>1
    <2>4. t \in Seq(Plainly)
      <3>1. \A i \in 1..Len(t) : t[i] \in Write /\ t[i].kind # "file"
        <4>1. \A i \in 1..Len(t) : t[i] \in Write  OBVIOUS
        <4>2. \A i \in 1..Len(t) : i = 1 \/ i = 2 \/ i = 3  BY <2>3
        <4> QED  BY <2>3, <4>1, <4>2
      <3>2. \A i \in 1..Len(t) : t[i] \in Plainly  BY <3>1 DEF Plainly
      <3> QED  BY <3>2, SequenceOver
    <2>5. PICK p \in Seq(Plainly) : p = q  BY <1>5
    <2>6. p \o t \in Seq(Plainly)  BY <2>4, ConcatTyped
    <2> QED  BY <1>6, <2>1, <2>2, <2>5, <2>6
  <1>9. ASSUME NEW d \in Candidate, d \notin dirs, job' = Proposal(d)  PROVE  FALSE
    <2>1. PICK s : s = Proposal(d)  OBVIOUS
    <2>2. s \in Seq(About(d, State)) /\ k \in DOMAIN s
      BY <1>4, <1>9, <2>1, ProposalAbout DEF Proper
    <2>3. s[k] \in About(d, State)  BY <2>2
    <2>4. s[k].cand = d  BY <2>3 DEF About
    <2> QED  BY <1>4, <1>9, <2>1, <2>4
  <1> QED  BY <1>7, <1>8, <1>9, OperationMoves

LEMMA PresentBefore ==
    ASSUME AllFormed(job), Effect, Did, NEW c \in Candidate, NEW name \in FileName,
           WillBePresent(c, name)'
    PROVE  WillBePresent(c, name)
  <1>1. /\ w = job[1] /\ Len(job) \in Nat \ {0} /\ job \in Seq(Write)
        /\ Len(Tail(job)) = Len(job) - 1 /\ Tail(job) \in Seq(Write)
        /\ \A i \in 1..Len(job) - 1 : Tail(job)[i] = job[i + 1]
    BY NextWrite DEF Did, AllFormed
  <1>2. CASE Present(c, name)'
    <2>1. CASE w.kind = "file" /\ w.cand = c /\ w.of = name
      <3>1. 1 \in DOMAIN job  BY <1>1
      <3> QED  BY <1>1, <2>1, <3>1 DEF WillBePresent, Pending
    <2>2. CASE ~(w.kind = "file" /\ w.cand = c /\ w.of = name)
      <3>1. file'[c][name] = file[c][name]  BY <2>2 DEF Effect, OnFiles
      <3> QED  BY <1>2, <3>1 DEF Present, WillBePresent
    <2> QED  BY <2>1, <2>2
  <1>3. CASE Pending(c, "file", name)' # {}
    <2>1. PICK k \in DOMAIN job' : job'[k].kind = "file" /\ job'[k].cand = c /\ job'[k].of = name
      BY <1>3 DEF Pending
    <2>2. job' = Tail(job)
      <3>1. job' # <<>>  BY <2>1
      <3> QED  BY <3>1 DEF Did
    <2>3. k \in 1..Len(job) - 1  BY <1>1, <2>1, <2>2
    <2>4. k + 1 \in DOMAIN job /\ job'[k] = job[k + 1]  BY <1>1, <2>2, <2>3
    <2> QED  BY <2>1, <2>4 DEF WillBePresent, Pending
  <1> QED  BY <1>2, <1>3 DEF WillBePresent

-----------------------------------------------------------------------------
(* What is lost stays lost.                                                 *)

LEMMA WillBeNext ==
    ASSUME job' \in Seq(Write), NEW c
    PROVE  WillBeValid(c)' <=>
              /\ ~torn' /\ tail'[c] # "garbled"
              /\ WillBePresent(c, "candidate")' /\ WillBePresent(c, "hypothesis")'
              /\ HistoryBound(Targets(history'[c]) \o Sub(job', c, "state"),
                              TransitionEvents(c)' \o Sub(job', c, "STATE_TRANSITION"),
                              Proposals(c)' + Len(Sub(job', c, "CANDIDATE_PROPOSED")))
  <1>1. \A type : ToCome(c, type)' = Sel(job', c, type)  BY DEF ToCome, Sel
  <1>2. PICK s \in Seq(Write) : s = job'  OBVIOUS
  <1>3. Len(Sub(s, c, "CANDIDATE_PROPOSED")) = Len(Sel(s, c, "CANDIDATE_PROPOSED"))
    BY SubTyped
  <1> QED  BY <1>1, <1>2, <1>3 DEF WillBeValid, Sub, Proposals

LEMMA NothingToCome ==
    ASSUME NEW c, NEW type  PROVE  Sub(<<>>, c, type) = <<>>
  <1>1. PICK s \in Seq(Write) : s = <<>>
    <2>1. <<>> \in Seq(Write)  OBVIOUS
    <2> QED  BY <2>1
  <1>2. \A i \in 1..Len(s) : FALSE  BY <1>1
  <1> QED  BY <1>1, <1>2, SubNone

(* The files stay, and nothing is torn that was not.                        *)
LEMMA ValidBefore ==
    ASSUME TypeOK, NEW c \in Candidate
    PROVE  /\ Targets(history[c]) \in Seq(Subject) /\ TransitionEvents(c) \in Seq(Subject)
           /\ Proposals(c) \in Nat
           /\ Targets(history[c]) \o <<>> = Targets(history[c])
           /\ TransitionEvents(c) \o <<>> = TransitionEvents(c)
           /\ Proposals(c) + Len(<<>>) = Proposals(c)
  <1>1. PICK h \in Seq(StateRecord) : h = history[c]  BY DEF TypeOK
  <1>2. PICK t \in Seq(Subject) : t = Targets(h)  BY TargetsTyped
  <1>3. PICK e \in Seq(Subject) : e = TransitionEvents(c)  BY EventsTyped
  <1>4. PICK n \in Nat : n = Proposals(c)  BY EventsTyped
  <1>5. t \o <<>> = t /\ e \o <<>> = e /\ n + Len(<<>>) = n  OBVIOUS
  <1> QED  BY <1>1, <1>2, <1>3, <1>4, <1>5

LEMMA LostAtStart ==
    ASSUME TypeOK, DirInv, TurnInv, Operation, NEW c \in Candidate, c \in dirs,
           WillBeValid(c)'
    PROVE  WillBeValid(c)
  <1>1. job = <<>> /\ job \in Seq(Write) /\ job' \in Seq(Write)
        /\ UNCHANGED <<dirs, file, history, tail, ledger, torn>>
    BY OperationStarts DEF Good, AllFormed, store, records, intake
  <1>2. TransitionEvents(c)' = TransitionEvents(c) /\ Proposals(c)' = Proposals(c)
    <2>1. \A type : EventsOf(c, type)' = EventsOf(c, type)  BY <1>1 DEF EventsOf
    <2> QED  BY <2>1 DEF TransitionEvents, Proposals
  <1>3. PICK h \in Seq(StateRecord) : h = history[c]  BY DEF TypeOK
  <1>4. PICK t \in Seq(Subject) : t = Targets(h)  BY TargetsTyped
  <1>5. PICK e \in Seq(Subject) : e = TransitionEvents(c)  BY EventsTyped
  <1>6. PICK n \in Nat : n = Proposals(c)  BY EventsTyped
  <1>7. /\ ~torn /\ tail[c] # "garbled"
        /\ WillBePresent(c, "candidate")' /\ WillBePresent(c, "hypothesis")'
        /\ HistoryBound(t \o Sub(job', c, "state"), e \o Sub(job', c, "STATE_TRANSITION"),
                        n + Len(Sub(job', c, "CANDIDATE_PROPOSED")))
    BY <1>1, <1>2, <1>3, <1>4, <1>5, <1>6, WillBeNext
  <1>8. WillBePresent(c, "candidate") /\ WillBePresent(c, "hypothesis")
    BY <1>7, PresentAtStart
  <1>9. t \o <<>> = t /\ e \o <<>> = e /\ n + Len(<<>>) = n  OBVIOUS
  <1>10. SUFFICES HistoryBound(t, e, n)
    <2>1. \A type : Sub(job, c, type) = <<>>  BY <1>1, NothingToCome
    <2> QED  BY <1>1, <1>3, <1>4, <1>5, <1>6, <1>7, <1>8, <1>9, <2>1, WillBe
  <1>11. ASSUME \A type \in Kind3 : Sub(job', c, type) = <<>>  PROVE  HistoryBound(t, e, n)
    BY <1>7, <1>9, <1>11 DEF Kind3
  <1>12. CASE job' \in Seq(Hushed)
    <2>1. PICK s \in Seq(Hushed) : s = job'  BY <1>12
    <2>2. \A type \in Kind3 : Sub(s, c, type) = <<>>  BY HushedSub
    <2> QED  BY <1>11, <2>1, <2>2
  <1>13. ASSUME NEW d \in Candidate, NEW to \in State, Moving(job', d, to)
         PROVE  HistoryBound(t, e, n)
    <2>1. Bringing(job', d, to)  BY <1>13 DEF Moving, Bringing
    <2>2. PICK s : s = job'  OBVIOUS
    <2>3. /\ d = c => /\ Sub(s, c, "state") = <<to>>
                      /\ Sub(s, c, "STATE_TRANSITION") = <<to>>
                      /\ Sub(s, c, "CANDIDATE_PROPOSED") = <<>>
          /\ d # c => \A type \in Kind3 : Sub(s, c, type) = <<>>
      BY <2>1, <2>2, MovingSub
    <2>4. CASE d # c  BY <1>11, <2>1, <2>2, <2>3, <2>4
    <2>5. CASE d = c
      <3>1. HistoryBound(t \o <<to>>, e \o <<to>>, n)  BY <1>7, <1>9, <2>1, <2>2, <2>3, <2>5
      <3>2. n = 1  BY <3>1 DEF HistoryBound
      <3>3. Len(t) >= 3
        <4>1. Len(h) >= 3
          <5>1. Balanced(c) /\ Proposals(c) # 0  BY <1>6, <3>2 DEF TurnInv
          <5> QED  BY <1>3, <1>7, <5>1 DEF Balanced
        <4> QED  BY <1>4, <4>1, TargetsTyped
      <3>4. to \in Subject  BY DEF Subject
      <3> QED  BY <3>1, <3>3, <3>4, OneMoreMove
    <2> QED  BY <2>4, <2>5
  <1>14. ASSUME NEW d \in Candidate, d \notin dirs, job' = Proposal(d)
         PROVE  HistoryBound(t, e, n)
    <2>1. PICK s \in Seq(Write) : s = Proposal(d)  BY ProposalIs DEF AllFormed
    <2>2. Len(s) = 11 /\ \A i \in 1..11 : s[i].cand = d
      <3>1. Len(s) = 11  BY <2>1, ProposalIs DEF Proposes
      <3>2. ASSUME NEW i \in 1..11  PROVE  s[i].cand = d
        <4>1. Proposal(d)[i].cand = d  BY ProposalMarks
        <4> QED  BY <2>1, <4>1
      <3> QED  BY <3>1, <3>2
    <2>3. \A i \in 1..Len(s) : s[i].cand # c  BY <1>14, <2>2
    <2>4. \A type \in Kind3 : Sub(s, c, type) = <<>>  BY <2>3, SubNone
    <2> QED  BY <1>11, <1>14, <2>1, <2>4
  <1> QED  BY <1>12, <1>13, <1>14, OperationMoves

LEMMA LostAtRest ==
    ASSUME TypeOK, AllFormed(job), TurnInv, Rested, NEW c \in Candidate, WillBeValid(c)'
    PROVE  WillBeValid(c)
  <1>1. UNCHANGED <<dirs, file, history, tail, ledger, torn>> /\ job' \in {job, <<>>}
        /\ job \in Seq(Write)
    BY DEF Rested, AllFormed
  <1>2. \A type : EventsOf(c, type)' = EventsOf(c, type)  BY <1>1 DEF EventsOf
  <1>3. TransitionEvents(c)' = TransitionEvents(c) /\ Proposals(c)' = Proposals(c)
    BY <1>2 DEF TransitionEvents, Proposals
  <1>4. CASE job' = job
    <2>1. \A name : WillBePresent(c, name)' => WillBePresent(c, name)
      BY <1>1, <1>4 DEF WillBePresent, Present, Pending
    <2> QED  BY <1>1, <1>3, <1>4, <2>1, WillBe, WillBeNext
  <1>5. CASE job' = <<>>
    <2>1. \A name : WillBePresent(c, name)' => WillBePresent(c, name)
      <3>1. \A name : Pending(c, "file", name)' = {}  BY <1>5 DEF Pending
      <3> QED  BY <1>1, <3>1 DEF WillBePresent, Present
    <2>2. \A type : Sub(job', c, type) = <<>>  BY <1>5, NothingToCome
    <2>3. job' \in Seq(Write)  BY <1>5
    <2>4. /\ ~torn /\ tail[c] # "garbled"
          /\ WillBePresent(c, "candidate") /\ WillBePresent(c, "hypothesis")
          /\ HistoryBound(Targets(history[c]) \o <<>>, TransitionEvents(c) \o <<>>,
                          Proposals(c) + Len(<<>>))
      BY <1>1, <1>3, <2>1, <2>2, <2>3, WillBeNext
    <2>5. HistoryBound(Targets(history[c]), TransitionEvents(c), Proposals(c))
      BY <2>4, ValidBefore
    <2> QED  BY <1>1, <2>4, <2>5, GivingUp, WillBe DEF TurnInv
  <1> QED  BY <1>1, <1>4, <1>5

LEMMA Shifted ==
    ASSUME NEW S, NEW t \in Seq(S), NEW x \in S, NEW u \in Seq(S)
    PROVE  /\ Append(t, x) \o u = t \o (<<x>> \o u) /\ <<>> \o u = u
           /\ Len(<<x>> \o u) = Len(u) + 1 /\ Len(u) \in Nat
  OBVIOUS

(* A write that is done adds what the operation was to bring.               *)
LEMMA LostAhead ==
    ASSUME TypeOK, AllFormed(job), Effect, Did, job' = Tail(job), NEW c \in Candidate,
           WillBeValid(c)'
    PROVE  WillBeValid(c)
  <1>1. /\ job # <<>> /\ job \in Seq(Write) /\ job' \in Seq(Write)
        /\ w = job[1] /\ w \in Write /\ Formed(w)
    BY NextWrite DEF Did, AllFormed
  <1>2. PICK h \in Seq(StateRecord) : h = history[c]  BY DEF TypeOK
  <1>3. PICK t \in Seq(Subject) : t = Targets(h)  BY TargetsTyped
  <1>4. PICK e \in Seq(Subject) : e = TransitionEvents(c)  BY EventsTyped
  <1>5. PICK n \in Nat : n = Proposals(c)  BY EventsTyped
  <1>6. PICK a \in Seq(Subject) : a = Sub(job', c, "state")  BY <1>1, SubTyped
  <1>7. PICK b \in Seq(Subject) : b = Sub(job', c, "STATE_TRANSITION")  BY <1>1, SubTyped
  <1>8. PICK d \in Seq(Subject) : d = Sub(job', c, "CANDIDATE_PROPOSED")  BY <1>1, SubTyped
  <1>9. /\ ~torn' /\ tail'[c] # "garbled"
        /\ WillBePresent(c, "candidate")' /\ WillBePresent(c, "hypothesis")'
        /\ HistoryBound(Targets(history'[c]) \o a, TransitionEvents(c)' \o b,
                        Proposals(c)' + Len(d))
    BY <1>1, <1>6, <1>7, <1>8, WillBeNext
  <1>10. ~torn /\ tail[c] # "garbled"  BY <1>9, TailsStay DEF Did
  <1>11. WillBePresent(c, "candidate") /\ WillBePresent(c, "hypothesis")
    BY <1>9, PresentBefore DEF FileName
  <1>12. ASSUME NEW type
         PROVE  Sub(job, c, type) =
                   (IF w.cand = c /\ Told(w).type = type THEN << w.of >> ELSE <<>>)
                       \o Sub(job', c, type)
    BY <1>1, SubNext
  <1>13. w.of \in Subject  BY <1>1 DEF Write
  <1>14. /\ Told(w).type = "state" <=> w.kind = "state"
         /\ Told(w).type = "STATE_TRANSITION" <=> IsMove(w)
         /\ Told(w).type = "CANDIDATE_PROPOSED" <=> IsProposal(w)
    BY <1>1, ToldIs
  <1> HIDE DEF Told
  <1>15. Targets(history'[c]) \o a = t \o Sub(job, c, "state")
    <2>1. CASE w.kind = "state" /\ w.cand = c
      <3>1. PICK r : r = [to |-> w.of, evidence |-> w.value]  OBVIOUS
      <3>2. r.to = w.of /\ w.of \in State  BY <1>1, <2>1, <3>1 DEF Formed
      <3>3. history'[c] = Append(h, r)  BY <1>2, <1>9, <2>1, <3>1, TailsStay
      <3>4. Targets(Append(h, r)) = Append(t, w.of)  BY <1>3, <3>2, TargetsNext
      <3>5. Sub(job, c, "state") = <<w.of>> \o a  BY <1>6, <1>12, <1>14, <2>1
      <3>6. Append(t, w.of) \o a = t \o (<<w.of>> \o a)  BY <1>13, Shifted
      <3> QED  BY <3>3, <3>4, <3>5, <3>6, Zenon
    <2>2. CASE ~(w.kind = "state" /\ w.cand = c)
      <3>1. history'[c] = h  BY <1>2, <1>9, <2>2, TailsStay
      <3>2. Sub(job, c, "state") = <<>> \o a  BY <1>6, <1>12, <1>14, <2>2
      <3> QED  BY <1>3, <1>13, <3>1, <3>2, Shifted
    <2> QED  BY <2>1, <2>2
  <1>16. TransitionEvents(c)' \o b = e \o Sub(job, c, "STATE_TRANSITION")
    <2>1. TransitionEvents(c)' = IF IsMove(w) /\ w.cand = c THEN Append(e, w.of) ELSE e
      BY <1>4, <1>9, EventsNext DEF IsMove
    <2>2. CASE IsMove(w) /\ w.cand = c
      <3>1. Sub(job, c, "STATE_TRANSITION") = <<w.of>> \o b  BY <1>7, <1>12, <1>14, <2>2
      <3>2. Append(e, w.of) \o b = e \o (<<w.of>> \o b)  BY <1>13, Shifted
      <3>3. TransitionEvents(c)' = Append(e, w.of)  BY <2>1, <2>2
      <3> QED  BY <3>1, <3>2, <3>3, Zenon
    <2>3. CASE ~(IsMove(w) /\ w.cand = c)
      <3>1. Sub(job, c, "STATE_TRANSITION") = <<>> \o b  BY <1>7, <1>12, <1>14, <2>3
      <3> QED  BY <1>13, <2>1, <2>3, <3>1, Shifted
    <2> QED  BY <2>2, <2>3
  <1>17. Proposals(c)' + Len(d) = n + Len(Sub(job, c, "CANDIDATE_PROPOSED"))
    <2>1. Proposals(c)' = IF IsProposal(w) /\ w.cand = c THEN n + 1 ELSE n
      BY <1>5, <1>9, EventsNext DEF IsProposal
    <2>2. CASE IsProposal(w) /\ w.cand = c
      <3>1. Sub(job, c, "CANDIDATE_PROPOSED") = <<w.of>> \o d  BY <1>8, <1>12, <1>14, <2>2
      <3>2. Len(<<w.of>> \o d) = Len(d) + 1 /\ Len(d) \in Nat  BY <1>13, Shifted
      <3>3. Len(Sub(job, c, "CANDIDATE_PROPOSED")) = Len(d) + 1  BY <3>1, <3>2, Zenon
      <3>4. Proposals(c)' = n + 1  BY <2>1, <2>2
      <3>5. Len(d) \in Nat  BY <3>2
      <3>6. PICK k \in Nat : k = Len(d)  BY <3>5
      <3>7. n + 1 + k = n + (k + 1)  OBVIOUS
      <3> QED  BY <3>3, <3>4, <3>6, <3>7
    <2>3. CASE ~(IsProposal(w) /\ w.cand = c)
      <3>1. Sub(job, c, "CANDIDATE_PROPOSED") = <<>> \o d  BY <1>8, <1>12, <1>14, <2>3
      <3>2. <<>> \o d = d  BY <1>13, Shifted
      <3> QED  BY <2>1, <2>3, <3>1, <3>2
    <2> QED  BY <2>2, <2>3
  <1> QED  BY <1>1, <1>2, <1>3, <1>4, <1>5, <1>9, <1>10, <1>11, <1>15, <1>16, <1>17, WillBe

(* A write that fails gives the operation up: a state written without its   *)
(* move is not bound by the ledger, and anything else changes no history.   *)
LEMMA LostAtFailure ==
    ASSUME TypeOK, AllFormed(job), TurnInv, Effect, Did, job' # Tail(job), NEW c \in Candidate,
           WillBeValid(c)'
    PROVE  WillBeValid(c)
  <1>1. job' = <<>> /\ job' \in Seq(Write) /\ job \in Seq(Write) /\ w \in Write /\ Formed(w)
    <2>1. job' = <<>>  BY DEF Did
    <2> QED  BY <2>1, NextWrite DEF Did, AllFormed
  <1>2. PICK h \in Seq(StateRecord) : h = history[c]  BY DEF TypeOK
  <1>3. PICK t \in Seq(Subject) : t = Targets(h)  BY TargetsTyped
  <1>4. PICK e \in Seq(Subject) : e = TransitionEvents(c)  BY EventsTyped
  <1>5. PICK n \in Nat : n = Proposals(c)  BY EventsTyped
  <1>6. \A type : Sub(job', c, type) = <<>>  BY <1>1, NothingToCome
  <1>7. /\ ~torn' /\ tail'[c] # "garbled"
        /\ WillBePresent(c, "candidate")' /\ WillBePresent(c, "hypothesis")'
        /\ HistoryBound(Targets(history'[c]) \o <<>>, TransitionEvents(c)' \o <<>>,
                        Proposals(c)' + Len(<<>>))
    BY <1>1, <1>6, WillBeNext
  <1>8. ~torn /\ tail[c] # "garbled"  BY <1>7, TailsStay DEF Did
  <1>9. WillBePresent(c, "candidate") /\ WillBePresent(c, "hypothesis")
    BY <1>7, PresentBefore DEF FileName
  <1>10. TransitionEvents(c)' = e /\ Proposals(c)' = n  BY <1>4, <1>5, <1>7, EventsNext
  <1>11. e \o <<>> = e /\ n + Len(<<>>) = n /\ t \o <<>> = t  OBVIOUS
  <1>12. CASE w.kind = "state" /\ w.cand = c
    <2>1. PICK r : r = [to |-> w.of, evidence |-> w.value]  OBVIOUS
    <2>2. r.to = w.of /\ w.of \in State /\ w.of \in Subject
      BY <1>1, <1>12, <2>1 DEF Formed, Write
    <2>3. history'[c] = Append(h, r)  BY <1>2, <1>7, <1>12, <2>1, TailsStay
    <2>4. Targets(history'[c]) = Append(t, w.of)  BY <1>3, <2>2, <2>3, TargetsNext
    <2>5. PICK u \in Seq(Subject) : u = Append(t, w.of)
      <3>1. Append(t, w.of) \in Seq(Subject)  BY <2>2
      <3> QED  BY <3>1
    <2>6. Len(u) = Len(t) + 1 /\ u \o <<>> = u /\ Len(t) \in Nat  BY <2>2, <2>5
    <2>7. HistoryBound(u, e, n)  BY <1>7, <1>10, <1>11, <2>4, <2>5, <2>6
    <2>8. Len(u) >= 3 /\ e = Tail(u)  BY <2>7 DEF HistoryBound
    <2>9. Len(Tail(u)) = Len(u) - 1
      <3>1. u # <<>>  BY <2>8
      <3> QED  BY <3>1
    <2>10. Len(e) = Len(t) /\ Len(e) # 0  BY <2>6, <2>8, <2>9
    <2>11. Len(e) = 0 \/ Len(e) < Len(h)  BY <1>2, <1>4, <1>8 DEF TurnInv, Balanced
    <2>12. Len(t) = Len(h)  BY <1>3, TargetsTyped
    <2>13. FALSE  BY <2>6, <2>10, <2>11, <2>12
    <2> QED  BY <2>13
  <1>13. CASE ~(w.kind = "state" /\ w.cand = c)
    <2>1. history'[c] = h  BY <1>2, <1>7, <1>13, TailsStay
    <2>2. HistoryBound(t, e, n)  BY <1>3, <1>7, <1>10, <1>11, <2>1
    <2>3. HistoryBound(Targets(history[c]), TransitionEvents(c), Proposals(c))
      BY <1>2, <1>3, <1>4, <1>5, <2>2
    <2> QED  BY <1>1, <1>8, <1>9, <2>3, GivingUp, WillBe DEF TurnInv
  <1> QED  BY <1>12, <1>13

LEMMA LostStays ==
    IInv /\ TurnInv /\ [Next]_vars => \A c \in Candidate : Lost(c) => Lost(c)'
  <1> SUFFICES ASSUME IInv, TurnInv, [Next]_vars, NEW c \in Candidate, Lost(c)
               PROVE  Lost(c)'
    OBVIOUS
  <1>1. TypeOK /\ Good(job) /\ DirInv /\ AllFormed(job)  BY DEF IInv, StoreInv, Good
  <1>2. c \in dirs /\ ~WillBeValid(c)  BY DEF Lost
  <1>3. Operation \/ (Effect /\ Did) \/ Rested  BY <1>1, StepsAre
  <1>4. CASE Operation
    <2>1. c \in dirs'  BY <1>1, <1>2, <1>4, OperationStarts DEF store, records
    <2> QED  BY <1>1, <1>2, <1>4, <2>1, LostAtStart DEF Lost
  <1>5. CASE Effect /\ Did
    <2>1. c \in dirs'  BY <1>2, <1>5 DEF Effect, OnFiles
    <2>2. CASE job' = Tail(job)  BY <1>1, <1>2, <1>5, <2>1, <2>2, LostAhead DEF Lost
    <2>3. CASE job' # Tail(job)  BY <1>1, <1>2, <1>5, <2>1, <2>3, LostAtFailure DEF Lost
    <2> QED  BY <2>2, <2>3
  <1>6. CASE Rested
    <2>1. c \in dirs'  BY <1>2, <1>6 DEF Rested
    <2> QED  BY <1>1, <1>2, <1>6, <2>1, LostAtRest DEF Lost
  <1> QED  BY <1>3, <1>4, <1>5, <1>6

(* A candidate whose history cannot become valid, by what is on disk and by *)
(* what the operation in progress will still write, never has a valid       *)
(* history again, whatever the operations, the faults and the crashes are:  *)
(* no operation of the store repairs an evidence record that an interrupted *)
(* _transition or create_candidate has left without its event.              *)
THEOREM LostStaysLost == Spec => LostHistoryStaysLost
  <1>1. IInv /\ TurnInv /\ [Next]_vars =>
           [\A c \in Candidate : Lost(c) => Lost(c)']_vars
    BY LostStays
  <1> QED  BY <1>1, TurnInvariance, PTL DEF Spec, LostHistoryStaysLost

=============================================================================
