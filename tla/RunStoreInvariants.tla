------------------------- MODULE RunStoreInvariants -------------------------
(***************************************************************************)
(* What the proofs of RunStoreProofs say of a state: of the writes that the*)
(* operation in progress still has to make, of what a commit has signed and*)
(* an audit rests on, and of what is lost.  No step is described here.     *)
(***************************************************************************)
EXTENDS Authority

(* What a write of each kind carries.                                      *)
Formed(x) ==
    /\ x.kind = "mkdir" => x.cand \in Candidate
    /\ x.kind = "file" => x.cand \in Candidate /\ x.of \in FileName
                          /\ x.value \in Content \ {"absent"}
    /\ x.kind = "state" => x.cand \in Candidate /\ x.of \in State /\ x.value \in Content
    /\ x.kind = "command" => x.cand \in Candidate
    /\ x.kind = "observation" => x.cand \in 1..Found
    /\ x.kind = "event" => x.value \in EventType
    /\ x.kind = "index" => x.cand \in Candidate /\ x.of \in State
AllFormed(s) == s \in Seq(Write) /\ \A i \in 1..Len(s) : Formed(s[i])

(* Writes that neither move a candidate nor complete a scan.                *)
Plain(s) ==
    AllFormed(s) /\ \A i \in 1..Len(s) : s[i].kind \notin {"state", "index", "scan"}
Brings(s, c, name, v) ==
    \E i \in 1..Len(s) :
        s[i].kind = "file" /\ s[i].cand = c /\ s[i].of = name /\ s[i].value = v

Reached(c, s) ==
    tail[c] = "garbled" \/ \E i \in 1..Len(history[c]) : history[c][i].to = s
Follows(c, to) ==
    IF history[c] = <<>> THEN to = "SIGNAL" ELSE to \in Allowed(CurrentState(c))
Warrants(to, v) ==
    /\ EvidenceFile(to) # "none" => v # "absent"
    /\ to = "SUPPORTED" => v \in Supporting
    /\ to = "REPRODUCED" => v = "PASS"
IsFile(x, c, n, v) == x.kind = "file" /\ x.cand = c /\ x.of = n /\ x.value = v
IsState(x, c, to) == x.kind = "state" /\ x.cand = c /\ x.of = to
Logs(x, o) == x.kind = "event" /\ x.value = "OBSERVATION_RECORDED" /\ x.cand = o
Stateless(s, a, b) == \A k \in a..b : s[k].kind # "state"

(* Each state may follow the one before it, on disk or in the job.          *)
Chained(s) == \A i \in 1..Len(s) : s[i].kind = "state" =>
    \/ /\ Stateless(s, 1, i - 1)
       /\ tail[s[i].cand] = "whole" => Follows(s[i].cand, s[i].of)
    \/ \E j \in 1..i - 1 :
          /\ s[j].kind = "state" /\ s[j].cand = s[i].cand
          /\ s[i].of \in Allowed(s[j].of)
          /\ Stateless(s, j + 1, i - 1)

(* The evidence of a state is on disk, or is written before it.             *)
Warranted(s) == \A i \in 1..Len(s) : s[i].kind = "state" =>
    /\ Warrants(s[i].of, s[i].value)
    /\ EvidenceFile(s[i].of) # "none" =>
          \/ file[s[i].cand][EvidenceFile(s[i].of)] = s[i].value
          \/ \E j \in 1..i - 1 : IsFile(s[j], s[i].cand, EvidenceFile(s[i].of), s[i].value)

(* The state that goes to the index is recorded, or is recorded before it.  *)
Indexed(s) == \A i \in 1..Len(s) : s[i].kind = "index" =>
    \/ Reached(s[i].cand, s[i].of)
    \/ \E j \in 1..i - 1 : IsState(s[j], s[i].cand, s[i].of)

(* Before the scan come the records and the events of the observations; the *)
(* event of the last one is followed by another, which a torn ledger stops. *)
OnRecord(o) == Noted(o) # {} \/ tail[0] = "garbled"
Scanned(s) == \A i \in 1..Len(s) : s[i].kind = "scan" => \A o \in 1..Found :
    /\ OnRecord(o) \/ \E j \in 1..i - 1 : s[j].kind = "observation" /\ s[j].cand = o
    /\ \/ Logged(o) # {}
       \/ torn /\ \E k \in 1..i - 1 : s[k].kind = "event"
       \/ \E j, k \in 1..i - 1 : j < k /\ Logs(s[j], o) /\ s[k].kind = "event"

(* The directory of a state history is there, or is made before it.         *)
Rooted(s) == \A i \in 1..Len(s) : s[i].kind = "state" =>
    \/ s[i].cand \in dirs
    \/ \E j \in 1..i - 1 : s[j].kind = "mkdir" /\ s[j].cand = s[i].cand

Good(s) ==
    AllFormed(s) /\ Chained(s) /\ Warranted(s) /\ Indexed(s) /\ Scanned(s) /\ Rooted(s)

(* No history without a directory.                                          *)
DirInv == \A c \in Candidate : c \in dirs \/ history[c] = <<>>

Extended(c, h, t) ==    \* the record of the next write is the new end of the history
    /\ tail[c] = "whole" /\ t # "garbled"
    /\ h = Append(history[c], [to |-> w.of, evidence |-> w.value])
OnFiles ==
    /\ dirs \subseteq dirs'
    /\ w.kind = "mkdir" => w.cand \in dirs'
    /\ \A c \in Candidate, n \in FileName : Present(c, n) => file'[c][n] = file[c][n]
    /\ w.kind = "file" => file'[w.cand][w.of] = w.value /\ ~Present(w.cand, w.of)
    /\ \A c \in Candidate, n \in FileName :
          ~(w.kind = "file" /\ w.cand = c /\ w.of = n) => file'[c][n] = file[c][n]
OnHistory ==
    \A c \in Candidate :
        IF w.kind = "state" /\ w.cand = c
        THEN \/ Extended(c, history'[c], tail'[c])
             \/ history'[c] = history[c] /\ tail'[c] = "garbled"
        ELSE history'[c] = history[c] /\ tail'[c] = tail[c]
OnIntake ==
    /\ scan' = (scan \/ w.kind = "scan")
    /\ \A o \in 1..Found :
          OnRecord(o) \/ (w.kind = "observation" /\ w.cand = o) => OnRecord(o)'
OnLedger ==
    /\ torn => torn' /\ w.kind # "event"
    /\ w.kind = "event" => torn' \/ \A o \in 1..Found : Logs(w, o) => Logged(o)' # {}
    /\ \A o \in 1..Found : Logged(o) # {} => Logged(o)' # {}
OnIndex ==
    \A c \in Candidate :
        index'[c] = IF w.kind = "index" /\ w.cand = c THEN w.of ELSE index[c]
Effect == OnFiles /\ OnHistory /\ OnIntake /\ OnLedger /\ OnIndex /\ listing' = listing

(* The rest of the job, by its place in the whole.                          *)
Rest(s, t) ==
    /\ Len(s) \in Nat \ {0} /\ Len(t) = Len(s) - 1
    /\ \A i \in 1..Len(t) : t[i] = s[i + 1]

IndexInv == \A c \in Candidate : index[c] = NoRow \/ Reached(c, index[c])
ListInv == \A r \in Lister : listing[r] # <<>> => Reached(listing[r][1], listing[r][2])
StoreInv ==
    /\ DirInv /\ HistoryIsLegal /\ StateIsEvidenced
    /\ IndexInv /\ ListInv /\ ScanIsBacked
IInv == TypeOK /\ Good(job) /\ StoreInv

(* What a record says of its evidence.                                      *)
Backed(c, r) ==
    /\ r.to = "TESTABLE" => Present(c, "plan")
    /\ r.to = "SUPPORTED" => file[c]["result"] \in {"SUPPORTS", "SUPPORTS_UNCLEAN"}
    /\ r.to = "REPRODUCED" => file[c]["replay"] = "PASS"
    /\ EvidenceFile(r.to) # "none" => r.evidence = file[c][EvidenceFile(r.to)]

IsFileOf(x, c, n) == x.kind = "file" /\ x.cand = c /\ x.of = n
Ordered(s) == \A c \in Candidate, i \in 1..Len(s) : IsFileOf(s[i], c, "result") =>
    \E j \in 1..i - 1 : IsFileOf(s[j], c, "environment")
Resultless(s) ==
    s \in Seq(Write) /\ \A i \in 1..Len(s) : s[i].kind = "file" => s[i].of # "result"

OnlyFor(s, c) ==
    s \in Seq(Write) /\ \A i \in 1..Len(s) : s[i].kind = "file" => s[i].cand = c

IsMove(x) == x.kind = "event" /\ x.value = "STATE_TRANSITION"
Announced(s) == \A i \in 1..Len(s) : s[i].kind = "event" /\ s[i].of \in FileName =>
    \E j \in 1..i - 1 : IsFileOf(s[j], s[i].cand, s[i].of)
Paired(s) == \A i \in 1..Len(s) : IsMove(s[i]) =>
    i # 1 /\ IsState(s[i - 1], s[i].cand, s[i].of)
Proper(s, S) == s \in Seq(S) /\ Announced(s) /\ Paired(s)
Record(kind, c, of, value) == [kind |-> kind, cand |-> c, of |-> of, value |-> value]

CommitFile == {"verdict", "certificate", "marker"}
CommitEvent == {"VERDICT_AUTHORIZED", "CERTIFICATE_ISSUED", "AUTHORIZATION_COMMITTED"}
IntakeEvent == {"OBSERVATION_RECORDED", "KNOWLEDGE_SCAN_COMPLETED"}
Harmless == {x \in Write :
    x.kind # "verify" /\ x.of \notin CommitFile \cup {"VERIFIED"} /\ x.value \notin CommitEvent}
Observed == {x \in Harmless :
    x.kind \in {"observation", "scan", "event"} /\ ~IsMove(x) /\ x.value # "CANDIDATE_PROPOSED"}
Expected(e) == {x \in Harmless :
    /\ x.cand = e /\ x.kind \in {"expectation", "event"} /\ ~IsMove(x) /\ x.of # "observation"
    /\ x.value \notin IntakeEvent \cup {"CANDIDATE_PROPOSED"}}
About(d, T) == {x \in Harmless :
    /\ x.cand = d /\ x.kind \notin {"observation", "scan", "expectation"}
    /\ x.of # "observation"
    /\ x.value \notin IntakeEvent \cup {"EXPECTATION_RECORDED"}
    /\ x.kind = "state" \/ IsMove(x) => x.of \in T
    /\ x.value = "CANDIDATE_PROPOSED" => "SIGNAL" \in T}

Entry(x) == [type |-> x.value, cand |-> x.cand, of |-> x.of]
Did ==
    /\ job # <<>>
    /\ dirs' = IF w.kind = "mkdir" THEN dirs \cup {w.cand} ELSE dirs
    /\ w.kind # "scan" => scan' = scan
    /\ w.kind # "observation" => observations' = observations /\ tail'[0] = tail[0]
    /\ expectations' = IF w.kind = "expectation" THEN expectations + 1 ELSE expectations
    /\ torn => torn'
    /\ w.kind # "event" => ledger' = ledger /\ torn' = torn
    /\ w.kind = "event" =>
          \/ ledger' = ledger /\ torn'
          \/ ~torn' /\ job' = Tail(job) /\ ledger' = Append(ledger, Entry(w))
    /\ \/ job' = Tail(job)
       \/ job' = <<>> /\ w.kind \in {"state", "observation", "event"}
Ended == UNCHANGED <<store, listing>> /\ job' = <<>>

Led(s) == \A i \in 1..Len(s) : s[i].kind = "event" /\ s[i].of \in FileName =>
    /\ s[i].cand \in Candidate
    /\ \/ Present(s[i].cand, s[i].of)
       \/ \E j \in 1..i - 1 : IsFileOf(s[j], s[i].cand, s[i].of)
Newest(c, to) ==
    tail[c] # "garbled" =>
        /\ history[c] # <<>> /\ CurrentState(c) = to
        /\ \A m \in MovesOf(c) : \E k \in 1..Len(history[c]) - 1 :
              history[c][k].to = ledger[m].of
Headed(s) == \A i \in 1..Len(s) : IsMove(s[i]) =>
    /\ s[i].cand \in Candidate
    /\ IF i = 1 THEN Newest(s[i].cand, s[i].of) ELSE IsState(s[i - 1], s[i].cand, s[i].of)
FilesInv == \A i \in DOMAIN ledger : ledger[i].of \in FileName =>
    ledger[i].cand \in Candidate /\ Present(ledger[i].cand, ledger[i].of)
ClaimInv == Led(job) /\ Headed(job) /\ FilesInv /\ MovesAreRecorded

Rested ==
    /\ UNCHANGED <<dirs, file, history, tail, commands, expectations, observations, scan,
                   ledger, torn>>
    /\ job' \in {job, <<>>}

Couple(s, i, kind) ==
    {k \in 1..Len(s) : s[k].of = "observation" /\ s[k].cand = i /\ s[k].kind = kind}
Coupled(s) == \A i \in 1..Found :
    LET O == Couple(s, i, "observation")  E == Couple(s, i, "event") IN
    \/ O = {} /\ E \in {{}, {1}}
    \/ \E k \in 1..Len(s) : O = {k} /\ E = {k + 1}
Named(s) == \A k \in 1..Len(s) :
    /\ s[k].kind = "observation" => s[k].of = "observation"
    /\ s[k].kind = "event" => (s[k].of = "observation" <=> s[k].value = "OBSERVATION_RECORDED")
Owed(s, i) == IF 1 \in Couple(s, i, "event") THEN 1 ELSE 0

(* As long as both files can be read, no identifier has more events than    *)
(* records, and one record more while the event is owed.                    *)
IntakeInv ==
    /\ Coupled(job) /\ Named(job)
    /\ \/ torn \/ tail[0] = "garbled"
       \/ \A i \in 1..Found : Cardinality(Logged(i)) + Owed(job, i) <= Cardinality(Noted(i))

(* What a write does to the file of observations: a record that does not    *)
(* land spoils it, and what is spoilt stays so.                             *)
Noting ==
    /\ tail[0] = "garbled" => tail'[0] = "garbled"
    /\ \/ w.kind # "observation" /\ UNCHANGED observations
       \/ w.kind = "observation" /\ tail'[0] = "garbled" /\ UNCHANGED observations
       \/ w.kind = "observation" /\ observations' = Append(observations, w.cand)

(* The number of records of an identifier that have no event and will not   *)
(* get it never drops, and neither does the number of its records.          *)
Widens(i) ==
    /\ Cardinality(Noted(i)) + Cardinality(Logged(i))' + Owed(job', i)
          <= Cardinality(Noted(i))' + Cardinality(Logged(i)) + Owed(job, i)
    /\ Cardinality(Noted(i)) <= Cardinality(Noted(i))'

Later == {"VERIFIED", "REVOKED"} \cup Rejection
Verdicts(c) == Places(c, {"VERDICT_AUTHORIZED"}, "verdict")
Certificates(c) == Places(c, {"CERTIFICATE_ISSUED"}, "certificate")
Verifications(c) == Places(c, {"STATE_TRANSITION"}, "VERIFIED")
Markers(c) == Places(c, {"AUTHORIZATION_COMMITTED"}, "marker")
Authorized(c) == Present(c, "verdict") \/ Committing(c)

(* No candidate without an expectation: the first was there before any.     *)
Funded == dirs # {} \/ (\E i \in 1..Len(job) : job[i].kind = "mkdir") => expectations > 0

(* How far the first n writes of a commit have come, on a ledger that is    *)
(* whole, and in a history that can be read.                                *)
Bound(c, n) ==
    LET h == signed[c].states[1]  t == Targets(h) IN
    /\ HistoryBound(t, Tail(t), Len(EventsOf(c, "CANDIDATE_PROPOSED")))
    /\ TransitionEvents(c) = IF n < 6 THEN Tail(t) ELSE Append(Tail(t), "VERIFIED")
    /\ IF n < 5 THEN history[c] = h ELSE Targets(history[c]) = Append(t, "VERIFIED")
Issued(c, n) ==
    LET g == signed[c].ledger IN
    /\ Len(ledger) = g + (IF n < 2 THEN 0 ELSE IF n < 4 THEN 1 ELSE IF n < 6 THEN 2 ELSE 3)
    /\ Verdicts(c) = IF n < 2 THEN {} ELSE {g + 1}
    /\ Certificates(c) = IF n < 4 THEN {} ELSE {g + 2}
    /\ Verifications(c) = IF n < 6 THEN {} ELSE {g + 3}
    /\ tail[c] = "garbled" \/ Bound(c, n)
Remain(c, n) ==
    Len(job) = 10 - n /\ \A i \in 1..10 - n : job[i] = CommitWrites(c)[n + i]
Stage(c, n) ==
    /\ Remain(c, n)
    /\ n > 0 => Present(c, "verdict")
    /\ n > 2 => Present(c, "certificate")
    /\ n > 8 => Present(c, "marker")
    /\ Markers(c) = {}
    /\ torn \/ Issued(c, n)
JobInv ==
    \/ \A i \in 1..Len(job) : job[i] \in Harmless
    \/ \E c \in Candidate, n \in 0..9 : Stage(c, n)

(* What the writes of an operation leave alone of a candidate that is       *)
(* authorized: everything its certificate speaks of.                        *)
Spares(x, c) ==
    /\ x.cand = c /\ (x.kind = "state" \/ IsMove(x)) => x.of \in Later
    /\ x.kind \notin {"observation", "scan"}
    /\ x.value \notin IntakeEvent
    /\ x.value = "EXPECTATION_RECORDED" => x.cand # 1
    /\ x.value = "CANDIDATE_PROPOSED" => x.cand # c
Guarded(s, c) == \A i \in 1..Len(s) :
    s[i].kind = "event" /\ s[i].cand = c /\ s[i].of \in SignedFile =>
        \E j \in 1..i - 1 : IsFileOf(s[j], c, s[i].of)
Spared(s, c) == Guarded(s, c) /\ \A i \in 1..Len(s) : Spares(s[i], c)

(* The evidence is that of the graph that was signed.                       *)
Sealed(c) ==
    /\ c \in dirs /\ IntakeBound /\ ExperimentComplete(c) /\ CleanReplayPassed(c)
    /\ DOMAIN signed[c].files = SignedFile
    /\ \A n \in SignedFile : Present(c, n) /\ file[c][n] = signed[c].files[n]
Extends(c) ==
    LET h == signed[c].states[1] IN
    /\ h \in Seq(StateRecord) /\ h # <<>> /\ h[Len(h)].to = "REPRODUCED"
    /\ Len(h) <= Len(history[c])
    /\ \A j \in 1..Len(h) : history[c][j] = h[j]
    /\ \A j \in 1..Len(history[c]) : j > Len(h) => history[c][j].to \in Later
Evidential(e, c) ==     \* the entries an audit of c may rely on
    \/ e.cand = c /\ e.of \in SignedFile
    \/ e.cand = c /\ e.type = "STATE_TRANSITION" /\ e.of = "REPRODUCED"
    \/ e.type \in IntakeEvent
    \/ e.type = "EXPECTATION_RECORDED" /\ e.cand = 1
Behind(c) ==
    LET g == signed[c].ledger IN
    /\ g \in Nat /\ g <= Len(ledger)
    /\ Verdicts(c) \subseteq {g + 1}
    /\ \A i \in DOMAIN ledger : Evidential(ledger[i], c) => i <= g
Frozen(c) == Sealed(c) /\ Extends(c) /\ Behind(c) /\ Spared(job, c)

Taken(s, c, type, v, i) ==
    IF s[i].cand = c /\ s[i].type = type THEN Append(v, s[i]) ELSE v
UpTo(f, s, c, type, n) ==
    f = [i \in 0..n |-> IF i = 0 THEN <<>> ELSE Taken(s, c, type, f[i - 1], i)]

AllFrozen == \A c \in Candidate : Authorized(c) => Frozen(c)

(* The places of the entries an audit looks for.                           *)
Audited(c) ==
    /\ UNCHANGED <<ArtifactEventsBound(c), Verdicts(c), Certificates(c), Verifications(c),
                   Markers(c), TransitionEvents(c)>>
    /\ Len(EventsOf(c, "CANDIDATE_PROPOSED"))' = Len(EventsOf(c, "CANDIDATE_PROPOSED"))

(* What is left to an audit of a sealed candidate.                         *)
HistoryAudit(c) ==
    HistoryBound(Targets(history[c]), TransitionEvents(c),
                 Len(EventsOf(c, "CANDIDATE_PROPOSED")))
IssuanceAudit(c) ==
    LET g == signed[c].ledger IN
    /\ Verdicts(c) = {g + 1} /\ Certificates(c) = {g + 2}
    /\ Verifications(c) = {g + 3} /\ Markers(c) = {g + 4}
AuditLaw ==
    \A c \in Candidate : Sealed(c) /\ signed[c].ledger \in Nat =>
       (Audit(c) <=> /\ \A n \in CommitFile : Present(c, n)
                     /\ In(c, "VERIFIED") /\ ~torn
                     /\ HistoryAudit(c) /\ ArtifactEventsBound(c) /\ IssuanceAudit(c))

MarkedFirst == \A c \in Candidate : Present(c, "marker") => Present(c, "verdict")
Marked(c) ==
    Markers(c) # {} /\ ~torn /\ In(c, "VERIFIED") /\ ArtifactEventsBound(c) => Audit(c)
AllMarked == \A c \in Candidate : Marked(c)

AInv ==
    /\ IInv /\ ClaimInv
    /\ DOMAIN prepared = Kernel /\ DOMAIN signed = Candidate
    /\ Funded /\ JobInv /\ AllFrozen /\ MarkedFirst /\ AllMarked

Status(c) ==
    IF Committing(c) THEN "committing" ELSE IF Audit(c) THEN "valid"
    ELSE IF Present(c, "verdict") THEN "void" ELSE "open"
Offered(p) == [cand |-> p.cand, evidence |-> p.files]
Offers == {Offered(prepared[k]) : k \in {l \in Kernel : prepared[l] # Unprepared}}
SameEvidence == \A d \in Candidate : EvidenceOf(d)' = EvidenceOf(d)
Becomes(C, s) == \A d \in Candidate : Status(d)' = IF d \in C THEN s ELSE Status(d)

Brought == [type : Content \cup EventType \cup WriteKind, cand : Number, of : Subject]
Told(x) ==
    [type |-> IF x.kind = "event" THEN x.value ELSE x.kind, cand |-> x.cand, of |-> x.of]
Sel(s, c, type) == Selected(Coming(s), c, type)

IsProposal(x) == x.kind = "event" /\ x.value = "CANDIDATE_PROPOSED"
Hushed == {x \in Write :
    /\ x.kind # "state" /\ ~IsMove(x) /\ ~IsProposal(x)
    /\ x.kind = "file" => x.of \notin {"candidate", "hypothesis"}}

(* An operation that brings a move, behind writes that bring nothing.       *)
Moving(s, c, to) ==
    /\ c \in Candidate /\ Readable(c) /\ to \in State \cap Allowed(CurrentState(c))
    /\ \E q \in Seq(Hushed), v \in Content : s = q \o Transition(c, to, v)

Sub(s, c, type) == Subjects(Sel(s, c, type))

Kind3 == {"state", "STATE_TRANSITION", "CANDIDATE_PROPOSED"}

Proposals(c) == Len(EventsOf(c, "CANDIDATE_PROPOSED"))
Written(k) == IF k < 4 THEN 0 ELSE IF k = 4 THEN 1 ELSE IF k < 8 THEN 2 ELSE 3
Moved(k) == IF k < 6 THEN 0 ELSE IF k < 9 THEN 1 ELSE 2
Proposing(c) ==
    /\ Len(job) \in 1..11
    /\ \A i \in 1..Len(job) : job[i] = Proposal(c)[11 - Len(job) + i]
    /\ Proposals(c) = 0
    /\ Len(job) = 11 \/ c \in dirs
    /\ tail[c] # "garbled" =>
          /\ Len(history[c]) >= Written(11 - Len(job))
          /\ Len(TransitionEvents(c)) <= Moved(11 - Len(job))
Turning(c, to) ==
    /\ tail[c] # "garbled" => history[c] # <<>> /\ to \in Allowed(CurrentState(c))
    /\ \E q \in Seq(Hushed), v \in Content : job = q \o Transition(c, to, v)
Owing(c) ==
    /\ Len(job) = 2 /\ IsMove(job[1]) /\ job[1].cand = c /\ job[2].kind = "index"
    /\ tail[c] # "garbled" => Len(TransitionEvents(c)) < Len(history[c]) - 1
AboutOne ==
    \/ job \in Seq(Hushed)
    \/ \E c \in Candidate, to \in State : Turning(c, to)
    \/ \E c \in Candidate : Owing(c)
    \/ \E c \in Candidate : Proposing(c)

(* There are never more moves in the ledger than the history has, and the   *)
(* proposal is logged behind the first three states.                        *)
Balanced(c) ==
    /\ tail[c] # "garbled" =>
          Len(TransitionEvents(c)) = 0 \/ Len(TransitionEvents(c)) < Len(history[c])
    /\ Proposals(c) # 0 => c \in dirs /\ (tail[c] # "garbled" => Len(history[c]) >= 3)
TurnInv == AboutOne /\ \A c \in Candidate : Balanced(c)

(* A move of d to the state to, behind writes that bring nothing.           *)
Bringing(s, d, to) == \E q \in Seq(Hushed), v \in Content : s = q \o Transition(d, to, v)

(* The files of a candidate that will be there.                             *)
Plainly == {x \in Write : x.kind = "file" => x.of \notin {"candidate", "hypothesis"}}

(* The writes of a proposal.                                                *)
Proposes(s, c) ==
    /\ Len(s) = 11
    /\ s[1] = Record("mkdir", c, "candidate", "absent")
    /\ s[2] = Record("file", c, "candidate", "written")
    /\ s[3] = Record("file", c, "hypothesis", "written")
    /\ s[4] = Record("state", c, "SIGNAL", "absent")
    /\ s[5] = Record("state", c, "CANDIDATE", "absent")
    /\ s[6] = Record("event", c, "CANDIDATE", "STATE_TRANSITION")
    /\ s[7] = Record("index", c, "CANDIDATE", "absent")
    /\ s[8] = Record("state", c, "HYPOTHESIZED", "absent")
    /\ s[9] = Record("event", c, "HYPOTHESIZED", "STATE_TRANSITION")
    /\ s[10] = Record("index", c, "HYPOTHESIZED", "absent")
    /\ s[11] = Record("event", c, "candidate", "CANDIDATE_PROPOSED")

(* The writes of a commit.                                                  *)
Commits(s, c) ==
    /\ Len(s) = 10
    /\ s[1] = Record("file", c, "verdict", "written")
    /\ s[2] = Record("event", c, "verdict", "VERDICT_AUTHORIZED")
    /\ s[3] = Record("file", c, "certificate", "written")
    /\ s[4] = Record("event", c, "certificate", "CERTIFICATE_ISSUED")
    /\ s[5] = Record("state", c, "VERIFIED", "written")
    /\ s[6] = Record("event", c, "VERIFIED", "STATE_TRANSITION")
    /\ s[7] = Record("index", c, "VERIFIED", "absent")
    /\ s[8] = Record("verify", c, "certificate", "absent")
    /\ s[9] = Record("file", c, "marker", "written")
    /\ s[10] = Record("event", c, "marker", "AUTHORIZATION_COMMITTED")

(* The writes of a scan.                                                    *)
Observes(s) ==
    /\ s \in Seq(Write) /\ Len(s) = 2 * Found + 3
    /\ \A o \in 1..Found :
          /\ s[2 * o - 1] = Record("observation", o, "observation", "written")
          /\ s[2 * o] = Record("event", o, "observation", "OBSERVATION_RECORDED")
    /\ s[2 * Found + 1] = Record("event", 0, "run", "OBSERVATION_BATCH_CAPTURED")
    /\ s[2 * Found + 2] = Record("scan", 0, "scan", "written")
    /\ s[2 * Found + 3] = Record("event", 0, "scan", "KNOWLEDGE_SCAN_COMPLETED")
=============================================================================
