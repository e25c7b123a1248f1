------------------------------ MODULE RunStore ------------------------------
(***************************************************************************)
(* The evidence of one run on disk, and the operations of project.py and   *)
(* workflow.py on its candidates.  Each operation holds the run's mutation *)
(* lock (module RunLock) from its first read to its last write, so one     *)
(* operation is in progress at a time; what can come between its writes is *)
(* a crash, an error of the disk, and a reader that takes no lock.         *)
(*                                                                         *)
(* An operation evaluates its guards when it starts and leaves the writes  *)
(* it will make, in the order of the code, in "job".  A write that is      *)
(* refused raises, and ends the operation where it stands.                 *)
(***************************************************************************)
EXTENDS Policy, Naturals, Sequences, FiniteSets

CONSTANTS
    MaxCandidates,  \* candidates proposed in the run
    Found,          \* observations a scan of the frozen commit yields
    Commands,       \* command records of an experiment that runs to its end
    Review,         \* the review types in use
    Withdrawal,     \* the rejection states in use
    Lister,         \* readers that list the candidates without the lock
    MaxExpectations,\* expectations recorded in the run
    MaxObservations,\* observation records, so that an intake is retried finitely often
    MaxEvents,      \* operations start while the ledger is shorter than this
    MaxFaults       \* bound on crashes and partial writes

ReviewType == {"COUNTEREVIDENCE", "NOVELTY", "KNOWN_ISSUE", "MATERIALITY"}

ASSUME RunStoreAssumption ==
    /\ MaxCandidates \in Nat /\ Commands \in Nat /\ Found \in Nat
    /\ MaxExpectations \in Nat /\ MaxObservations \in Nat /\ MaxEvents \in Nat /\ MaxFaults \in Nat
    /\ Review \subseteq ReviewType
    /\ Withdrawal \subseteq Rejection

VARIABLES
    dirs,       \* candidates whose directory exists
    file,       \* the write-once files of each candidate
    history,    \* the records in states.jsonl of each candidate
    tail,       \* how the last line of that states.jsonl ends; of 0, observations.jsonl
    commands,   \* records in the commands.jsonl files of each candidate
    expectations, \* records in the run's expectations.jsonl
    observations, \* the observations in observations.jsonl, by their identifiers
    scan,       \* knowledge-scan.json is there
    ledger,     \* the complete entries of events.jsonl
    torn,       \* the ledger ends in an incomplete entry
    index,      \* the SQLite row of each candidate
    listing,    \* what each list_candidates has read and not yet written
    job,        \* the writes the operation in progress still has to make
    faults

records == <<history, tail, commands, expectations>>
intake == <<observations, scan>>
store == <<dirs, file, records, intake, ledger, torn, index>>
vars == <<store, listing, job, faults>>

Candidate == 1..MaxCandidates
FileName ==
    {"candidate", "hypothesis", "plan", "environment", "result",
     "replay_environment", "replay", "verdict", "certificate", "marker"} \cup ReviewType

(* What an experiment showed: SUPPORTS_UNCLEAN is the supporting outcome of *)
(* an execution whose status is not SUCCEEDED.                              *)
Outcome == {"SUPPORTS", "SUPPORTS_UNCLEAN", "FALSIFIES", "UNDECIDED", "DENIED"}
Supporting == {"SUPPORTS", "SUPPORTS_UNCLEAN"}
ReplayStatus == {"PASS", "FAIL", "INCONCLUSIVE"}
Content == {"absent", "written"} \cup Outcome \cup ReplayStatus
NoRow == "none"

StateRecord == [to : State, evidence : Content]
EventType ==
    {"RUN_CREATED", "OBSERVATION_RECORDED", "OBSERVATION_BATCH_CAPTURED",
     "KNOWLEDGE_SCAN_COMPLETED", "STATE_TRANSITION", "CANDIDATE_PROPOSED", "EXPERIMENT_PLANNED",
     "EXECUTION_ENVIRONMENT_RECORDED", "EXPERIMENT_EXECUTED", "COMMAND_RESULT_RECORDED",
     "REPLAY_ENVIRONMENT_RECORDED", "REPLAY_COMPLETED", "REPLAY_COMMAND_RECORDED",
     "EXTERNAL_REPLAY_ENVIRONMENT_IMPORTED", "EXTERNAL_REPLAY_IMPORTED",
     "REVIEW_RECORDED", "EXPECTATION_RECORDED", "VERDICT_AUTHORIZED", "CERTIFICATE_ISSUED",
     "AUTHORIZATION_COMMITTED"}
Subject ==
    FileName \cup State \cup {"command", "expectation", "observation", "scan", "run"}
(* What a write or an event is about: a candidate, an observation, an       *)
(* expectation, or 0, the run itself.                                       *)
Number == Candidate \cup 1..Found \cup 1..MaxExpectations \cup {0}
Event == [type : EventType, cand : Number, of : Subject]

-----------------------------------------------------------------------------
(* The writes of project.py, as the sequences the operations are made of.  *)

WriteKind ==
    {"mkdir", "file", "state", "command", "expectation", "observation", "scan", "event",
     "index", "verify"}
Write == [kind : WriteKind, cand : Number, of : Subject,
          value : Content \cup EventType]
OneWrite(kind, c, of, value) ==
    << [kind |-> kind, cand |-> c, of |-> of, value |-> value] >>

(* Seeded bug: the event is appended before its file exists.                *)
ArtifactEventFirst(c, name, content, type) ==
    OneWrite("event", c, name, type) \o OneWrite("file", c, name, content)

(* write_candidate_artifact: the immutable file, then its event.            *)
Artifact(c, name, content, type) ==
    OneWrite("file", c, name, content) \o OneWrite("event", c, name, type)

(* Seeded bug: the index is updated first.                                  *)
TransitionIndexFirst(c, to, evidence) ==
    OneWrite("index", c, to, "absent")
    \o OneWrite("state", c, to, evidence)
    \o OneWrite("event", c, to, "STATE_TRANSITION")

(* _transition: the state record, its event, the index.                     *)
Transition(c, to, evidence) ==
    OneWrite("state", c, to, evidence)
    \o OneWrite("event", c, to, "STATE_TRANSITION")
    \o OneWrite("index", c, to, "absent")

(* append_candidate_record, for n records.                                  *)
CommandRecords(c, n, type) ==
    [i \in 1..2 * n |->
        [kind |-> IF i % 2 = 1 THEN "command" ELSE "event", cand |-> c,
         of |-> "command", value |-> IF i % 2 = 1 THEN "written" ELSE type]]

-----------------------------------------------------------------------------
(* What the operations read.                                               *)

Present(c, name) == file[c][name] # "absent"

(* read_jsonl(states.jsonl) raises on a line that does not parse, and       *)
(* current_state raises on an empty history.                                *)
Readable(c) == c \in dirs /\ history[c] # <<>> /\ tail[c] # "garbled"
CurrentState(c) == history[c][Len(history[c])].to
In(c, s) == Readable(c) /\ CurrentState(c) = s
SourcesReadable == observations # <<>> /\ tail[0] # "garbled"
ReadCandidate(c) == Present(c, "candidate") /\ Present(c, "hypothesis") /\ Readable(c)

(* The entries of s about candidate c and of one type, in their order.      *)
Selected(s, c, type) ==
    LET upTo[i \in 0..Len(s)] ==
            IF i = 0 THEN <<>>
            ELSE IF s[i].cand = c /\ s[i].type = type THEN Append(upTo[i - 1], s[i])
            ELSE upTo[i - 1]
    IN upTo[Len(s)]
EventsOf(c, type) == Selected(ledger, c, type)
Targets(s) == [i \in DOMAIN s |-> s[i].to]
TransitionEvents(c) ==
    LET es == EventsOf(c, "STATE_TRANSITION") IN [i \in DOMAIN es |-> es[i].of]

(* Seeded bug: only the newest record is looked for in the ledger.          *)
NewestBound(targets, events, proposals) ==
    /\ Len(targets) >= 3
    /\ \E i \in DOMAIN events : events[i] = targets[Len(targets)]

(* A legal history, of which the ledger has every transition, once and in   *)
(* order, and one proposal.                                                 *)
HistoryBound(targets, events, proposals) ==
    /\ Len(targets) >= 3
    /\ targets[1] = "SIGNAL"
    /\ \A i \in 2..Len(targets) : targets[i] \in Allowed(targets[i - 1])
    /\ events = Tail(targets)
    /\ proposals = 1

(* _state_history_valid, without its last condition on the current state.   *)
HistoryValid(c) ==
    /\ Readable(c) /\ ~torn
    /\ Present(c, "candidate") /\ Present(c, "hypothesis")
    /\ HistoryBound(Targets(history[c]), TransitionEvents(c),
                    Len(EventsOf(c, "CANDIDATE_PROPOSED")))

-----------------------------------------------------------------------------
Init ==
    /\ dirs = {}
    /\ file = [c \in Candidate |-> [n \in FileName |-> "absent"]]
    /\ history = [c \in Candidate |-> <<>>]
    /\ tail = [c \in Candidate \cup {0} |-> "whole"]
    /\ commands = [c \in Candidate |-> 0]
    /\ expectations = 0
    /\ observations = <<>> /\ scan = FALSE
    /\ ledger = << [type |-> "RUN_CREATED", cand |-> 0, of |-> "run"] >>
    /\ torn = FALSE
    /\ index = [c \in Candidate |-> NoRow]
    /\ listing = [r \in Lister |-> <<>>]
    /\ job = <<>>
    /\ faults = 0

Start(writes) ==
    /\ job = <<>>
    /\ Len(ledger) < MaxEvents
    /\ job' = writes
    /\ UNCHANGED <<store, listing, faults>>

(* observe: a scan that has its file is not made again, one that was        *)
(* interrupted is, from the beginning and with the same identifiers.        *)
ObservationRecords ==
    [i \in 1..2 * Found |->
        [kind |-> IF i % 2 = 1 THEN "observation" ELSE "event", cand |-> (i + 1) \div 2,
         of |-> "observation",
         value |-> IF i % 2 = 1 THEN "written" ELSE "OBSERVATION_RECORDED"]]
(* Seeded bug: the scan is declared complete before its batch is logged.    *)
ObservingScanFirst ==
    ObservationRecords
    \o OneWrite("scan", 0, "scan", "written")
    \o OneWrite("event", 0, "run", "OBSERVATION_BATCH_CAPTURED")
    \o OneWrite("event", 0, "scan", "KNOWLEDGE_SCAN_COMPLETED")
Observing ==
    ObservationRecords
    \o OneWrite("event", 0, "run", "OBSERVATION_BATCH_CAPTURED")
    \o OneWrite("scan", 0, "scan", "written")
    \o OneWrite("event", 0, "scan", "KNOWLEDGE_SCAN_COMPLETED")
Observe ==
    /\ ~scan /\ Len(observations) + Found <= MaxObservations
    /\ Start(Observing)

(* add_expectation, through append_record: the record, then its event.      *)
(* It names its sources among the observations.                             *)
Expecting(e) ==
    OneWrite("expectation", e, "expectation", "written")
    \o OneWrite("event", e, "expectation", "EXPECTATION_RECORDED")
AddExpectation ==
    /\ SourcesReadable
    /\ expectations < MaxExpectations
    /\ Start(Expecting(expectations + 1))

(* propose_candidate: next_id counts the directories; create_candidate.     *)
Proposal(c) ==
    OneWrite("mkdir", c, "candidate", "absent")
    \o OneWrite("file", c, "candidate", "written")
    \o OneWrite("file", c, "hypothesis", "written")
    \o OneWrite("state", c, "SIGNAL", "absent")
    \o Transition(c, "CANDIDATE", "absent")
    \o Transition(c, "HYPOTHESIZED", "absent")
    \o OneWrite("event", c, "candidate", "CANDIDATE_PROPOSED")
CreateCandidate(c) ==
    /\ SourcesReadable /\ expectations > 0
    /\ c = Cardinality(dirs) + 1
    /\ c \notin dirs
    /\ Start(Proposal(c))

Planning(c) ==
    Artifact(c, "plan", "written", "EXPERIMENT_PLANNED")
    \o Transition(c, "TESTABLE", "written")
PlanExperiment(c) ==
    /\ In(c, "HYPOTHESIZED") /\ ReadCandidate(c)
    /\ Start(Planning(c))

(* _execute_plan: a command that is refused is recorded and is the last one *)
(* tried; the capture of the differences is recorded in any case.           *)
Recorded(complete) == {Commands} \cup (IF complete THEN {} ELSE 2..Commands)

Execution(c, outcome, n) ==
    Artifact(c, "environment", "written", "EXECUTION_ENVIRONMENT_RECORDED")
    \o Artifact(c, "result", outcome, "EXPERIMENT_EXECUTED")
    \o CommandRecords(c, n, "COMMAND_RESULT_RECORDED")
ExecuteExperiment(c) ==
    /\ In(c, "TESTABLE") /\ Present(c, "plan")
    /\ \E outcome \in Outcome : \E n \in Recorded(outcome = "SUPPORTS") :
          Start(Execution(c, outcome, n))

(* transition_candidate: any allowed target but VERIFIED, on its evidence.  *)
EvidenceFile(to) ==
    CASE to = "TESTABLE" -> "plan" [] to = "SUPPORTED" -> "result"
      [] to = "REPRODUCED" -> "replay" [] OTHER -> "none"
(* Seeded bug: any replay result will do.                                   *)
AnyReplaySuffices(c, to) ==
    /\ to = "TESTABLE" => Present(c, "plan")
    /\ to = "SUPPORTED" => file[c]["result"] \in Supporting
    /\ to = "REPRODUCED" => Present(c, "replay")
EvidenceSuffices(c, to) ==
    /\ to = "TESTABLE" => Present(c, "plan")
    /\ to = "SUPPORTED" => file[c]["result"] \in Supporting
    /\ to = "REPRODUCED" => file[c]["replay"] = "PASS"
(* Seeded bug: require_transition is not called.                            *)
TransitionToAny(c, to) ==
    /\ Readable(c) /\ to # "VERIFIED"
    /\ to \in Rejection => to \in Withdrawal
    /\ EvidenceSuffices(c, to)
    /\ Start(Transition(c, to, IF EvidenceFile(to) = "none" THEN "absent"
                               ELSE file[c][EvidenceFile(to)]))
TransitionCandidate(c, to) ==
    /\ Readable(c)
    /\ to # "VERIFIED" /\ to \in Allowed(CurrentState(c))
    /\ to \in Rejection => to \in Withdrawal
    /\ EvidenceSuffices(c, to)
    /\ Start(Transition(c, to, IF EvidenceFile(to) = "none" THEN "absent"
                               ELSE file[c][EvidenceFile(to)]))

(* replay: a passing one moves the candidate to REPRODUCED; one that was    *)
(* denied is inconclusive.                                                  *)
Reproduced(c, status) ==
    IF status = "PASS" THEN Transition(c, "REPRODUCED", "PASS") ELSE <<>>
Replaying(c, status, n) ==
    Artifact(c, "replay_environment", "written", "REPLAY_ENVIRONMENT_RECORDED")
    \o Artifact(c, "replay", status, "REPLAY_COMPLETED")
    \o CommandRecords(c, n, "REPLAY_COMMAND_RECORDED")
    \o Reproduced(c, status)
Replay(c) ==
    /\ In(c, "SUPPORTED") /\ ReadCandidate(c)
    /\ Present(c, "result") /\ Present(c, "plan")
    /\ \E status \in ReplayStatus : \E n \in Recorded(status # "INCONCLUSIVE") :
          Start(Replaying(c, status, n))

Importing(c, status) ==
    Artifact(c, "replay_environment", "written", "EXTERNAL_REPLAY_ENVIRONMENT_IMPORTED")
    \o Artifact(c, "replay", status, "EXTERNAL_REPLAY_IMPORTED")
    \o Reproduced(c, status)
ImportExternalReplay(c) ==
    /\ In(c, "SUPPORTED") /\ ReadCandidate(c) /\ Present(c, "environment")
    /\ \E status \in ReplayStatus : Start(Importing(c, status))

(* add_review has no condition on the candidate's state.                    *)
Reviewing(c, type) == Artifact(c, type, "written", "REVIEW_RECORDED")
AddReview(c) ==
    /\ c \in dirs
    /\ \E type \in Review : Start(Reviewing(c, type))

Operation ==
    \/ Observe \/ AddExpectation
    \/ \E c \in Candidate :
        \/ CreateCandidate(c) \/ PlanExperiment(c) \/ ExecuteExperiment(c)
        \/ \E to \in State : TransitionCandidate(c, to)
        \/ Replay(c) \/ ImportExternalReplay(c) \/ AddReview(c)

-----------------------------------------------------------------------------
(* The next write of the operation in progress.                            *)

w == Head(job)
Doing(kind) == job # <<>> /\ w.kind = kind
Continue == job' = Tail(job)
Raise == job' = <<>> /\ UNCHANGED store
Steady == UNCHANGED <<listing, faults>>

MakeDirectory ==
    /\ Doing("mkdir") /\ Continue /\ Steady
    /\ dirs' = dirs \cup {w.cand}
    /\ UNCHANGED <<file, records, intake, ledger, torn, index>>

(* Seeded bugs: an existing file is replaced; an existing file is left and  *)
(* the operation goes on.                                                   *)
WriteAgain ==
    /\ Doing("file") /\ Steady /\ Continue
    /\ file' = [file EXCEPT ![w.cand][w.of] = w.value]
    /\ UNCHANGED <<dirs, records, intake, ledger, torn, index>>
WriteUnlessThere ==
    /\ Doing("file") /\ Steady /\ Continue
    /\ file' = [file EXCEPT ![w.cand][w.of] = IF @ = "absent" THEN w.value ELSE @]
    /\ UNCHANGED <<dirs, records, intake, ledger, torn, index>>

(* _write_once; atomic_write shows the whole file or none.                  *)
WriteOnce ==
    /\ Doing("file") /\ Steady
    /\ \/ /\ ~Present(w.cand, w.of) /\ Continue
          /\ file' = [file EXCEPT ![w.cand][w.of] = w.value]
          /\ UNCHANGED <<dirs, records, intake, ledger, torn, index>>
       \/ Present(w.cand, w.of) /\ Raise

(* append_jsonl looks at no byte of what is there: behind a last line that  *)
(* lost its newline, the new record makes both unreadable.                  *)
AppendState ==
    /\ Doing("state") /\ Continue /\ Steady
    /\ IF tail[w.cand] = "whole"
       THEN /\ history' = [history EXCEPT ![w.cand] =
                               Append(@, [to |-> w.of, evidence |-> w.value])]
            /\ UNCHANGED tail
       ELSE /\ tail' = [tail EXCEPT ![w.cand] = "garbled"]
            /\ UNCHANGED history
    /\ UNCHANGED <<dirs, file, commands, expectations, intake, ledger, torn, index>>

(* commands.jsonl is written and never read back.                           *)
AppendCommand ==
    /\ Doing("command") /\ Continue /\ Steady
    /\ commands' = [commands EXCEPT ![w.cand] = @ + 1]
    /\ UNCHANGED <<dirs, file, history, tail, expectations, intake, ledger, torn, index>>

AppendExpectation ==
    /\ Doing("expectation") /\ Continue /\ Steady
    /\ expectations' = expectations + 1
    /\ UNCHANGED <<dirs, file, history, tail, commands, intake, ledger, torn, index>>

(* Seeded bug: the file of observations is opened anew for every record.    *)
WriteOnlyObservation ==
    /\ Doing("observation") /\ Continue /\ Steady
    /\ observations' = <<w.cand>>
    /\ tail' = [tail EXCEPT ![0] = "whole"]
    /\ UNCHANGED <<dirs, file, history, commands, expectations, scan, ledger, torn, index>>
AppendObservation ==
    /\ Doing("observation") /\ Continue /\ Steady
    /\ IF tail[0] = "whole"
       THEN observations' = Append(observations, w.cand) /\ UNCHANGED tail
       ELSE tail' = [tail EXCEPT ![0] = "garbled"] /\ UNCHANGED observations
    /\ UNCHANGED <<dirs, file, history, commands, expectations, scan, ledger, torn, index>>

(* write_run_artifact; that the file is not there was checked under the     *)
(* same lock.                                                               *)
WriteScan ==
    /\ Doing("scan") /\ Continue /\ Steady
    /\ scan' = TRUE
    /\ UNCHANGED <<dirs, file, records, observations, ledger, torn, index>>

(* EventLedger.append (module EventLedger) refuses a torn ledger.           *)
AppendEvent ==
    /\ Doing("event") /\ Steady
    /\ \/ /\ ~torn /\ Continue
          /\ ledger' = Append(ledger, [type |-> w.value, cand |-> w.cand, of |-> w.of])
          /\ UNCHANGED <<dirs, file, records, intake, torn, index>>
       \/ torn /\ Raise

UpsertIndex ==
    /\ Doing("index") /\ Continue /\ Steady
    /\ index' = [index EXCEPT ![w.cand] = w.of]
    /\ UNCHANGED <<dirs, file, records, intake, ledger, torn>>

Perform ==
    \/ MakeDirectory \/ WriteOnce \/ AppendState \/ AppendCommand \/ AppendExpectation
    \/ AppendObservation \/ WriteScan \/ AppendEvent \/ UpsertIndex

(* The process dies between two writes, or the disk fails one of them.      *)
Crash ==
    /\ job # <<>>
    /\ faults < MaxFaults /\ faults' = faults + 1
    /\ job' = <<>>
    /\ UNCHANGED <<store, listing>>

(* An append reaches the file in part.  Either the process dies with it, or *)
(* the OS took fewer bytes than it was given; os.write and FileIO.write say *)
(* so, neither append_jsonl nor append looks, and the operation goes on.    *)
PartialAppend ==
    /\ job # <<>> /\ w.kind \in {"state", "observation", "event"}
    /\ faults < MaxFaults /\ faults' = faults + 1
    /\ job' \in {<<>>, Tail(job)}
    /\ \/ /\ w.kind = "event" /\ ~torn
          /\ torn' = TRUE
          /\ UNCHANGED <<history, tail, observations>>
       \/ /\ w.kind = "state"
          /\ \/ /\ tail[w.cand] = "whole" /\ tail' = [tail EXCEPT ![w.cand] = "nonl"]
                /\ history' = [history EXCEPT ![w.cand] =
                                  Append(@, [to |-> w.of, evidence |-> w.value])]
             \/ /\ tail' = [tail EXCEPT ![w.cand] = "garbled"]
                /\ UNCHANGED history
          /\ UNCHANGED <<torn, observations>>
       \/ /\ w.kind = "observation"
          /\ \/ /\ tail[0] = "whole" /\ tail' = [tail EXCEPT ![0] = "nonl"]
                /\ observations' = Append(observations, w.cand)
             \/ /\ tail' = [tail EXCEPT ![0] = "garbled"]
                /\ UNCHANGED observations
          /\ UNCHANGED <<history, torn>>
    /\ UNCHANGED <<dirs, file, commands, expectations, scan, ledger, index, listing>>

(* list_candidates, without the lock: it reads a candidate's state, and     *)
(* writes the row later.                                                    *)
ListRead(r, c) ==
    /\ listing[r] = <<>>
    /\ c \in dirs /\ Present(c, "candidate") /\ Readable(c)
    /\ listing' = [listing EXCEPT ![r] = <<c, CurrentState(c)>>]
    /\ UNCHANGED <<store, job, faults>>

ListWrite(r) ==
    /\ listing[r] # <<>>
    /\ index' = [index EXCEPT ![listing[r][1]] = listing[r][2]]
    /\ listing' = [listing EXCEPT ![r] = <<>>]
    /\ UNCHANGED <<dirs, file, records, intake, ledger, torn, job, faults>>

Next ==
    \/ Operation \/ Perform
    \/ Crash \/ PartialAppend
    \/ \E r \in Lister : ListWrite(r) \/ \E c \in Candidate : ListRead(r, c)

Spec == Init /\ [][Next]_vars
-----------------------------------------------------------------------------
TypeOK ==
    /\ dirs \subseteq Candidate
    /\ file \in [Candidate -> [FileName -> Content]]
    /\ history \in [Candidate -> Seq(StateRecord)]
    /\ tail \in [Candidate \cup {0} -> {"whole", "nonl", "garbled"}]
    /\ commands \in [Candidate -> Nat]
    /\ expectations \in Nat
    /\ observations \in Seq(1..Found) /\ scan \in BOOLEAN
    /\ ledger \in Seq(Event)
    /\ torn \in BOOLEAN
    /\ index \in [Candidate -> State \cup {NoRow}]
    /\ listing \in [Lister -> {<<>>} \cup (Candidate \X State)]
    /\ job \in Seq(Write)
    /\ faults \in 0..MaxFaults

(* Identifiers that were recorded and logged, or will be by the operation   *)
(* in progress.                                                             *)
Noted(i) == {k \in DOMAIN observations : observations[k] = i}
Logged(i) ==
    {k \in DOMAIN ledger : ledger[k].type = "OBSERVATION_RECORDED" /\ ledger[k].cand = i}

(* A scan that is declared complete is: every observation is in the file,   *)
(* as long as the file can be read, and in the ledger, whatever attempts    *)
(* were interrupted before the one that ended.                              *)
ScanIsBacked ==
    scan => \A i \in 1..Found :
        Logged(i) # {} /\ (Noted(i) # {} \/ tail[0] = "garbled")

(* Nothing is claimed before it exists: an artifact event names a file that *)
(* is there, the transition events of a candidate are among its state       *)
(* records, in their order, as long as they can be read, and a scan that is *)
(* declared complete has its observations.                                  *)
FilesAreThere ==
    \A i \in DOMAIN ledger : ledger[i].of \in FileName => Present(ledger[i].cand, ledger[i].of)
MovesOf(c) == {i \in DOMAIN ledger : ledger[i].type = "STATE_TRANSITION" /\ ledger[i].cand = c}
MovesAreRecorded ==
    \A c \in Candidate : tail[c] # "garbled" =>
        \A i, j \in MovesOf(c) : i <= j =>
            \E k \in DOMAIN history[c] :
                /\ history[c][k].to = ledger[i].of
                /\ \E l \in DOMAIN history[c] :
                        /\ history[c][l].to = ledger[j].of
                        /\ IF i = j THEN k = l ELSE k < l
EventsAreBacked == FilesAreThere /\ MovesAreRecorded /\ ScanIsBacked

(* Crashes, retries and repairs through transition_candidate never produce  *)
(* a state history that the policy forbids.                                 *)
HistoryIsLegal ==
    \A c \in Candidate : \A i \in DOMAIN history[c] :
        IF i = 1 THEN history[c][i].to = "SIGNAL"
        ELSE history[c][i].to \in Allowed(history[c][i - 1].to)

(* Whatever path led there, a REPRODUCED candidate has the plan, a          *)
(* supporting result and a passing replay on disk, and its records bind the *)
(* very contents that are there now.                                        *)
StateIsEvidenced ==
    \A c \in Candidate : \A i \in DOMAIN history[c] :
        LET r == history[c][i] IN
        /\ r.to = "TESTABLE" => Present(c, "plan")
        /\ r.to = "SUPPORTED" => file[c]["result"] \in {"SUPPORTS", "SUPPORTS_UNCLEAN"}
        /\ r.to = "REPRODUCED" => file[c]["replay"] = "PASS"
        /\ EvidenceFile(r.to) # "none" => r.evidence = file[c][EvidenceFile(r.to)]

(* A candidate whose execution died between environment and result cannot   *)
(* be executed again: it never gets a result, so it is never SUPPORTED.     *)
(* Whatever wants to write a result meets the environment first.            *)
Pending(c, kind, of) ==
    {i \in DOMAIN job : job[i].cand = c /\ job[i].kind = kind /\ job[i].of = of}
Interrupted(c) ==
    /\ Present(c, "environment") /\ ~Present(c, "result")
    /\ \A i \in Pending(c, "file", "result") :
            \E j \in Pending(c, "file", "environment") : j < i
InterruptedExecutionIsFinal ==
    [][\A c \in Candidate : Interrupted(c) => Interrupted(c)']_vars

(* A hole between a state history and the ledger that the operation in      *)
(* progress is not about to close is never closed: what could not be        *)
(* audited stays so, whatever is done or retried later.  Writes are         *)
(* selected like entries of the ledger, an event by its type, any other     *)
(* write by its kind.                                                       *)
Coming(writes) ==
    [i \in DOMAIN writes |->
        [type |-> IF writes[i].kind = "event" THEN writes[i].value ELSE writes[i].kind,
         cand |-> writes[i].cand, of |-> writes[i].of]]
ToCome(c, type) == Selected(Coming(job), c, type)
Subjects(entries) == [i \in DOMAIN entries |-> entries[i].of]
WillBePresent(c, name) == Present(c, name) \/ Pending(c, "file", name) # {}
WillBeValid(c) ==
    /\ ~torn
    /\ tail[c] # "garbled"
    /\ WillBePresent(c, "candidate") /\ WillBePresent(c, "hypothesis")
    /\ HistoryBound(Targets(history[c]) \o Subjects(ToCome(c, "state")),
                    TransitionEvents(c) \o Subjects(ToCome(c, "STATE_TRANSITION")),
                    Len(EventsOf(c, "CANDIDATE_PROPOSED"))
                        + Len(ToCome(c, "CANDIDATE_PROPOSED")))
Lost(c) == c \in dirs /\ ~WillBeValid(c)
LostHistoryStaysLost ==
    [][\A c \in Candidate : Lost(c) => Lost(c)']_vars

(* An intake is spoilt when an identifier is recorded twice, which the gate *)
(* identity_bound refuses, or a record lacks the one event the audit wants: *)
(* an observe that died after its first record can be repeated and will     *)
(* end, but never gives a run in which anything can be authorized.          *)
ObservationWrites(i, kind) ==
    {k \in DOMAIN job : job[k].of = "observation" /\ job[k].cand = i /\ job[k].kind = kind}
Unlogged(i) ==
    Cardinality(Noted(i)) + Cardinality(ObservationWrites(i, "observation"))
        # Cardinality(Logged(i)) + Cardinality(ObservationWrites(i, "event"))
Repeated(i) == Cardinality(Noted(i)) > 1
Spoilt == torn \/ tail[0] = "garbled" \/ \E i \in 1..Found : Repeated(i) \/ Unlogged(i)
SpoiltIntakeStaysSpoilt ==
    [][Spoilt => Spoilt']_vars

(* A row of the index is a state the candidate has recorded, never one that *)
(* an operation only intended, even with a reader that races it.            *)
IndexNeverAhead ==
    \A c \in Candidate :
        \/ index[c] = NoRow \/ tail[c] = "garbled"
        \/ \E i \in DOMAIN history[c] : history[c][i].to = index[c]
=============================================================================
