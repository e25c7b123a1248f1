------------------------------ MODULE Explorer ------------------------------
(***************************************************************************)
(* unasked/explorer.py: BoundedExplorer.run, the loop that asks a provider *)
(* for one action per turn and carries it out, and the meter of budget.py. *)
(* The whole investigation holds the mutation lock of the run (RunLock),   *)
(* so one process at a time is in it; others wait, and are refused once    *)
(* start.json exists.  What the operations it calls write is in RunStore;  *)
(* here a call is one step that succeeds or raises.  An exception that the *)
(* loop does not catch, or a death, may end it before any step.            *)
(***************************************************************************)
EXTENDS Naturals, Sequences, SequencesExt, FiniteSets

CONSTANTS
    MaxTurns,           \* the smaller of max_turns and max_provider_calls
    MaxToolCalls, MaxCandidates, MaxExperiments,
    MaxWall,            \* max_wall_seconds
    MaxRequest, MaxTotalRequest,
    RequestSize,        \* the sizes a request may have
    PlanCost            \* the wall seconds a plan may need, for all its commands

ASSUME ExplorerAssumption ==
    /\ {MaxTurns, MaxWall, MaxRequest, MaxTotalRequest} \subseteq Nat \ {0}
    /\ {MaxToolCalls, MaxCandidates, MaxExperiments} \subseteq Nat
    /\ RequestSize \subseteq Nat \ {0} /\ PlanCost \subseteq Nat

VARIABLES
    pc,             \* where the process that holds the lock is
    setting,        \* the mode, and whether plans are executed
    meter,          \* what was consumed, and the time that passed
    turn,           \* the turn under way
    status,         \* status of the investigation so far
    start,          \* start.json and its event
    turns,          \* turns.jsonl
    turnEvents,     \* EXPLORER_TURN_RECORDED events
    result,         \* result.json and its event
    expectations,   \* the turn in which each one was added
    candidates,     \* the ones it proposed, with their turns
    calls,          \* how often the provider was called, ever
    aborted         \* an investigation that began was cut short

process == <<pc, setting, meter, turn, status>>
store == <<start, turns, turnEvents, result, expectations, candidates>>
vars == <<process, store, calls, aborted>>

Mode == {"read_only", "tools", "experiments"}
ToolsPermitted == setting.mode # "read_only"
PlansPermitted == setting.mode = "experiments"

NoPlan == [cost |-> 0, large |-> FALSE, given |-> FALSE]
Plan == [cost : PlanCost, large : BOOLEAN, given : {TRUE}]
NoTurn == [action |-> "INVALID", plan |-> NoPlan, size |-> 0, answer |-> "REJECTED",
           late |-> FALSE, torn |-> FALSE]
NoMeter == [turns |-> 0, tools |-> 0, candidates |-> 0, experiments |-> 0,
            bytes |-> 0, elapsed |-> 0]
Absent == [status |-> "absent", turns |-> 0, event |-> FALSE]

Init ==
    /\ pc = "idle"
    /\ setting = [mode |-> "read_only", auto |-> FALSE]
    /\ meter = NoMeter
    /\ turn = NoTurn
    /\ status = "COMPLETED"
    /\ start = "absent"
    /\ turns = <<>> /\ turnEvents = 0
    /\ result = Absent
    /\ expectations = <<>> /\ candidates = <<>>
    /\ calls = 0 /\ aborted = FALSE

Goto(from, to) == pc = from /\ pc' = to
NoTime == meter.elapsed >= MaxWall

(* BudgetMeter.exhausted_reason, require_capacity and record.               *)
Exhausted(n) ==
    \/ meter.turns >= MaxTurns
    \/ meter.bytes + n > MaxTotalRequest \/ n > MaxRequest
    \/ NoTime
Limit == [tools |-> MaxToolCalls, candidates |-> MaxCandidates, experiments |-> MaxExperiments]
Full(dimension) == meter[dimension] + 1 > Limit[dimension]
Count(dimension) == meter' = [meter EXCEPT ![dimension] = @ + 1]

(* How the turn under way ends: its action is accepted, rejected, or does   *)
(* not fit the budget, which ends the investigation.                        *)
Close(from, answer) ==
    /\ Goto(from, "record")
    /\ turn' = [turn EXCEPT !.answer = answer]
Accept(from) == Close(from, "ACCEPTED") /\ UNCHANGED status
(* Seeded bug: a rejected answer is asked for again.                        *)
RejectUnrecorded(from) ==
    Goto(from, "request") /\ turn' = [turn EXCEPT !.answer = "REJECTED"] /\ UNCHANGED status
Reject(from) == Close(from, "REJECTED") /\ UNCHANGED status
Exhaust(from) == Close(from, "EXHAUSTED") /\ status' = "BUDGET_EXHAUSTED"
Proceed(from, to) == Goto(from, to) /\ UNCHANGED <<turn, status>>

-----------------------------------------------------------------------------
(* Seeded bug: an investigation without a result may be started again.      *)
EnterUnfinished ==
    /\ result = Absent
    /\ Goto("idle", "start")
    /\ setting' \in [mode : Mode, auto : BOOLEAN]
    /\ setting'.auto => setting'.mode = "experiments"
    /\ meter' = NoMeter /\ turn' = NoTurn /\ status' = "COMPLETED"
    /\ UNCHANGED <<store, calls, aborted>>
(* _assert_ready, under the lock.                                           *)
Enter ==
    /\ start = "absent"
    /\ Goto("idle", "start")
    /\ setting' \in [mode : Mode, auto : BOOLEAN]
    /\ setting'.auto => setting'.mode = "experiments"
    /\ meter' = NoMeter /\ turn' = NoTurn /\ status' = "COMPLETED"
    /\ UNCHANGED <<store, calls, aborted>>

WriteStart ==
    /\ Goto("start", "start_event") /\ start' = "file"
    /\ UNCHANGED <<setting, meter, turn, status, turns, turnEvents, result,
                   expectations, candidates, calls, aborted>>
StartEvent ==
    /\ Goto("start_event", "request") /\ start' = "event"
    /\ UNCHANGED <<setting, meter, turn, status, turns, turnEvents, result,
                   expectations, candidates, calls, aborted>>

(* Seeded bug: an exhausted budget is waited out.                           *)
RequestWaiting(n) ==
    /\ Goto("request", "call") /\ ~Exhausted(n)
    /\ turn' = [NoTurn EXCEPT !.size = n]
    /\ UNCHANGED <<setting, meter, status, store, calls, aborted>>
(* The next request is built; it is sent only if the budget has room.       *)
Request(n) ==
    /\ pc = "request"
    /\ turn' = [NoTurn EXCEPT !.size = n]
    /\ IF Exhausted(n) THEN pc' = "finish" /\ status' = "BUDGET_EXHAUSTED"
                       ELSE pc' = "call" /\ UNCHANGED status
    /\ UNCHANGED <<setting, meter, store, calls, aborted>>

(* The time is looked at again before the call.                             *)
Invoke ==
    /\ pc = "call"
    /\ IF NoTime THEN pc' = "finish" /\ status' = "BUDGET_EXHAUSTED" /\ UNCHANGED calls
                 ELSE pc' = "answer" /\ calls' = calls + 1 /\ UNCHANGED status
    /\ UNCHANGED <<setting, meter, turn, store, aborted>>

CountCall == meter' = [meter EXCEPT !.turns = @ + 1, !.bytes = @ + turn.size]

(* The provider raises, exits with an error, or writes too much.            *)
ProviderFails ==
    /\ Close("answer", "REJECTED") /\ status' = "PROVIDER_FAILED" /\ CountCall
    /\ UNCHANGED <<setting, store, calls, aborted>>
(* It is stopped for the time, or its answer comes when there is none left. *)
AnswersLate ==
    /\ NoTime
    /\ Goto("answer", "record") /\ CountCall
    /\ turn' = [turn EXCEPT !.answer = "EXHAUSTED", !.late = TRUE]
    /\ status' = "BUDGET_EXHAUSTED"
    /\ UNCHANGED <<setting, store, calls, aborted>>
AnswersUnreadably ==
    /\ ~NoTime
    /\ Reject("answer") /\ CountCall
    /\ UNCHANGED <<setting, store, calls, aborted>>
(* Seeded bug: the clock is not looked at again once the answer is there.   *)
AnswersAnyTime(action, plan) ==
    /\ action # "PROPOSE" => plan = NoPlan
    /\ Goto("answer", "dispatch") /\ CountCall
    /\ turn' = [turn EXCEPT !.action = action, !.plan = plan, !.late = NoTime]
    /\ UNCHANGED <<setting, status, store, calls, aborted>>
Answers(action, plan) ==
    /\ ~NoTime
    /\ action # "PROPOSE" => plan = NoPlan
    /\ Goto("answer", "dispatch") /\ CountCall
    /\ turn' = [turn EXCEPT !.action = action, !.plan = plan]
    /\ UNCHANGED <<setting, status, store, calls, aborted>>

-----------------------------------------------------------------------------
DispatchStop ==
    /\ turn.action = "STOP" /\ Accept("dispatch")
    /\ UNCHANGED <<setting, meter, store, calls, aborted>>

DispatchTool ==
    /\ turn.action = "TOOL"
    /\ IF ~ToolsPermitted THEN Reject("dispatch")
       ELSE IF Full("tools") \/ NoTime THEN Exhaust("dispatch")
       ELSE Proceed("dispatch", "tool")
    /\ UNCHANGED <<setting, meter, store, calls, aborted>>
(* A tool may refuse its arguments; it counts if there is time left.        *)
UseTool ==
    /\ \/ Reject("tool") /\ UNCHANGED meter
       \/ NoTime /\ Exhaust("tool") /\ UNCHANGED meter
       \/ ~NoTime /\ Accept("tool") /\ Count("tools")
    /\ UNCHANGED <<setting, store, calls, aborted>>

PlanFits ==
    /\ ~Full("experiments") /\ ~turn.plan.large
    /\ ~NoTime /\ turn.plan.cost <= MaxWall - meter.elapsed
(* Seeded bug: the plan's room in the budget is left to its counting.       *)
DispatchProposalLate ==
    /\ turn.action = "PROPOSE"
    /\ IF Full("candidates") THEN Exhaust("dispatch")
       ELSE IF turn.plan.given /\ ~PlansPermitted THEN Reject("dispatch")
       ELSE Proceed("dispatch", "expect")
    /\ UNCHANGED <<setting, meter, store, calls, aborted>>
(* _propose: all limits are checked before anything is written.             *)
DispatchProposal ==
    /\ turn.action = "PROPOSE"
    /\ IF Full("candidates") THEN Exhaust("dispatch")
       ELSE IF turn.plan.given /\ ~PlansPermitted THEN Reject("dispatch")
       ELSE IF turn.plan.given /\ ~PlanFits THEN Exhaust("dispatch")
       ELSE Proceed("dispatch", "expect")
    /\ UNCHANGED <<setting, meter, store, calls, aborted>>

AddExpectation ==
    /\ \/ Reject("expect") /\ UNCHANGED expectations
       \/ Proceed("expect", "propose") /\ expectations' = Append(expectations, meter.turns)
    /\ UNCHANGED <<setting, meter, start, turns, turnEvents, result, candidates,
                   calls, aborted>>

Proposed == [state |-> "HYPOTHESIZED", explained |-> FALSE, turn |-> meter.turns]
(* The candidate is there before it is counted.                             *)
ProposeCandidate ==
    /\ \/ Reject("propose") /\ UNCHANGED <<meter, candidates>>
       \/ /\ candidates' = Append(candidates, Proposed)
          /\ IF Full("candidates") THEN Exhaust("propose") /\ UNCHANGED meter
             ELSE Proceed("propose", "provenance") /\ Count("candidates")
    /\ UNCHANGED <<setting, start, turns, turnEvents, result, expectations, calls, aborted>>

Newest == Len(candidates)
SetNewest(field, value) == candidates' = [candidates EXCEPT ![Newest][field] = value]

(* Seeded bug: where a plan follows, the provenance is left to it.          *)
WriteProvenanceLast ==
    /\ IF turn.plan.given THEN Proceed("provenance", "plan") /\ UNCHANGED candidates
       ELSE Accept("provenance") /\ SetNewest("explained", TRUE)
    /\ UNCHANGED <<setting, meter, start, turns, turnEvents, result, expectations,
                   calls, aborted>>
(* Its event is refused only by a torn ledger, when the file is there.      *)
WriteProvenance ==
    /\ \/ IF turn.plan.given THEN Proceed("provenance", "plan") ELSE Accept("provenance")
       \/ /\ Goto("provenance", "record") /\ UNCHANGED status
          /\ turn' = [turn EXCEPT !.answer = "REJECTED", !.torn = TRUE]
    /\ SetNewest("explained", TRUE)
    /\ UNCHANGED <<setting, meter, start, turns, turnEvents, result, expectations,
                   calls, aborted>>

(* A plan that is refused leaves the candidate behind.                      *)
PlanExperiment ==
    /\ \/ Reject("plan") /\ UNCHANGED <<meter, candidates>>
       \/ /\ pc = "plan" /\ SetNewest("state", "TESTABLE")
          /\ IF Full("experiments") THEN Exhaust("plan") /\ UNCHANGED meter
             ELSE /\ Count("experiments")
                  /\ IF setting.auto THEN Proceed("plan", "execute") ELSE Accept("plan")
    /\ UNCHANGED <<setting, start, turns, turnEvents, result, expectations, calls, aborted>>

(* The sandbox refuses, or the experiment ends in some outcome.             *)
ExecuteExperiment ==
    /\ Reject("execute") \/ Proceed("execute", "judge")
    /\ UNCHANGED <<setting, meter, store, calls, aborted>>
Judge ==
    /\ Accept("judge")
    /\ \E s \in {"SUPPORTED", "FALSIFIED", "INCONCLUSIVE"} : SetNewest("state", s)
    /\ UNCHANGED <<setting, meter, start, turns, turnEvents, result, expectations,
                   calls, aborted>>

-----------------------------------------------------------------------------
RecordTurn ==
    /\ Goto("record", "turn_event")
    /\ turns' = Append(turns, [action |-> turn.action, answer |-> turn.answer])
    /\ UNCHANGED <<setting, meter, turn, status, start, turnEvents, result,
                   expectations, candidates, calls, aborted>>

(* Seeded bug: whatever is not accepted ends the investigation.             *)
TurnEventEndingOnRejection ==
    /\ pc = "turn_event"
    /\ turnEvents' = turnEvents + 1
    /\ pc' = IF status # "COMPLETED" \/ turn.action = "STOP" \/ turn.answer = "REJECTED"
             THEN "finish" ELSE "request"
    /\ UNCHANGED <<setting, meter, turn, status, start, turns, result,
                   expectations, candidates, calls, aborted>>
(* A ledger that was torn in this turn refuses this event too, and nothing  *)
(* catches that.                                                            *)
TurnEvent ==
    /\ pc = "turn_event"
    /\ IF turn.torn THEN pc' = "idle" /\ aborted' = TRUE /\ UNCHANGED turnEvents
       ELSE /\ turnEvents' = turnEvents + 1 /\ UNCHANGED aborted
            /\ pc' = IF status # "COMPLETED" \/ (turn.action = "STOP" /\ turn.answer = "ACCEPTED")
                     THEN "finish" ELSE "request"
    /\ UNCHANGED <<setting, meter, turn, status, start, turns, result,
                   expectations, candidates, calls>>

WriteResult ==
    /\ Goto("finish", "result_event")
    /\ result' = [status |-> status, turns |-> meter.turns, event |-> FALSE]
    /\ UNCHANGED <<setting, meter, turn, status, start, turns, turnEvents,
                   expectations, candidates, calls, aborted>>
ResultEvent ==
    /\ Goto("result_event", "idle")
    /\ result' = [result EXCEPT !.event = TRUE]
    /\ UNCHANGED <<setting, meter, turn, status, start, turns, turnEvents,
                   expectations, candidates, calls, aborted>>

-----------------------------------------------------------------------------
(* Time passes, during calls, tools and experiments above all.              *)
Tick ==
    /\ pc # "idle" /\ ~NoTime
    /\ meter' = [meter EXCEPT !.elapsed = @ + 1]
    /\ UNCHANGED <<pc, setting, turn, status, store, calls, aborted>>

Abort ==
    /\ pc # "idle"
    /\ pc' = "idle"
    /\ aborted' = (aborted \/ start # "absent")
    /\ UNCHANGED <<setting, meter, turn, status, store, calls>>

Turn ==
    \/ \E n \in RequestSize : Request(n)
    \/ Invoke \/ ProviderFails \/ AnswersLate \/ AnswersUnreadably
    \/ \E action \in {"TOOL", "PROPOSE", "STOP"}, plan \in Plan \cup {NoPlan} :
           Answers(action, plan)
    \/ DispatchStop \/ DispatchTool \/ UseTool \/ DispatchProposal
    \/ AddExpectation \/ ProposeCandidate \/ WriteProvenance
    \/ PlanExperiment \/ ExecuteExperiment \/ Judge
    \/ RecordTurn \/ TurnEvent
Step == WriteStart \/ StartEvent \/ Turn \/ WriteResult \/ ResultEvent
Next == Enter \/ Step \/ Tick \/ Abort

Spec == Init /\ [][Next]_vars
FairSpec == Spec /\ WF_vars(Step)

-----------------------------------------------------------------------------
TypeOK ==
    /\ pc \in {"idle", "start", "start_event", "request", "call", "answer", "dispatch",
               "tool", "expect", "propose", "provenance", "plan", "execute", "judge",
               "record", "turn_event", "finish", "result_event"}
    /\ setting \in [mode : Mode, auto : BOOLEAN]
    /\ meter \in [turns : 0..MaxTurns, tools : 0..MaxToolCalls,
                  candidates : 0..MaxCandidates, experiments : 0..MaxExperiments,
                  bytes : 0..MaxTotalRequest, elapsed : 0..MaxWall]
    /\ status \in {"COMPLETED", "BUDGET_EXHAUSTED", "PROVIDER_FAILED"}
    /\ turnEvents \in Nat /\ expectations \in Seq(Nat) /\ calls \in Nat

Planned == {i \in DOMAIN candidates : candidates[i].state # "HYPOTHESIZED"}

(* What a run really did is within the budget, not only what the meter of   *)
(* one process says: the calls ever made, the candidates and plans on disk, *)
(* over every death and every new attempt.                                  *)
BudgetKept ==
    /\ calls <= MaxTurns
    /\ Len(candidates) <= MaxCandidates
    /\ Cardinality(Planned) <= MaxExperiments

(* Every call of the provider has its turn record and its event, in order,  *)
(* except the last one of an investigation that was cut short.              *)
EveryCallIsRecorded ==
    /\ calls - Len(turns) \in 0..1 /\ Len(turns) - turnEvents \in 0..1
    /\ pc \in {"request", "finish"} => calls = turnEvents
    /\ result # Absent => (calls = turnEvents /\ result.turns = Len(turns))

(* The status of a result is the story its turns tell: completed means that *)
(* the provider stopped, out of budget that a turn or the next request did  *)
(* not fit, and nothing came after a turn that had to end it.               *)
Ends(t) == t.answer = "EXHAUSTED" \/ t = [action |-> "STOP", answer |-> "ACCEPTED"]
ResultIsTrue ==
    /\ \A i \in DOMAIN turns : Ends(turns[i]) => i = Len(turns)
    /\ result.status = "COMPLETED" =>
          turns # <<>> /\ Last(turns) = [action |-> "STOP", answer |-> "ACCEPTED"]
    /\ result.status = "PROVIDER_FAILED" =>
          turns # <<>> /\ Last(turns) = [action |-> "INVALID", answer |-> "REJECTED"]
    /\ result.status = "BUDGET_EXHAUSTED" =>
          (turns # <<>> /\ Last(turns).answer = "EXHAUSTED") \/ Exhausted(turn.size)

(* test_budget.py: the meter stops before the side effect.  A turn that is  *)
(* recorded as exhausted, or whose answer came when the time was used up,   *)
(* has left neither an expectation nor a candidate in the run, hence no     *)
(* plan either: a dimension is counted after its side effect, and a whole   *)
(* proposal comes between the look at the clock and the record.             *)
Proposing == Range(expectations) \cup {candidates[j].turn : j \in DOMAIN candidates}
ExhaustedLeavesNothing ==
    /\ \A i \in DOMAIN turns : turns[i].answer = "EXHAUSTED" => i \notin Proposing
    /\ pc = "record" /\ turn.late => meter.turns \notin Proposing

(* A finished investigation tells of every candidate which request and      *)
(* response it came from, also of one whose plan was refused.               *)
CandidatesAreExplained ==
    result # Absent => \A i \in DOMAIN candidates : candidates[i].explained

(* An investigation that is not cut short ends with its result, whatever    *)
(* the provider answers.                                                    *)
InvestigationEnds == pc = "start_event" ~> result.event \/ aborted
=============================================================================
