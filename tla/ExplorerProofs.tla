--------------------------- MODULE ExplorerProofs ---------------------------
(***************************************************************************)
(* Theorems about Explorer, for every budget and every answer.  The        *)
(* inductive invariant IInv, stated part by part before the lemma that     *)
(* needs it, relates the meter of the process, the records on disk and the *)
(* turn under way.                                                         *)
(***************************************************************************)
EXTENDS Explorer, FiniteSetTheorems, SequenceTheorems, TLAPS

Settled == {"start_event", "request", "call", "finish", "result_event"}
Answered == {"dispatch", "tool", "expect", "propose", "provenance", "plan", "execute",
             "judge", "record"}

Answer == {"ACCEPTED", "REJECTED", "EXHAUSTED"}
Action == {"INVALID", "TOOL", "PROPOSE", "STOP"}
Candidate == [state : {"HYPOTHESIZED", "TESTABLE", "SUPPORTED", "FALSIFIED", "INCONCLUSIVE"},
              explained : BOOLEAN, turn : Nat]
TurnType == [action : Action, plan : Plan \cup {NoPlan}, size : Nat, answer : Answer,
             late : BOOLEAN, torn : BOOLEAN]

(* TypeOK, and the type of what it leaves open.                             *)
Types ==
    /\ TypeOK
    /\ turn \in TurnType
    /\ start \in {"absent", "file", "event"}
    /\ turns \in Seq([action : Action, answer : Answer])
    /\ result \in [status : {"absent", "COMPLETED", "BUDGET_EXHAUSTED", "PROVIDER_FAILED"},
                   turns : Nat, event : BOOLEAN]
    /\ candidates \in Seq(Candidate)
    /\ aborted \in BOOLEAN

(* Before its first file nothing of an investigation is there, and there is *)
(* only one with a file.                                                    *)
StartInv ==
    /\ start = "absent" =>
          /\ pc \in {"idle", "start"}
          /\ calls = 0 /\ turnEvents = 0 /\ turns = <<>> /\ candidates = <<>>
          /\ result = Absent
    /\ pc = "start" =>
          /\ start = "absent"
          /\ meter.turns = 0 /\ meter.candidates = 0 /\ meter.experiments = 0

(* How far calls, records, events and the meter are apart in each place.    *)
CallInv ==
    /\ calls <= MaxTurns
    /\ calls - Len(turns) \in 0..1 /\ Len(turns) - turnEvents \in 0..1
    /\ pc \in Settled => calls = turnEvents /\ meter.turns = calls
    /\ pc = "answer" =>
          calls = turnEvents + 1 /\ Len(turns) = turnEvents /\ meter.turns = turnEvents
    /\ pc \in Answered =>
          calls = turnEvents + 1 /\ Len(turns) = turnEvents /\ meter.turns = calls
    /\ pc = "turn_event" =>
          calls = turnEvents + 1 /\ Len(turns) = calls /\ meter.turns = calls
    /\ result # Absent =>
          calls = turnEvents /\ result.turns = Len(turns) /\ pc \in {"idle", "result_event"}
    /\ pc = "result_event" => result # Absent
    /\ pc \in {"call", "answer"} =>
          meter.turns < MaxTurns /\ meter.bytes + turn.size <= MaxTotalRequest

(* The assumption, split up.                                                *)
LEMMA Limits ==
    /\ MaxTurns \in Nat /\ MaxTurns > 0
    /\ MaxWall \in Nat /\ MaxWall > 0
    /\ MaxRequest \in Nat
    /\ MaxTotalRequest \in Nat /\ MaxTotalRequest > 0
    /\ MaxToolCalls \in Nat /\ MaxCandidates \in Nat /\ MaxExperiments \in Nat
    /\ \A n \in RequestSize : n \in Nat
    /\ \A n \in PlanCost : n \in Nat
<1>1. MaxTurns \in Nat \ {0} /\ MaxWall \in Nat \ {0}
  BY ExplorerAssumption
<1>2. MaxRequest \in Nat \ {0} /\ MaxTotalRequest \in Nat \ {0}
  BY ExplorerAssumption
<1> QED
  BY <1>1, <1>2, ExplorerAssumption

(* The parts about types, start and calls hold at first.                    *)
LEMMA InitCalls == ASSUME Init PROVE Types /\ StartInv /\ CallInv
<1>1. TypeOK
  BY Limits DEF Init, TypeOK, Mode, NoMeter
<1>2. turn \in TurnType
  BY DEF Init, NoTurn, TurnType, Action, Answer
<1>3. turns \in Seq([action : Action, answer : Answer]) /\ candidates \in Seq(Candidate)
  BY DEF Init
<1>4. result \in [status : {"absent", "COMPLETED", "BUDGET_EXHAUSTED", "PROVIDER_FAILED"},
                  turns : Nat, event : BOOLEAN]
  BY DEF Init, Absent
<1>5. Types
  <2>1. start \in {"absent", "file", "event"} /\ aborted \in BOOLEAN
    BY DEF Init
  <2> QED
    BY <1>1, <1>2, <1>3, <1>4, <2>1 DEF Types
<1>6. Len(turns) = 0 /\ calls = 0 /\ turnEvents = 0
  BY DEF Init
<1>7. result = Absent /\ pc = "idle"
  BY DEF Init
<1>8. StartInv
  BY <1>7 DEF Init, StartInv
<1>9. calls <= MaxTurns /\ calls - Len(turns) \in 0..1 /\ Len(turns) - turnEvents \in 0..1
  BY <1>6, Limits
<1>10. CallInv
  BY <1>7, <1>9 DEF CallInv, Settled, Answered
<1> QED
  BY <1>5, <1>8, <1>10

(* What the meter has room for when a count or a call is still to come.     *)
RoomInv ==
    /\ pc = "tool" => meter.tools < MaxToolCalls
    /\ pc \in {"expect", "propose"} => meter.candidates < MaxCandidates
    /\ pc \in {"expect", "propose", "provenance"} /\ turn.plan.given =>
          meter.experiments < MaxExperiments
    /\ pc = "plan" => meter.experiments < MaxExperiments

(* When a dimension of the meter is full.                                   *)
LEMMA Rooms ==
    /\ Full("tools") <=> meter.tools + 1 > MaxToolCalls
    /\ Full("candidates") <=> meter.candidates + 1 > MaxCandidates
    /\ Full("experiments") <=> meter.experiments + 1 > MaxExperiments
BY DEF Full, Limit

(* Every step keeps RoomInv.                                                *)
LEMMA RoomStep ==
    ASSUME Types, RoomInv, Next
    PROVE  RoomInv'
<1> USE Rooms, Limits DEF RoomInv, Types, TypeOK, Goto, Close, Accept, Reject, Exhaust, Proceed
<1>0. /\ meter.tools \in Nat /\ meter.candidates \in Nat /\ meter.experiments \in Nat
      /\ MaxToolCalls \in Nat /\ MaxCandidates \in Nat /\ MaxExperiments \in Nat
  OBVIOUS
<1>1. CASE Enter
  BY <1>1 DEF Enter
<1>2. CASE WriteStart
  BY <1>2 DEF WriteStart
<1>3. CASE StartEvent
  BY <1>3 DEF StartEvent
<1>4. ASSUME NEW n \in RequestSize, Request(n) PROVE RoomInv'
  BY <1>4 DEF Request
<1>5. CASE Invoke
  BY <1>5 DEF Invoke
<1>6. CASE ProviderFails
  BY <1>6 DEF ProviderFails
<1>7. CASE AnswersLate
  BY <1>7 DEF AnswersLate
<1>8. CASE AnswersUnreadably
  BY <1>8 DEF AnswersUnreadably
<1>9. ASSUME NEW action \in {"TOOL", "PROPOSE", "STOP"}, NEW plan \in Plan \cup {NoPlan},
            Answers(action, plan)
      PROVE  RoomInv'
  BY <1>9 DEF Answers
<1>10. CASE DispatchStop
  BY <1>10 DEF DispatchStop
<1>11. CASE DispatchTool
  <2>1. pc' = "record" \/ (pc' = "tool" /\ ~Full("tools"))
    BY <1>11 DEF DispatchTool
  <2>2. meter' = meter
    BY <1>11 DEF DispatchTool
  <2> HIDE DEF Types, TypeOK
  <2> QED
    BY <1>0, <2>1, <2>2
<1>12. CASE UseTool
  BY <1>12 DEF UseTool
<1>13. CASE DispatchProposal
  <2>1. \/ pc' = "record"
        \/ /\ pc' = "expect" /\ ~Full("candidates") /\ turn' = turn
           /\ turn.plan.given => ~Full("experiments")
    BY <1>13 DEF DispatchProposal, PlanFits
  <2>2. meter' = meter
    BY <1>13 DEF DispatchProposal
  <2> HIDE DEF Types, TypeOK
  <2> QED
    BY <1>0, <2>1, <2>2
<1>14. CASE AddExpectation
  BY <1>14 DEF AddExpectation
<1>15. CASE ProposeCandidate
  <2>1. \/ pc' = "record"
        \/ /\ pc = "propose" /\ pc' = "provenance" /\ turn' = turn
           /\ meter' = [meter EXCEPT !["candidates"] = @ + 1]
    <3>1. CASE Full("candidates")
      BY <1>15, <3>1 DEF ProposeCandidate
    <3>2. CASE ~Full("candidates")
      BY <1>15, <3>2 DEF ProposeCandidate, Count
    <3> QED
      BY <3>1, <3>2
  <2> QED
    BY <2>1
<1>16. CASE WriteProvenance
  BY <1>16 DEF WriteProvenance
<1>17. CASE PlanExperiment
  BY <1>17 DEF PlanExperiment
<1>18. CASE ExecuteExperiment
  BY <1>18 DEF ExecuteExperiment
<1>19. CASE Judge
  BY <1>19 DEF Judge
<1>20. CASE RecordTurn
  BY <1>20 DEF RecordTurn
<1>21. CASE TurnEvent
  BY <1>21 DEF TurnEvent
<1>22. CASE WriteResult
  BY <1>22 DEF WriteResult
<1>23. CASE ResultEvent
  BY <1>23 DEF ResultEvent
<1>24. CASE Tick
  BY <1>24 DEF Tick
<1>25. CASE Abort
  BY <1>25 DEF Abort
<1> QED
  BY <1>1, <1>2, <1>3, <1>4, <1>5, <1>6, <1>7, <1>8, <1>9, <1>10, <1>11,
     <1>12, <1>13, <1>14, <1>15, <1>16, <1>17, <1>18, <1>19, <1>20, <1>21,
     <1>22, <1>23, <1>24, <1>25 DEF Next, Step, Turn

(* An action that only moves inside a turn.                                 *)
LEMMA InsideTurn ==
    ASSUME StartInv, CallInv, pc \in Answered, pc' \in Answered,
           UNCHANGED <<start, turns, turnEvents, result, calls>>,
           meter'.turns = meter.turns
    PROVE  StartInv' /\ CallInv'
BY DEF StartInv, CallInv, Answered, Settled

(* What is a number, and what counting a call or an action does to it.      *)
LEMMA Numbers ==
    ASSUME Types
    PROVE  /\ calls \in Nat /\ turnEvents \in Nat /\ Len(turns) \in Nat
           /\ meter.turns \in Nat /\ meter.bytes \in Nat /\ turn.size \in Nat
           /\ CountCall => /\ meter'.turns = meter.turns + 1
                           /\ meter'.bytes = meter.bytes + turn.size
           /\ \A d \in {"tools", "candidates", "experiments"} :
                  Count(d) => meter'.turns = meter.turns /\ meter'.bytes = meter.bytes
<1>1. Len(turns) \in Nat
  BY DEF Types
<1>2. calls \in Nat /\ turnEvents \in Nat /\ turn.size \in Nat
  BY DEF Types, TypeOK, TurnType
<1>3. meter.turns \in Nat /\ meter.bytes \in Nat
  BY Limits DEF Types, TypeOK
<1>4. ASSUME CountCall
      PROVE  meter'.turns = meter.turns + 1 /\ meter'.bytes = meter.bytes + turn.size
  BY <1>4 DEF Types, TypeOK, CountCall
<1>5. ASSUME NEW d \in {"tools", "candidates", "experiments"}, Count(d)
      PROVE  meter'.turns = meter.turns /\ meter'.bytes = meter.bytes
  BY <1>5 DEF Types, TypeOK, Count
<1> QED
  BY <1>1, <1>2, <1>3, <1>4, <1>5

(* Every step keeps StartInv and CallInv.                                   *)
LEMMA CallStep ==
    ASSUME Types, StartInv, CallInv, Next
    PROVE  StartInv' /\ CallInv'
<1> USE DEF Goto
<1>1. CASE Enter
  <2>1. /\ pc = "idle" /\ pc' = "start" /\ start = "absent"
        /\ meter'.turns = 0 /\ meter'.candidates = 0 /\ meter'.experiments = 0
        /\ UNCHANGED <<start, turns, turnEvents, result, calls, candidates>>
    BY <1>1 DEF Enter, store, Absent, NoMeter
  <2>2. StartInv'
    BY <2>1 DEF StartInv
  <2>3. CallInv'
    BY <2>1, Numbers DEF StartInv, CallInv, Settled, Answered
  <2> QED
    BY <2>2, <2>3
<1>2. CASE WriteStart
  <2>1. /\ pc = "start" /\ pc' = "start_event" /\ start' = "file"
        /\ UNCHANGED <<turns, turnEvents, result, calls, meter>>
    BY <1>2 DEF WriteStart, store
  <2>2. StartInv'
    BY <2>1 DEF StartInv
  <2>3. CallInv'
    BY <2>1, Numbers DEF StartInv, CallInv, Settled, Answered
  <2> QED
    BY <2>2, <2>3
<1>3. CASE StartEvent
  <2>1. /\ pc = "start_event" /\ pc' = "request" /\ start' = "event"
        /\ UNCHANGED <<turns, turnEvents, result, calls, meter>>
    BY <1>3 DEF StartEvent, store
  <2>2. StartInv'
    BY <2>1 DEF StartInv
  <2>3. CallInv'
    BY <2>1, Numbers DEF StartInv, CallInv, Settled, Answered
  <2> QED
    BY <2>2, <2>3
<1>4. ASSUME NEW n \in RequestSize, Request(n) PROVE StartInv' /\ CallInv'
  <2>1. turn'.size = n
    BY <1>4 DEF Request, NoTurn
  <2>2. ~Exhausted(n) => meter.turns < MaxTurns /\ meter.bytes + n <= MaxTotalRequest
    BY Limits, Numbers DEF Exhausted
  <2>3. /\ pc = "request" /\ UNCHANGED <<start, turns, turnEvents, result, calls, meter>>
        /\ pc' = "finish" \/ (pc' = "call" /\ ~Exhausted(n))
    BY <1>4 DEF Request, store
  <2>4. StartInv'
    BY <2>3 DEF StartInv
  <2>5. CallInv'
    BY <2>1, <2>2, <2>3, Numbers DEF StartInv, CallInv, Settled, Answered
  <2> QED
    BY <2>4, <2>5
<1>5. CASE Invoke
  <2>1. /\ pc = "call" /\ UNCHANGED <<start, turns, turnEvents, result, meter, turn>>
        /\ \/ pc' = "finish" /\ calls' = calls
           \/ pc' = "answer" /\ calls' = calls + 1
    BY <1>5 DEF Invoke, store
  <2>2. /\ calls = turnEvents /\ meter.turns = calls /\ meter.turns < MaxTurns
        /\ Len(turns) = turnEvents
    BY <2>1, Numbers DEF CallInv, Settled
  <2>3. calls' <= MaxTurns
    BY <2>1, <2>2, Limits, Numbers
  <2>4. StartInv'
    BY <2>1 DEF StartInv
  <2>5. CASE pc' = "finish"
    BY <2>1, <2>4, <2>5, Numbers DEF CallInv, Settled, Answered
  <2>6. CASE pc' = "answer"
    <3>1. calls' = turnEvents' + 1 /\ Len(turns') = turnEvents' /\ meter'.turns = turnEvents'
      BY <2>1, <2>2, <2>6
    <3>2. result' = Absent
      BY <2>1 DEF CallInv
    <3>3. meter'.turns < MaxTurns /\ meter'.bytes + turn'.size <= MaxTotalRequest
      BY <2>1 DEF CallInv
    <3> QED
      BY <2>3, <2>4, <2>6, <3>1, <3>2, <3>3, Numbers DEF CallInv, Settled, Answered
  <2> QED
    BY <2>1, <2>4, <2>5, <2>6
<1>6. CASE ProviderFails
  <2>1. /\ pc = "answer" /\ pc' = "record" /\ CountCall
        /\ UNCHANGED <<start, turns, turnEvents, result, calls>>
    BY <1>6 DEF ProviderFails, store, Close, Reject, Exhaust
  <2>2. StartInv'
    BY <2>1 DEF StartInv
  <2>3. CallInv'
    BY <2>1, Numbers DEF StartInv, CallInv, Settled, Answered
  <2> QED
    BY <2>2, <2>3
<1>7. CASE AnswersLate
  <2>1. /\ pc = "answer" /\ pc' = "record" /\ CountCall
        /\ UNCHANGED <<start, turns, turnEvents, result, calls>>
    BY <1>7 DEF AnswersLate, store, Close, Reject, Exhaust
  <2>2. StartInv'
    BY <2>1 DEF StartInv
  <2>3. CallInv'
    BY <2>1, Numbers DEF StartInv, CallInv, Settled, Answered
  <2> QED
    BY <2>2, <2>3
<1>8. CASE AnswersUnreadably
  <2>1. /\ pc = "answer" /\ pc' = "record" /\ CountCall
        /\ UNCHANGED <<start, turns, turnEvents, result, calls>>
    BY <1>8 DEF AnswersUnreadably, store, Close, Reject, Exhaust
  <2>2. StartInv'
    BY <2>1 DEF StartInv
  <2>3. CallInv'
    BY <2>1, Numbers DEF StartInv, CallInv, Settled, Answered
  <2> QED
    BY <2>2, <2>3
<1>9. ASSUME NEW action \in {"TOOL", "PROPOSE", "STOP"}, NEW plan \in Plan \cup {NoPlan},
            Answers(action, plan)
      PROVE  StartInv' /\ CallInv'
  <2>1. /\ pc = "answer" /\ pc' = "dispatch" /\ CountCall
        /\ UNCHANGED <<start, turns, turnEvents, result, calls>>
    BY <1>9 DEF Answers, store
  <2>2. StartInv'
    BY <2>1 DEF StartInv
  <2>3. CallInv'
    BY <2>1, Numbers DEF StartInv, CallInv, Settled, Answered
  <2> QED
    BY <2>2, <2>3
<1>10. CASE DispatchStop
  <2>1. /\ pc \in Answered /\ pc' \in Answered
        /\ UNCHANGED <<start, turns, turnEvents, result, calls>>
    BY <1>10 DEF DispatchStop, store, Answered, Close, Accept, Reject, Exhaust, Proceed
  <2>2. meter'.turns = meter.turns
    BY <1>10, Numbers DEF DispatchStop, store
  <2> QED
    BY <2>1, <2>2, InsideTurn
<1>11. CASE DispatchTool
  <2>1. /\ pc \in Answered /\ pc' \in Answered
        /\ UNCHANGED <<start, turns, turnEvents, result, calls>>
    BY <1>11 DEF DispatchTool, store, Answered, Close, Accept, Reject, Exhaust, Proceed
  <2>2. meter'.turns = meter.turns
    BY <1>11, Numbers DEF DispatchTool, store
  <2> QED
    BY <2>1, <2>2, InsideTurn
<1>12. CASE UseTool
  <2>1. /\ pc \in Answered /\ pc' \in Answered
        /\ UNCHANGED <<start, turns, turnEvents, result, calls>>
    BY <1>12 DEF UseTool, store, Answered, Close, Accept, Reject, Exhaust, Proceed
  <2>2. meter'.turns = meter.turns
    BY <1>12, Numbers DEF UseTool, store
  <2> QED
    BY <2>1, <2>2, InsideTurn
<1>13. CASE DispatchProposal
  <2>1. /\ pc \in Answered /\ pc' \in Answered
        /\ UNCHANGED <<start, turns, turnEvents, result, calls>>
    BY <1>13 DEF DispatchProposal, store, Answered, Close, Accept, Reject, Exhaust, Proceed
  <2>2. meter'.turns = meter.turns
    BY <1>13, Numbers DEF DispatchProposal, store
  <2> QED
    BY <2>1, <2>2, InsideTurn
<1>14. CASE AddExpectation
  <2>1. /\ pc \in Answered /\ pc' \in Answered
        /\ UNCHANGED <<start, turns, turnEvents, result, calls>>
    BY <1>14 DEF AddExpectation, store, Answered, Close, Accept, Reject, Exhaust, Proceed
  <2>2. meter'.turns = meter.turns
    BY <1>14, Numbers DEF AddExpectation, store
  <2> QED
    BY <2>1, <2>2, InsideTurn
<1>15. CASE ProposeCandidate
  <2>1. /\ pc \in Answered /\ pc' \in Answered
        /\ UNCHANGED <<start, turns, turnEvents, result, calls>>
    BY <1>15 DEF ProposeCandidate, store, Answered, Close, Accept, Reject, Exhaust, Proceed
  <2>2. meter'.turns = meter.turns
    BY <1>15, Numbers DEF ProposeCandidate, store
  <2> QED
    BY <2>1, <2>2, InsideTurn
<1>16. CASE WriteProvenance
  <2>1. /\ pc \in Answered /\ pc' \in Answered
        /\ UNCHANGED <<start, turns, turnEvents, result, calls>>
    BY <1>16 DEF WriteProvenance, store, Answered, Close, Accept, Reject, Exhaust, Proceed
  <2>2. meter'.turns = meter.turns
    BY <1>16, Numbers DEF WriteProvenance, store
  <2> QED
    BY <2>1, <2>2, InsideTurn
<1>17. CASE PlanExperiment
  <2>1. /\ pc \in Answered /\ pc' \in Answered
        /\ UNCHANGED <<start, turns, turnEvents, result, calls>>
    BY <1>17 DEF PlanExperiment, store, Answered, Close, Accept, Reject, Exhaust, Proceed
  <2>2. meter'.turns = meter.turns
    BY <1>17, Numbers DEF PlanExperiment, store
  <2> QED
    BY <2>1, <2>2, InsideTurn
<1>18. CASE ExecuteExperiment
  <2>1. /\ pc \in Answered /\ pc' \in Answered
        /\ UNCHANGED <<start, turns, turnEvents, result, calls>>
    BY <1>18 DEF ExecuteExperiment, store, Answered, Close, Accept, Reject, Exhaust, Proceed
  <2>2. meter'.turns = meter.turns
    BY <1>18, Numbers DEF ExecuteExperiment, store
  <2> QED
    BY <2>1, <2>2, InsideTurn
<1>19. CASE Judge
  <2>1. /\ pc \in Answered /\ pc' \in Answered
        /\ UNCHANGED <<start, turns, turnEvents, result, calls>>
    BY <1>19 DEF Judge, store, Answered, Close, Accept, Reject, Exhaust, Proceed
  <2>2. meter'.turns = meter.turns
    BY <1>19, Numbers DEF Judge, store
  <2> QED
    BY <2>1, <2>2, InsideTurn
<1>20. CASE RecordTurn
  <2>1. /\ pc = "record" /\ pc' = "turn_event"
        /\ UNCHANGED <<start, turnEvents, result, calls, meter>>
    BY <1>20 DEF RecordTurn
  <2>2. Len(turns') = Len(turns) + 1
    BY <1>20 DEF RecordTurn, Types
  <2>3. StartInv'
    BY <2>1 DEF StartInv
  <2>4. CallInv'
    BY <2>1, <2>2, Numbers DEF StartInv, CallInv, Settled, Answered
  <2> QED
    BY <2>3, <2>4
<1>21. CASE TurnEvent
  <2>1. /\ pc = "turn_event"
        /\ \/ pc' = "idle" /\ turnEvents' = turnEvents
           \/ pc' \in {"finish", "request"} /\ turnEvents' = turnEvents + 1
        /\ UNCHANGED <<start, turns, result, calls, meter>>
    BY <1>21 DEF TurnEvent, store
  <2>2. StartInv'
    BY <2>1 DEF StartInv
  <2>3. CallInv'
    BY <2>1, Numbers DEF StartInv, CallInv, Settled, Answered
  <2> QED
    BY <2>2, <2>3
<1>22. CASE WriteResult
  <2>1. /\ pc = "finish" /\ pc' = "result_event"
        /\ UNCHANGED <<start, turns, turnEvents, calls, meter>>
    BY <1>22 DEF WriteResult
  <2>2. result'.turns = meter.turns /\ result'.status = status
    BY <1>22 DEF WriteResult
  <2>3. result' # Absent
    BY <2>2 DEF Absent, Types, TypeOK
  <2>4. StartInv'
    BY <2>1 DEF StartInv
  <2>5. /\ calls = turnEvents /\ meter.turns = calls /\ Len(turns) = calls
        /\ calls <= MaxTurns
    BY <2>1, Numbers DEF CallInv, Settled
  <2>6. CallInv'
    BY <2>1, <2>2, <2>3, <2>5, Numbers DEF CallInv, Settled, Answered
  <2> QED
    BY <2>4, <2>6
<1>23. CASE ResultEvent
  <2>1. /\ pc = "result_event" /\ pc' = "idle"
        /\ UNCHANGED <<start, turns, turnEvents, calls, meter>>
    BY <1>23 DEF ResultEvent
  <2>2. result'.turns = result.turns
    BY <1>23 DEF ResultEvent, Types
  <2>3. calls = turnEvents /\ result.turns = Len(turns)
    BY <2>1 DEF CallInv
  <2>4. StartInv'
    BY <2>1 DEF StartInv
  <2>5. CallInv'
    BY <2>1, <2>2, <2>3, Numbers DEF CallInv, Settled, Answered
  <2> QED
    BY <2>4, <2>5
<1>24. CASE Tick
  <2>1. /\ pc # "idle" /\ pc' = pc /\ turn' = turn
        /\ meter'.turns = meter.turns /\ meter'.bytes = meter.bytes
        /\ meter'.candidates = meter.candidates /\ meter'.experiments = meter.experiments
        /\ UNCHANGED <<start, turns, turnEvents, result, calls, candidates>>
    BY <1>24 DEF Tick, store, Types, TypeOK
  <2>2. StartInv'
    BY <2>1 DEF StartInv
  <2>3. CallInv'
    BY <2>1, Numbers DEF StartInv, CallInv, Settled, Answered
  <2> QED
    BY <2>2, <2>3
<1>25. CASE Abort
  <2>1. /\ pc # "idle" /\ pc' = "idle" /\ UNCHANGED <<start, turns, turnEvents, result, calls, candidates>>
    BY <1>25 DEF Abort, store
  <2>2. StartInv'
    BY <2>1 DEF StartInv
  <2>3. CallInv'
    BY <2>1, Numbers DEF StartInv, CallInv, Settled, Answered
  <2> QED
    BY <2>2, <2>3
<1> QED
  BY <1>1, <1>2, <1>3, <1>4, <1>5, <1>6, <1>7, <1>8, <1>9, <1>10, <1>11,
     <1>12, <1>13, <1>14, <1>15, <1>16, <1>17, <1>18, <1>19, <1>20, <1>21,
     <1>22, <1>23, <1>24, <1>25 DEF Next, Step, Turn

-----------------------------------------------------------------------------
(* What a step does to the meter.                                           *)
LEMMA MeterMoves ==
    ASSUME Types, CallInv, RoomInv, Next
    PROVE  \/ meter' = meter
           \/ meter' = NoMeter
           \/ pc = "answer" /\ CountCall
           \/ \E d \in {"tools", "candidates", "experiments"} : ~Full(d) /\ Count(d)
           \/ ~NoTime /\ meter' = [meter EXCEPT !.elapsed = @ + 1]
<1> DEFINE Goal ==
           \/ meter' = meter
           \/ meter' = NoMeter
           \/ pc = "answer" /\ CountCall
           \/ \E d \in {"tools", "candidates", "experiments"} : ~Full(d) /\ Count(d)
           \/ ~NoTime /\ meter' = [meter EXCEPT !.elapsed = @ + 1]
<1> USE DEF Goto, Close, Accept, Reject, Exhaust, Proceed
<1>1. CASE Enter
  BY <1>1 DEF Enter
<1>2. CASE WriteStart
  BY <1>2 DEF WriteStart
<1>3. CASE StartEvent
  BY <1>3 DEF StartEvent
<1>4. ASSUME NEW n \in RequestSize, Request(n) PROVE Goal
  BY <1>4 DEF Request
<1>5. CASE Invoke
  BY <1>5 DEF Invoke
<1>6. CASE ProviderFails
  BY <1>6 DEF ProviderFails
<1>7. CASE AnswersLate
  BY <1>7 DEF AnswersLate
<1>8. CASE AnswersUnreadably
  BY <1>8 DEF AnswersUnreadably
<1>9. ASSUME NEW action \in {"TOOL", "PROPOSE", "STOP"}, NEW plan \in Plan \cup {NoPlan},
            Answers(action, plan)
      PROVE  Goal
  BY <1>9 DEF Answers
<1>10. CASE DispatchStop
  BY <1>10 DEF DispatchStop
<1>11. CASE DispatchTool
  BY <1>11 DEF DispatchTool
<1>12. CASE UseTool
  <2>1. pc = "tool"
    BY <1>12 DEF UseTool
  <2>2. ~Full("tools")
    BY <2>1, Rooms, Limits DEF RoomInv, Types, TypeOK
  <2> QED
    BY <1>12, <2>2 DEF UseTool
<1>13. CASE DispatchProposal
  BY <1>13 DEF DispatchProposal
<1>14. CASE AddExpectation
  BY <1>14 DEF AddExpectation
<1>15. CASE ProposeCandidate
  BY <1>15 DEF ProposeCandidate
<1>16. CASE WriteProvenance
  BY <1>16 DEF WriteProvenance
<1>17. CASE PlanExperiment
  BY <1>17 DEF PlanExperiment
<1>18. CASE ExecuteExperiment
  BY <1>18 DEF ExecuteExperiment
<1>19. CASE Judge
  BY <1>19 DEF Judge
<1>20. CASE RecordTurn
  BY <1>20 DEF RecordTurn
<1>21. CASE TurnEvent
  BY <1>21 DEF TurnEvent
<1>22. CASE WriteResult
  BY <1>22 DEF WriteResult
<1>23. CASE ResultEvent
  BY <1>23 DEF ResultEvent
<1>24. CASE Tick
  BY <1>24 DEF Tick
<1>25. CASE Abort
  BY <1>25 DEF Abort
<1> QED
  BY <1>1, <1>2, <1>3, <1>4, <1>5, <1>6, <1>7, <1>8, <1>9, <1>10, <1>11,
     <1>12, <1>13, <1>14, <1>15, <1>16, <1>17, <1>18, <1>19, <1>20, <1>21,
     <1>22, <1>23, <1>24, <1>25 DEF Next, Step, Turn

(* Every step keeps the meter within its limits.                            *)
LEMMA MeterStep ==
    ASSUME Types, CallInv, RoomInv, Next
    PROVE  meter' \in [turns : 0..MaxTurns, tools : 0..MaxToolCalls,
                       candidates : 0..MaxCandidates, experiments : 0..MaxExperiments,
                       bytes : 0..MaxTotalRequest, elapsed : 0..MaxWall]
<1>1. CASE meter' = meter
  BY <1>1 DEF Types, TypeOK
<1>2. CASE meter' = NoMeter
  BY <1>2, Limits DEF NoMeter
<1>3. CASE pc = "answer" /\ CountCall
  <2>1. meter.turns + 1 \in 0..MaxTurns /\ meter.bytes + turn.size \in 0..MaxTotalRequest
    BY <1>3, Limits, Numbers DEF CallInv
  <2> QED
    BY <1>3, <2>1 DEF CountCall, Types, TypeOK
<1>0. meter \in [turns : 0..MaxTurns, tools : 0..MaxToolCalls,
                 candidates : 0..MaxCandidates, experiments : 0..MaxExperiments,
                 bytes : 0..MaxTotalRequest, elapsed : 0..MaxWall]
  BY DEF Types, TypeOK
<1>4. ASSUME NEW d \in {"tools", "candidates", "experiments"}, ~Full(d), Count(d)
      PROVE  meter' \in [turns : 0..MaxTurns, tools : 0..MaxToolCalls,
                         candidates : 0..MaxCandidates, experiments : 0..MaxExperiments,
                         bytes : 0..MaxTotalRequest, elapsed : 0..MaxWall]
  <2>1. CASE d = "tools"
    <3>1. meter.tools + 1 \in 0..MaxToolCalls
      BY <1>0, <1>4, <2>1, Rooms, Limits
    <3>2. meter' = [meter EXCEPT !["tools"] = meter.tools + 1]
      BY <1>4, <2>1 DEF Count
    <3> QED
      BY <1>0, <3>1, <3>2
  <2>2. CASE d = "candidates"
    <3>1. meter.candidates + 1 \in 0..MaxCandidates
      BY <1>0, <1>4, <2>2, Rooms, Limits
    <3>2. meter' = [meter EXCEPT !["candidates"] = meter.candidates + 1]
      BY <1>4, <2>2 DEF Count
    <3> QED
      BY <1>0, <3>1, <3>2
  <2>3. CASE d = "experiments"
    <3>1. meter.experiments + 1 \in 0..MaxExperiments
      BY <1>0, <1>4, <2>3, Rooms, Limits
    <3>2. meter' = [meter EXCEPT !["experiments"] = meter.experiments + 1]
      BY <1>4, <2>3 DEF Count
    <3> QED
      BY <1>0, <3>1, <3>2
  <2> QED
    BY <2>1, <2>2, <2>3
<1>5. CASE ~NoTime /\ meter' = [meter EXCEPT !.elapsed = @ + 1]
  <2>1. ~NoTime
    BY <1>5
  <2>2. meter.elapsed + 1 \in 0..MaxWall
    BY <2>1, Limits DEF NoTime, Types, TypeOK
  <2> QED
    BY <1>5, <2>2 DEF Types, TypeOK
<1> QED
  BY <1>1, <1>2, <1>3, <1>4, <1>5, MeterMoves

(* What a step does to the candidates.                                      *)
LEMMA CandidateMoves ==
    ASSUME Types, Next
    PROVE  \/ candidates' = candidates
           \/ candidates' = Append(candidates, Proposed)
           \/ SetNewest("explained", TRUE)
           \/ \E s \in {"TESTABLE", "SUPPORTED", "FALSIFIED", "INCONCLUSIVE"} :
                  SetNewest("state", s)
<1> DEFINE Goal ==
           \/ candidates' = candidates
           \/ candidates' = Append(candidates, Proposed)
           \/ SetNewest("explained", TRUE)
           \/ \E s \in {"TESTABLE", "SUPPORTED", "FALSIFIED", "INCONCLUSIVE"} :
                  SetNewest("state", s)
<1>1. CASE Enter
  BY <1>1 DEF Enter, store
<1>2. CASE WriteStart
  BY <1>2 DEF WriteStart, store
<1>3. CASE StartEvent
  BY <1>3 DEF StartEvent, store
<1>4. ASSUME NEW n \in RequestSize, Request(n) PROVE Goal
  BY <1>4 DEF Request, store
<1>5. CASE Invoke
  BY <1>5 DEF Invoke, store
<1>6. CASE ProviderFails
  BY <1>6 DEF ProviderFails, store
<1>7. CASE AnswersLate
  BY <1>7 DEF AnswersLate, store
<1>8. CASE AnswersUnreadably
  BY <1>8 DEF AnswersUnreadably, store
<1>9. ASSUME NEW action \in {"TOOL", "PROPOSE", "STOP"}, NEW plan \in Plan \cup {NoPlan},
            Answers(action, plan)
      PROVE  Goal
  BY <1>9 DEF Answers, store
<1>10. CASE DispatchStop
  BY <1>10 DEF DispatchStop, store
<1>11. CASE DispatchTool
  BY <1>11 DEF DispatchTool, store
<1>12. CASE UseTool
  BY <1>12 DEF UseTool, store
<1>13. CASE DispatchProposal
  BY <1>13 DEF DispatchProposal, store
<1>14. CASE AddExpectation
  BY <1>14 DEF AddExpectation, store
<1>15. CASE ProposeCandidate
  BY <1>15 DEF ProposeCandidate, store
<1>16. CASE WriteProvenance
  BY <1>16 DEF WriteProvenance, store
<1>17. CASE PlanExperiment
  BY <1>17 DEF PlanExperiment, store
<1>18. CASE ExecuteExperiment
  BY <1>18 DEF ExecuteExperiment, store
<1>19. CASE Judge
  BY <1>19 DEF Judge, store
<1>20. CASE RecordTurn
  BY <1>20 DEF RecordTurn, store
<1>21. CASE TurnEvent
  BY <1>21 DEF TurnEvent, store
<1>22. CASE WriteResult
  BY <1>22 DEF WriteResult, store
<1>23. CASE ResultEvent
  BY <1>23 DEF ResultEvent, store
<1>24. CASE Tick
  BY <1>24 DEF Tick, store
<1>25. CASE Abort
  BY <1>25 DEF Abort, store
<1> QED
  BY <1>1, <1>2, <1>3, <1>4, <1>5, <1>6, <1>7, <1>8, <1>9, <1>10, <1>11,
     <1>12, <1>13, <1>14, <1>15, <1>16, <1>17, <1>18, <1>19, <1>20, <1>21,
     <1>22, <1>23, <1>24, <1>25 DEF Next, Step, Turn

(* The empty sequence as a function.                                        *)
LEMMA EmptyFunction == ASSUME NEW S, NEW s \in Seq(S), Len(s) = 0 PROVE s \in [{} -> S]
<1>1. s \in [1..0 -> S]
  BY LenProperties
<1>2. 1..0 = {}
  OBVIOUS
<1> QED
  BY <1>1, <1>2

(* A function without a domain cannot be changed.                           *)
LEMMA NothingToChange ==
    ASSUME NEW S, NEW s \in [{} -> S], NEW e PROVE [s EXCEPT ![0] = e] = s
OBVIOUS

(* Nor can the empty sequence.                                              *)
LEMMA EmptyExcept ==
    ASSUME NEW S, NEW s \in Seq(S), Len(s) = 0, NEW e PROVE [s EXCEPT ![0] = e] = s
BY EmptyFunction, NothingToChange

(* Setting a field of the last candidate.                                   *)
LEMMA SetLast ==
    ASSUME Types, NEW field \in {"state", "explained"}, NEW value,
           field = "state" => value \in {"HYPOTHESIZED", "TESTABLE", "SUPPORTED", "FALSIFIED",
                                         "INCONCLUSIVE"},
           field = "explained" => value \in BOOLEAN,
           SetNewest(field, value)
    PROVE  /\ candidates' \in Seq(Candidate)
           /\ Len(candidates') = Len(candidates)
           /\ \A i \in 1..Len(candidates) :
                 /\ i # Len(candidates) => candidates'[i] = candidates[i]
                 /\ i = Len(candidates) =>
                       candidates'[i] = [candidates[i] EXCEPT ![field] = value]
<1> DEFINE n == Len(candidates)
           new == [candidates[n] EXCEPT ![field] = value]
<1>1. candidates \in Seq(Candidate) /\ n \in Nat /\ DOMAIN candidates = 1..n
  BY DEF Types
<1>2. candidates' = [candidates EXCEPT ![n] = new]
  BY DEF SetNewest, Newest
<1>3. n > 0 => candidates[n] \in Candidate
  BY <1>1
<1>4. n > 0 => new \in Candidate
  <2>1. CASE field = "state"
    BY <1>3, <2>1 DEF Candidate
  <2>2. CASE field = "explained"
    BY <1>3, <2>2 DEF Candidate
  <2> QED
    BY <2>1, <2>2
<1> HIDE DEF new
<1>5. CASE n > 0
  <2>1. /\ candidates' \in Seq(Candidate) /\ Len(candidates') = n
        /\ \A i \in 1..n : candidates'[i] = IF i = n THEN new ELSE candidates[i]
    BY <1>1, <1>2, <1>4, <1>5, ExceptSeq
  <2> QED
    BY <1>1, <2>1 DEF new
<1>6. CASE n = 0
  <2>1. [candidates EXCEPT ![n] = new] = candidates
    BY <1>1, <1>6, EmptyExcept
  <2>2. candidates' = candidates
    BY <1>2, <2>1
  <2>3. \A i \in 1..n : FALSE
    BY <1>6
  <2> QED
    BY <1>1, <2>2, <2>3
<1>7. n > 0 \/ n = 0
  BY <1>1
<1> QED
  BY <1>5, <1>6, <1>7

(* What a new candidate is.                                                 *)
LEMMA ProposedCandidate ==
    ASSUME Types
    PROVE  Proposed \in Candidate /\ Proposed.state = "HYPOTHESIZED"
BY Numbers DEF Proposed, Candidate

(* Every step keeps the type of the candidates.                             *)
LEMMA CandidatesStep ==
    ASSUME Types, Next
    PROVE  candidates' \in Seq(Candidate)
<1>1. CASE candidates' = candidates
  BY <1>1 DEF Types
<1>2. CASE candidates' = Append(candidates, Proposed)
  BY <1>2, ProposedCandidate DEF Types
<1>3. CASE SetNewest("explained", TRUE)
  BY <1>3, SetLast
<1>4. ASSUME NEW s \in {"TESTABLE", "SUPPORTED", "FALSIFIED", "INCONCLUSIVE"},
             SetNewest("state", s)
      PROVE  candidates' \in Seq(Candidate)
  BY <1>4, SetLast
<1> QED
  BY <1>1, <1>2, <1>3, <1>4, CandidateMoves

(* Every step keeps the type of the turn.                                   *)
LEMMA TurnStep ==
    ASSUME Types, Next
    PROVE  turn' \in TurnType
<1> USE DEF Types, TurnType, Action, Answer, Close, Accept, Reject, Exhaust, Proceed
<1>1. CASE Enter
  BY <1>1 DEF Enter, NoTurn
<1>2. CASE WriteStart
  BY <1>2 DEF WriteStart
<1>3. CASE StartEvent
  BY <1>3 DEF StartEvent
<1>4. ASSUME NEW n \in RequestSize, Request(n)
      PROVE  turn' \in TurnType
  BY <1>4, Limits DEF Request, NoTurn
<1>5. CASE Invoke
  BY <1>5 DEF Invoke
<1>6. CASE ProviderFails
  BY <1>6 DEF ProviderFails
<1>7. CASE AnswersLate
  BY <1>7 DEF AnswersLate
<1>8. CASE AnswersUnreadably
  BY <1>8 DEF AnswersUnreadably
<1>9. ASSUME NEW action \in {"TOOL", "PROPOSE", "STOP"}, NEW plan \in Plan \cup {NoPlan},
            Answers(action, plan)
      PROVE  turn' \in TurnType
  BY <1>9 DEF Answers
<1>10. CASE DispatchStop
  BY <1>10 DEF DispatchStop
<1>11. CASE DispatchTool
  BY <1>11 DEF DispatchTool
<1>12. CASE UseTool
  BY <1>12 DEF UseTool
<1>13. CASE DispatchProposal
  BY <1>13 DEF DispatchProposal
<1>14. CASE AddExpectation
  BY <1>14 DEF AddExpectation
<1>15. CASE ProposeCandidate
  BY <1>15 DEF ProposeCandidate
<1>16. CASE WriteProvenance
  BY <1>16 DEF WriteProvenance
<1>17. CASE PlanExperiment
  BY <1>17 DEF PlanExperiment
<1>18. CASE ExecuteExperiment
  BY <1>18 DEF ExecuteExperiment
<1>19. CASE Judge
  BY <1>19 DEF Judge
<1>20. CASE RecordTurn
  BY <1>20 DEF RecordTurn
<1>21. CASE TurnEvent
  BY <1>21 DEF TurnEvent
<1>22. CASE WriteResult
  BY <1>22 DEF WriteResult
<1>23. CASE ResultEvent
  BY <1>23 DEF ResultEvent
<1>24. CASE Tick
  BY <1>24 DEF Tick
<1>25. CASE Abort
  BY <1>25 DEF Abort
<1> QED
  BY <1>1, <1>2, <1>3, <1>4, <1>5, <1>6, <1>7, <1>8, <1>9, <1>10, <1>11,
     <1>12, <1>13, <1>14, <1>15, <1>16, <1>17, <1>18, <1>19, <1>20, <1>21,
     <1>22, <1>23, <1>24, <1>25 DEF Next, Step, Turn

(* Every step keeps the types of the scalars.                               *)
LEMMA RestStep ==
    ASSUME Types, Next
    PROVE  /\ pc' \in {"idle", "start", "start_event", "request", "call", "answer", "dispatch",
                       "tool", "expect", "propose", "provenance", "plan", "execute", "judge",
                       "record", "turn_event", "finish", "result_event"}
           /\ setting' \in [mode : Mode, auto : BOOLEAN]
           /\ status' \in {"COMPLETED", "BUDGET_EXHAUSTED", "PROVIDER_FAILED"}
           /\ turnEvents' \in Nat /\ expectations' \in Seq(Nat) /\ calls' \in Nat
           /\ start' \in {"absent", "file", "event"} /\ aborted' \in BOOLEAN
<1> USE DEF Types, TypeOK, Goto, store, Close, Accept, Reject, Exhaust, Proceed
<1> DEFINE Goal ==
      /\ pc' \in {"idle", "start", "start_event", "request", "call", "answer", "dispatch",
                  "tool", "expect", "propose", "provenance", "plan", "execute", "judge",
                  "record", "turn_event", "finish", "result_event"}
      /\ setting' \in [mode : Mode, auto : BOOLEAN]
      /\ status' \in {"COMPLETED", "BUDGET_EXHAUSTED", "PROVIDER_FAILED"}
      /\ turnEvents' \in Nat /\ expectations' \in Seq(Nat) /\ calls' \in Nat
      /\ start' \in {"absent", "file", "event"} /\ aborted' \in BOOLEAN
<1>1. CASE Enter
  BY <1>1 DEF Enter
<1>2. CASE WriteStart
  BY <1>2 DEF WriteStart
<1>3. CASE StartEvent
  BY <1>3 DEF StartEvent
<1>4. ASSUME NEW n \in RequestSize, Request(n) PROVE Goal
  BY <1>4 DEF Request
<1>5. CASE Invoke
  BY <1>5 DEF Invoke
<1>6. CASE ProviderFails
  BY <1>6 DEF ProviderFails
<1>7. CASE AnswersLate
  BY <1>7 DEF AnswersLate
<1>8. CASE AnswersUnreadably
  BY <1>8 DEF AnswersUnreadably
<1>9. ASSUME NEW action \in {"TOOL", "PROPOSE", "STOP"}, NEW plan \in Plan \cup {NoPlan},
            Answers(action, plan)
      PROVE  Goal
  BY <1>9 DEF Answers
<1>10. CASE DispatchStop
  BY <1>10 DEF DispatchStop
<1>11. CASE DispatchTool
  BY <1>11 DEF DispatchTool
<1>12. CASE UseTool
  BY <1>12 DEF UseTool
<1>13. CASE DispatchProposal
  BY <1>13 DEF DispatchProposal
<1>14. CASE AddExpectation
  <2>1. expectations' \in Seq(Nat)
    <3>1. expectations' = expectations \/ expectations' = Append(expectations, meter.turns)
      BY <1>14 DEF AddExpectation
    <3>2. meter.turns \in Nat /\ expectations \in Seq(Nat)
      BY Numbers
    <3> HIDE DEF Types, TypeOK
    <3> QED
      BY <3>1, <3>2
  <2> QED
    BY <1>14, <2>1 DEF AddExpectation
<1>15. CASE ProposeCandidate
  BY <1>15 DEF ProposeCandidate
<1>16. CASE WriteProvenance
  BY <1>16 DEF WriteProvenance
<1>17. CASE PlanExperiment
  BY <1>17 DEF PlanExperiment
<1>18. CASE ExecuteExperiment
  BY <1>18 DEF ExecuteExperiment
<1>19. CASE Judge
  BY <1>19 DEF Judge
<1>20. CASE RecordTurn
  BY <1>20 DEF RecordTurn
<1>21. CASE TurnEvent
  <2>1. /\ pc' \in {"idle", "finish", "request"}
        /\ turnEvents' \in {turnEvents, turnEvents + 1}
        /\ UNCHANGED <<setting, status, start, expectations, calls>>
    BY <1>21 DEF TurnEvent
  <2>2. aborted' = aborted \/ aborted' = TRUE
    BY <1>21 DEF TurnEvent
  <2>3. aborted' \in BOOLEAN
    BY <2>2, Zenon
  <2> QED
    BY <2>1, <2>3
<1>22. CASE WriteResult
  BY <1>22 DEF WriteResult
<1>23. CASE ResultEvent
  BY <1>23 DEF ResultEvent
<1>24. CASE Tick
  BY <1>24 DEF Tick
<1>25. CASE Abort
  BY <1>25 DEF Abort
<1> QED
  BY <1>1, <1>2, <1>3, <1>4, <1>5, <1>6, <1>7, <1>8, <1>9, <1>10, <1>11,
     <1>12, <1>13, <1>14, <1>15, <1>16, <1>17, <1>18, <1>19, <1>20, <1>21,
     <1>22, <1>23, <1>24, <1>25 DEF Next, Step, Turn

(* Every step keeps the types of the records.                               *)
LEMMA RecordsStep ==
    ASSUME Types, Next
    PROVE  /\ turns' \in Seq([action : Action, answer : Answer])
           /\ result' \in [status : {"absent", "COMPLETED", "BUDGET_EXHAUSTED", "PROVIDER_FAILED"},
                           turns : Nat, event : BOOLEAN]
<1> DEFINE Goal ==
      /\ turns' \in Seq([action : Action, answer : Answer])
      /\ result' \in [status : {"absent", "COMPLETED", "BUDGET_EXHAUSTED", "PROVIDER_FAILED"},
                      turns : Nat, event : BOOLEAN]
<1> USE DEF Types
<1>1. CASE Enter
  BY <1>1 DEF Enter, store
<1>2. CASE WriteStart
  BY <1>2 DEF WriteStart, store
<1>3. CASE StartEvent
  BY <1>3 DEF StartEvent, store
<1>4. ASSUME NEW n \in RequestSize, Request(n) PROVE Goal
  BY <1>4 DEF Request, store
<1>5. CASE Invoke
  BY <1>5 DEF Invoke, store
<1>6. CASE ProviderFails
  BY <1>6 DEF ProviderFails, store
<1>7. CASE AnswersLate
  BY <1>7 DEF AnswersLate, store
<1>8. CASE AnswersUnreadably
  BY <1>8 DEF AnswersUnreadably, store
<1>9. ASSUME NEW action \in {"TOOL", "PROPOSE", "STOP"}, NEW plan \in Plan \cup {NoPlan},
            Answers(action, plan)
      PROVE  Goal
  BY <1>9 DEF Answers, store
<1>10. CASE DispatchStop
  BY <1>10 DEF DispatchStop, store
<1>11. CASE DispatchTool
  BY <1>11 DEF DispatchTool, store
<1>12. CASE UseTool
  BY <1>12 DEF UseTool, store
<1>13. CASE DispatchProposal
  BY <1>13 DEF DispatchProposal, store
<1>14. CASE AddExpectation
  BY <1>14 DEF AddExpectation, store
<1>15. CASE ProposeCandidate
  BY <1>15 DEF ProposeCandidate, store
<1>16. CASE WriteProvenance
  BY <1>16 DEF WriteProvenance, store
<1>17. CASE PlanExperiment
  BY <1>17 DEF PlanExperiment, store
<1>18. CASE ExecuteExperiment
  BY <1>18 DEF ExecuteExperiment, store
<1>19. CASE Judge
  BY <1>19 DEF Judge, store
<1>20. CASE RecordTurn
  <2>1. turn.action \in Action /\ turn.answer \in Answer
    BY DEF TurnType
  <2> QED
    BY <1>20, <2>1 DEF RecordTurn
<1>21. CASE TurnEvent
  BY <1>21 DEF TurnEvent, store
<1>22. CASE WriteResult
  BY <1>22, Numbers DEF WriteResult, TypeOK
<1>23. CASE ResultEvent
  BY <1>23 DEF ResultEvent
<1>24. CASE Tick
  BY <1>24 DEF Tick, store
<1>25. CASE Abort
  BY <1>25 DEF Abort, store
<1> QED
  BY <1>1, <1>2, <1>3, <1>4, <1>5, <1>6, <1>7, <1>8, <1>9, <1>10, <1>11,
     <1>12, <1>13, <1>14, <1>15, <1>16, <1>17, <1>18, <1>19, <1>20, <1>21,
     <1>22, <1>23, <1>24, <1>25 DEF Next, Step, Turn

(* Every step keeps Types.                                                  *)
LEMMA TypesStep ==
    ASSUME Types, CallInv, RoomInv, Next
    PROVE  Types'
BY MeterStep, CandidatesStep, TurnStep, RestStep, RecordsStep DEF Types, TypeOK

-----------------------------------------------------------------------------
(* The meter of the process that holds the lock counts what is on disk, and *)
(* the candidate a turn is about is the newest one.                         *)
CandidateInv ==
    /\ Len(candidates) <= MaxCandidates
    /\ Cardinality(Planned) <= MaxExperiments
    /\ pc # "idle" =>
          meter.candidates = Len(candidates) /\ meter.experiments = Cardinality(Planned)
    /\ pc \in {"provenance", "plan"} =>
          Newest > 0 /\ candidates[Newest].state = "HYPOTHESIZED"
    /\ pc \in {"execute", "judge"} =>
          Newest > 0 /\ candidates[Newest].state # "HYPOTHESIZED"

(* Only the newest candidate can be without its provenance: the turn that   *)
(* made it is still to write it, or was cut short.                          *)
ExplainInv ==
    /\ pc \notin {"idle", "provenance"} \/ result # Absent =>
          \A i \in 1..Newest : candidates[i].explained
    /\ pc = "provenance" =>
          \A i \in 1..Newest : i # Newest => candidates[i].explained

(* The planned candidates are finitely many.                                *)
LEMMA PlannedFinite ==
    ASSUME Types
    PROVE  /\ Newest \in Nat /\ DOMAIN candidates = 1..Newest
           /\ Planned \subseteq 1..Newest
           /\ IsFiniteSet(Planned) /\ Cardinality(Planned) \in Nat
<1>1. Newest \in Nat /\ DOMAIN candidates = 1..Newest
  BY DEF Types, Newest
<1>2. Planned \subseteq 1..Newest
  BY <1>1 DEF Planned
<1>3. IsFiniteSet(1..Newest)
  BY <1>1, FS_Interval
<1>4. IsFiniteSet(Planned)
  BY <1>2, <1>3, FS_Subset
<1> QED
  BY <1>1, <1>2, <1>4, FS_CardinalityType

(* A new candidate has no plan.                                             *)
LEMMA AfterPropose ==
    ASSUME Types,
           candidates' = Append(candidates, Proposed)
    PROVE  /\ Newest' = Newest + 1 /\ Planned' = Planned
           /\ candidates'[Newest'] = Proposed
           /\ \A i \in 1..Newest : candidates'[i] = candidates[i]
<1>1. /\ Newest \in Nat /\ Newest' = Newest + 1
      /\ DOMAIN candidates = 1..Newest /\ DOMAIN candidates' = 1..(Newest + 1)
      /\ candidates'[Newest + 1] = Proposed /\ Proposed.state = "HYPOTHESIZED"
      /\ \A i \in 1..Newest : candidates'[i] = candidates[i]
  <2>1. Proposed \in Candidate /\ Proposed.state = "HYPOTHESIZED"
    BY ProposedCandidate
  <2> HIDE DEF Proposed
  <2> QED
    BY <2>1 DEF Newest, Types
<1>2. \A i \in 1..(Newest + 1) : i \in 1..Newest \/ i = Newest + 1
  BY <1>1
<1>3. Planned' = Planned
  <2>1. ASSUME NEW i \in Planned' PROVE i \in Planned
    BY <1>1, <1>2, <2>1 DEF Planned
  <2>2. ASSUME NEW i \in Planned PROVE i \in Planned'
    BY <1>1, <2>2 DEF Planned
  <2> QED
    BY <2>1, <2>2
<1> QED
  BY <1>1, <1>3

(* SetLast, said of the newest candidate.                                   *)
LEMMA AfterSet ==
    ASSUME Types, Newest > 0, NEW field \in {"state", "explained"}, NEW value,
           field = "state" => value \in {"HYPOTHESIZED", "TESTABLE", "SUPPORTED", "FALSIFIED",
                                         "INCONCLUSIVE"},
           field = "explained" => value \in BOOLEAN,
           SetNewest(field, value)
    PROVE  /\ Newest \in 1..Newest /\ DOMAIN candidates = 1..Newest
           /\ Newest' = Newest /\ DOMAIN candidates' = 1..Newest
           /\ \A i \in 1..Newest : i # Newest => candidates'[i] = candidates[i]
           /\ candidates'[Newest] = [candidates[Newest] EXCEPT ![field] = value]
           /\ candidates[Newest] \in Candidate
<1>1. Newest \in 1..Newest /\ DOMAIN candidates = 1..Newest
  BY PlannedFinite
<1>2. /\ candidates' \in Seq(Candidate)
      /\ Len(candidates') = Len(candidates)
      /\ \A i \in 1..Len(candidates) :
            /\ i # Len(candidates) => candidates'[i] = candidates[i]
            /\ i = Len(candidates) =>
                  candidates'[i] = [candidates[i] EXCEPT ![field] = value]
  BY SetLast
<1>3. Newest' = Newest /\ DOMAIN candidates' = 1..Newest
  <2>1. DOMAIN candidates' = 1..Len(candidates')
    BY <1>2, LenProperties
  <2>2. Newest' = Newest
    BY <1>2 DEF Newest
  <2> QED
    BY <1>2, <2>1, <2>2 DEF Newest
<1>4. candidates[Newest] \in Candidate
  BY <1>1 DEF Types
<1>5. \A i \in 1..Newest : i # Newest => candidates'[i] = candidates[i]
  BY <1>2 DEF Newest
<1>6. candidates'[Newest] = [candidates[Newest] EXCEPT ![field] = value]
  BY <1>1, <1>2 DEF Newest
<1> QED
  BY <1>1, <1>3, <1>4, <1>5, <1>6

(* Writing a provenance plans nothing.                                      *)
LEMMA AfterExplain ==
    ASSUME Types, SetNewest("explained", TRUE), Newest > 0
    PROVE  /\ Newest' = Newest /\ Planned' = Planned
           /\ candidates'[Newest].explained
           /\ candidates'[Newest].state = candidates[Newest].state
           /\ \A i \in 1..Newest : i # Newest => candidates'[i] = candidates[i]
<1>1. /\ Newest \in 1..Newest /\ DOMAIN candidates = 1..Newest
      /\ Newest' = Newest /\ DOMAIN candidates' = 1..Newest
      /\ \A i \in 1..Newest : i # Newest => candidates'[i] = candidates[i]
      /\ candidates'[Newest] = [candidates[Newest] EXCEPT !["explained"] = TRUE]
      /\ candidates[Newest] \in Candidate
  BY AfterSet
<1>2. candidates'[Newest].explained /\ candidates'[Newest].state = candidates[Newest].state
  BY <1>1 DEF Candidate
<1>3. \A i \in 1..Newest : candidates'[i].state = candidates[i].state
  BY <1>1, <1>2
<1>4. Planned' = Planned
  BY <1>1, <1>3 DEF Planned
<1> QED
  BY <1>1, <1>2, <1>4

(* Moving the newest candidate plans it, if it was not.                     *)
LEMMA AfterState ==
    ASSUME Types, NEW s \in {"TESTABLE", "SUPPORTED", "FALSIFIED", "INCONCLUSIVE"},
           SetNewest("state", s), Newest > 0
    PROVE  /\ Newest' = Newest /\ Planned' = Planned \cup {Newest}
           /\ candidates'[Newest].state # "HYPOTHESIZED"
           /\ \A i \in 1..Newest : candidates'[i].explained = candidates[i].explained
<1>1. /\ Newest \in 1..Newest /\ DOMAIN candidates = 1..Newest
      /\ Newest' = Newest /\ DOMAIN candidates' = 1..Newest
      /\ \A i \in 1..Newest : i # Newest => candidates'[i] = candidates[i]
      /\ candidates'[Newest] = [candidates[Newest] EXCEPT !["state"] = s]
      /\ candidates[Newest] \in Candidate
  BY AfterSet
<1>2. /\ candidates'[Newest].state # "HYPOTHESIZED"
      /\ candidates'[Newest].explained = candidates[Newest].explained
  BY <1>1 DEF Candidate
<1>3. \A i \in 1..Newest : candidates'[i].explained = candidates[i].explained
  BY <1>1, <1>2
<1>4. Planned' = Planned \cup {Newest}
  <2>1. ASSUME NEW i \in Planned' PROVE i \in Planned \cup {Newest}
    BY <1>1, <2>1 DEF Planned
  <2>2. ASSUME NEW i \in Planned \cup {Newest} PROVE i \in Planned'
    BY <1>1, <1>2, <2>2 DEF Planned
  <2> QED
    BY <2>1, <2>2
<1> QED
  BY <1>1, <1>2, <1>3, <1>4

(* A step that leaves the candidates and their counts alone.                *)
LEMMA Quiet ==
    ASSUME CandidateInv, ExplainInv, pc \notin {"idle", "provenance"},
           pc' \notin {"provenance", "plan", "execute", "judge"},
           candidates' = candidates,
           meter'.candidates = meter.candidates, meter'.experiments = meter.experiments
    PROVE  CandidateInv' /\ ExplainInv'
<1>1. Newest' = Newest /\ Planned' = Planned
  BY DEF Newest, Planned
<1> QED
  BY <1>1 DEF CandidateInv, ExplainInv

(* Every step keeps CandidateInv and ExplainInv.                            *)
LEMMA CandidateStep ==
    ASSUME Types, StartInv, CallInv, RoomInv, CandidateInv, ExplainInv, Next
    PROVE  CandidateInv' /\ ExplainInv'
<1> DEFINE Goal == CandidateInv' /\ ExplainInv'
<1> USE DEF Goto
<1>1. CASE Enter
  <2>1. /\ pc' = "start" /\ candidates' = candidates /\ candidates = <<>> /\ result' = Absent
        /\ meter'.candidates = 0 /\ meter'.experiments = 0
    BY <1>1 DEF Enter, store, StartInv, NoMeter
  <2>2. Newest = 0 /\ Newest' = 0 /\ Planned' = Planned
    BY <2>1 DEF Newest, Planned
  <2>3. Planned = {}
    BY <2>2, PlannedFinite
  <2>4. Cardinality(Planned) = 0
    BY <2>3, FS_EmptySet
  <2>5. CandidateInv'
    BY <2>1, <2>2, <2>4, Limits DEF CandidateInv, Newest
  <2>6. ExplainInv'
    BY <2>1, <2>2 DEF ExplainInv
  <2> QED
    BY <2>5, <2>6
<1>2. CASE WriteStart
  <2>1. /\ pc \notin {"idle", "provenance"}
        /\ pc' \notin {"provenance", "plan", "execute", "judge"}
        /\ candidates' = candidates
    BY <1>2 DEF WriteStart, store, Close, Accept, Reject, Exhaust, Proceed
  <2>2. meter'.candidates = meter.candidates /\ meter'.experiments = meter.experiments
    BY <1>2 DEF WriteStart, Types, TypeOK
  <2> QED
    BY <2>1, <2>2, Quiet
<1>3. CASE StartEvent
  <2>1. /\ pc \notin {"idle", "provenance"}
        /\ pc' \notin {"provenance", "plan", "execute", "judge"}
        /\ candidates' = candidates
    BY <1>3 DEF StartEvent, store, Close, Accept, Reject, Exhaust, Proceed
  <2>2. meter'.candidates = meter.candidates /\ meter'.experiments = meter.experiments
    BY <1>3 DEF StartEvent, Types, TypeOK
  <2> QED
    BY <2>1, <2>2, Quiet
<1>4. ASSUME NEW n \in RequestSize, Request(n) PROVE Goal
  <2>1. /\ pc \notin {"idle", "provenance"}
        /\ pc' \notin {"provenance", "plan", "execute", "judge"}
        /\ candidates' = candidates
    BY <1>4 DEF Request, store, Close, Accept, Reject, Exhaust, Proceed
  <2>2. meter'.candidates = meter.candidates /\ meter'.experiments = meter.experiments
    BY <1>4 DEF Request, Types, TypeOK
  <2> QED
    BY <2>1, <2>2, Quiet
<1>5. CASE Invoke
  <2>1. /\ pc \notin {"idle", "provenance"}
        /\ pc' \notin {"provenance", "plan", "execute", "judge"}
        /\ candidates' = candidates
    BY <1>5 DEF Invoke, store, Close, Accept, Reject, Exhaust, Proceed
  <2>2. meter'.candidates = meter.candidates /\ meter'.experiments = meter.experiments
    BY <1>5 DEF Invoke, Types, TypeOK
  <2> QED
    BY <2>1, <2>2, Quiet
<1>6. CASE ProviderFails
  <2>1. /\ pc \notin {"idle", "provenance"}
        /\ pc' \notin {"provenance", "plan", "execute", "judge"}
        /\ candidates' = candidates
    BY <1>6 DEF ProviderFails, store, Close, Accept, Reject, Exhaust, Proceed
  <2>2. meter'.candidates = meter.candidates /\ meter'.experiments = meter.experiments
    BY <1>6 DEF ProviderFails, CountCall, Types, TypeOK
  <2> QED
    BY <2>1, <2>2, Quiet
<1>7. CASE AnswersLate
  <2>1. /\ pc \notin {"idle", "provenance"}
        /\ pc' \notin {"provenance", "plan", "execute", "judge"}
        /\ candidates' = candidates
    BY <1>7 DEF AnswersLate, store, Close, Accept, Reject, Exhaust, Proceed
  <2>2. meter'.candidates = meter.candidates /\ meter'.experiments = meter.experiments
    BY <1>7 DEF AnswersLate, CountCall, Types, TypeOK
  <2> QED
    BY <2>1, <2>2, Quiet
<1>8. CASE AnswersUnreadably
  <2>1. /\ pc \notin {"idle", "provenance"}
        /\ pc' \notin {"provenance", "plan", "execute", "judge"}
        /\ candidates' = candidates
    BY <1>8 DEF AnswersUnreadably, store, Close, Accept, Reject, Exhaust, Proceed
  <2>2. meter'.candidates = meter.candidates /\ meter'.experiments = meter.experiments
    BY <1>8 DEF AnswersUnreadably, CountCall, Types, TypeOK
  <2> QED
    BY <2>1, <2>2, Quiet
<1>9. ASSUME NEW action \in {"TOOL", "PROPOSE", "STOP"}, NEW plan \in Plan \cup {NoPlan},
            Answers(action, plan)
      PROVE  Goal
  <2>1. /\ pc \notin {"idle", "provenance"}
        /\ pc' \notin {"provenance", "plan", "execute", "judge"}
        /\ candidates' = candidates
    BY <1>9 DEF Answers, store, Close, Accept, Reject, Exhaust, Proceed
  <2>2. meter'.candidates = meter.candidates /\ meter'.experiments = meter.experiments
    BY <1>9 DEF Answers, CountCall, Types, TypeOK
  <2> QED
    BY <2>1, <2>2, Quiet
<1>10. CASE DispatchStop
  <2>1. /\ pc \notin {"idle", "provenance"}
        /\ pc' \notin {"provenance", "plan", "execute", "judge"}
        /\ candidates' = candidates
    BY <1>10 DEF DispatchStop, store, Close, Accept, Reject, Exhaust, Proceed
  <2>2. meter'.candidates = meter.candidates /\ meter'.experiments = meter.experiments
    BY <1>10 DEF DispatchStop, Types, TypeOK
  <2> QED
    BY <2>1, <2>2, Quiet
<1>11. CASE DispatchTool
  <2>1. /\ pc \notin {"idle", "provenance"}
        /\ pc' \notin {"provenance", "plan", "execute", "judge"}
        /\ candidates' = candidates
    BY <1>11 DEF DispatchTool, store, Close, Accept, Reject, Exhaust, Proceed
  <2>2. meter'.candidates = meter.candidates /\ meter'.experiments = meter.experiments
    BY <1>11 DEF DispatchTool, Types, TypeOK
  <2> QED
    BY <2>1, <2>2, Quiet
<1>12. CASE UseTool
  <2>1. /\ pc \notin {"idle", "provenance"}
        /\ pc' \notin {"provenance", "plan", "execute", "judge"}
        /\ candidates' = candidates
    BY <1>12 DEF UseTool, store, Close, Accept, Reject, Exhaust, Proceed
  <2>2. meter'.candidates = meter.candidates /\ meter'.experiments = meter.experiments
    BY <1>12 DEF UseTool, Count, Types, TypeOK
  <2> QED
    BY <2>1, <2>2, Quiet
<1>13. CASE DispatchProposal
  <2>1. /\ pc \notin {"idle", "provenance"}
        /\ pc' \notin {"provenance", "plan", "execute", "judge"}
        /\ candidates' = candidates
    BY <1>13 DEF DispatchProposal, store, Close, Accept, Reject, Exhaust, Proceed
  <2>2. meter'.candidates = meter.candidates /\ meter'.experiments = meter.experiments
    BY <1>13 DEF DispatchProposal, Types, TypeOK
  <2> QED
    BY <2>1, <2>2, Quiet
<1>14. CASE AddExpectation
  <2>1. /\ pc \notin {"idle", "provenance"}
        /\ pc' \notin {"provenance", "plan", "execute", "judge"}
        /\ candidates' = candidates
    BY <1>14 DEF AddExpectation, store, Close, Accept, Reject, Exhaust, Proceed
  <2>2. meter'.candidates = meter.candidates /\ meter'.experiments = meter.experiments
    BY <1>14 DEF AddExpectation, Types, TypeOK
  <2> QED
    BY <2>1, <2>2, Quiet
<1>15. CASE ProposeCandidate
  <2>1. CASE candidates' = candidates
    <3>1. pc = "propose" /\ pc' = "record" /\ meter' = meter
      BY <1>15, <2>1, AfterPropose, PlannedFinite DEF ProposeCandidate, Close, Reject
    <3> QED
      BY <2>1, <3>1, Quiet
  <2>2. CASE candidates' = Append(candidates, Proposed)
    <3>1. pc = "propose"
      BY <1>15 DEF ProposeCandidate, Close, Accept, Reject, Exhaust, Proceed
    <3>2. meter.candidates < MaxCandidates /\ ~Full("candidates")
      BY <3>1, Rooms, Limits DEF RoomInv, Types, TypeOK
    <3>3. pc' = "provenance" /\ Count("candidates") /\ result' = result
      BY <1>15, <2>2, <3>2, AfterPropose, PlannedFinite DEF ProposeCandidate, Proceed
    <3>4. /\ meter'.candidates = meter.candidates + 1
          /\ meter'.experiments = meter.experiments
      BY <3>3 DEF Count, Types, TypeOK
    <3>5. CandidateInv'
      BY <2>2, <3>1, <3>2, <3>3, <3>4, AfterPropose, ProposedCandidate, PlannedFinite, Limits
         DEF CandidateInv, Newest
    <3>6. result = Absent
      BY <3>1 DEF CallInv
    <3>7. ExplainInv'
      BY <2>2, <3>1, <3>3, <3>6, AfterPropose, PlannedFinite DEF ExplainInv
    <3> QED
      BY <3>5, <3>7
  <2> QED
    BY <1>15, <2>1, <2>2 DEF ProposeCandidate
<1>16. CASE WriteProvenance
  <2>1. /\ pc = "provenance" /\ pc' \in {"plan", "record"} /\ SetNewest("explained", TRUE)
        /\ UNCHANGED meter
    BY <1>16 DEF WriteProvenance, Close, Accept, Proceed
  <2>2. Newest > 0
    BY <2>1 DEF CandidateInv
  <2>3. CandidateInv'
    BY <2>1, <2>2, AfterExplain DEF CandidateInv, Newest
  <2>4. ExplainInv'
    BY <2>1, <2>2, AfterExplain DEF ExplainInv
  <2> QED
    BY <2>3, <2>4
<1>17. CASE PlanExperiment
  <2>1. pc = "plan"
    BY <1>17 DEF PlanExperiment, Close, Reject
  <2>2. meter.experiments < MaxExperiments /\ ~Full("experiments")
    BY <2>1, Rooms, Limits DEF RoomInv, Types, TypeOK
  <2>3. \/ pc' = "record" /\ meter' = meter /\ candidates' = candidates
        \/ SetNewest("state", "TESTABLE") /\ Count("experiments") /\ pc' \in {"execute", "record"}
    BY <1>17, <2>2 DEF PlanExperiment, Close, Accept, Reject, Exhaust, Proceed
  <2>4. CASE pc' = "record" /\ meter' = meter /\ candidates' = candidates
    BY <2>1, <2>4, Quiet
  <2>5. CASE SetNewest("state", "TESTABLE") /\ Count("experiments") /\ pc' \in {"execute", "record"}
    <3>1. /\ meter'.experiments = meter.experiments + 1
          /\ meter'.candidates = meter.candidates
      BY <2>5 DEF Count, Types, TypeOK
    <3>2. Newest > 0 /\ Newest \notin Planned
      BY <2>1 DEF CandidateInv, Planned
    <3>3. Newest' = Newest /\ Planned' = Planned \cup {Newest}
      BY <2>5, <3>2, AfterState
    <3>4. Cardinality(Planned') = Cardinality(Planned) + 1
      BY <3>2, <3>3, PlannedFinite, FS_AddElement
    <3>5. CandidateInv'
      <4>1. Cardinality(Planned)' = Cardinality(Planned) + 1
        BY <3>4
      <4> QED
        BY <2>1, <2>2, <2>5, <3>1, <3>2, <3>3, <4>1, AfterState, PlannedFinite, Limits
           DEF CandidateInv, Newest
    <3>6. ExplainInv'
      BY <2>1, <2>5, <3>2, <3>3, AfterState DEF ExplainInv
    <3> QED
      BY <3>5, <3>6
  <2> QED
    BY <2>3, <2>4, <2>5
<1>18. CASE ExecuteExperiment
  <2>1. /\ pc = "execute" /\ pc' \in {"record", "judge"}
        /\ candidates' = candidates /\ meter' = meter
    BY <1>18 DEF ExecuteExperiment, store, Close, Reject, Proceed
  <2>2. Newest' = Newest /\ Planned' = Planned
    BY <2>1 DEF Newest, Planned
  <2> QED
    BY <2>1, <2>2 DEF CandidateInv, ExplainInv
<1>19. CASE Judge
  <2>1. pc = "judge" /\ pc' = "record" /\ meter' = meter
    BY <1>19 DEF Judge, Close, Accept
  <2>2. PICK s \in {"SUPPORTED", "FALSIFIED", "INCONCLUSIVE"} : SetNewest("state", s)
    BY <1>19 DEF Judge
  <2>3. Newest > 0 /\ Newest \in Planned
    BY <2>1, PlannedFinite DEF CandidateInv, Planned
  <2>4. /\ Newest' = Newest /\ Planned' = Planned
        /\ \A i \in 1..Newest : candidates'[i].explained = candidates[i].explained
    BY <2>2, <2>3, AfterState
  <2>5. CandidateInv'
    BY <2>1, <2>4 DEF CandidateInv, Newest
  <2>6. ExplainInv'
    BY <2>1, <2>4 DEF ExplainInv
  <2> QED
    BY <2>5, <2>6
<1>20. CASE RecordTurn
  <2>1. /\ pc \notin {"idle", "provenance"}
        /\ pc' \notin {"provenance", "plan", "execute", "judge"}
        /\ candidates' = candidates
    BY <1>20 DEF RecordTurn, store, Close, Accept, Reject, Exhaust, Proceed
  <2>2. meter'.candidates = meter.candidates /\ meter'.experiments = meter.experiments
    BY <1>20 DEF RecordTurn, Types, TypeOK
  <2> QED
    BY <2>1, <2>2, Quiet
<1>21. CASE TurnEvent
  <2>1. /\ pc \notin {"idle", "provenance"}
        /\ pc' \notin {"provenance", "plan", "execute", "judge"}
        /\ candidates' = candidates
    BY <1>21 DEF TurnEvent, store, Close, Accept, Reject, Exhaust, Proceed
  <2>2. meter'.candidates = meter.candidates /\ meter'.experiments = meter.experiments
    BY <1>21 DEF TurnEvent, Types, TypeOK
  <2> QED
    BY <2>1, <2>2, Quiet
<1>22. CASE WriteResult
  <2>1. /\ pc \notin {"idle", "provenance"}
        /\ pc' \notin {"provenance", "plan", "execute", "judge"}
        /\ candidates' = candidates
    BY <1>22 DEF WriteResult, store, Close, Accept, Reject, Exhaust, Proceed
  <2>2. meter'.candidates = meter.candidates /\ meter'.experiments = meter.experiments
    BY <1>22 DEF WriteResult, Types, TypeOK
  <2> QED
    BY <2>1, <2>2, Quiet
<1>23. CASE ResultEvent
  <2>1. /\ pc \notin {"idle", "provenance"}
        /\ pc' \notin {"provenance", "plan", "execute", "judge"}
        /\ candidates' = candidates
    BY <1>23 DEF ResultEvent, store, Close, Accept, Reject, Exhaust, Proceed
  <2>2. meter'.candidates = meter.candidates /\ meter'.experiments = meter.experiments
    BY <1>23 DEF ResultEvent, Types, TypeOK
  <2> QED
    BY <2>1, <2>2, Quiet
<1>24. CASE Tick
  <2>1. /\ pc # "idle" /\ pc' = pc /\ candidates' = candidates /\ result' = result
    BY <1>24 DEF Tick, store
  <2>2. meter'.candidates = meter.candidates /\ meter'.experiments = meter.experiments
    BY <1>24 DEF Tick, Types, TypeOK
  <2>3. Newest' = Newest /\ Planned' = Planned
    BY <2>1 DEF Newest, Planned
  <2> QED
    BY <2>1, <2>2, <2>3 DEF CandidateInv, ExplainInv
<1>25. CASE Abort
  <2>1. pc' = "idle" /\ candidates' = candidates /\ result' = result
    BY <1>25 DEF Abort, store
  <2>2. Newest' = Newest /\ Planned' = Planned
    BY <2>1 DEF Newest, Planned
  <2> QED
    BY <2>1, <2>2 DEF CandidateInv, ExplainInv
<1> QED
  BY <1>1, <1>2, <1>3, <1>4, <1>5, <1>6, <1>7, <1>8, <1>9, <1>10, <1>11,
     <1>12, <1>13, <1>14, <1>15, <1>16, <1>17, <1>18, <1>19, <1>20, <1>21,
     <1>22, <1>23, <1>24, <1>25 DEF Next, Step, Turn

-----------------------------------------------------------------------------
(* The places of a turn before its end is decided.                          *)
Undecided == {"start", "start_event", "request", "call", "answer", "dispatch", "tool",
              "expect", "propose", "provenance", "plan", "execute", "judge"}

Stopped == [action |-> "STOP", answer |-> "ACCEPTED"]
Failed == [action |-> "INVALID", answer |-> "REJECTED"]
Told(s) ==
    /\ s = "COMPLETED" => Len(turns) > 0 /\ turns[Len(turns)] = Stopped
    /\ s = "PROVIDER_FAILED" => Len(turns) > 0 /\ turns[Len(turns)] = Failed
    /\ s = "BUDGET_EXHAUSTED" =>
          \/ Len(turns) > 0 /\ turns[Len(turns)].answer = "EXHAUSTED"
          \/ Exhausted(turn.size)

(* What the status of an investigation says is what its turns end with.     *)
StoryInv ==
    /\ \A i \in 1..Len(turns) : Ends(turns[i]) => i = Len(turns)
    /\ pc \in Undecided \cup {"record"} => \A i \in 1..Len(turns) : ~Ends(turns[i])
    /\ pc \in Undecided => status = "COMPLETED"
    /\ pc \in {"call", "answer"} => turn.action = "INVALID"
    /\ pc \in {"record", "turn_event"} =>
          /\ turn.answer = "EXHAUSTED" <=> status = "BUDGET_EXHAUSTED"
          /\ status = "PROVIDER_FAILED" => turn.action = "INVALID" /\ turn.answer = "REJECTED"
    /\ pc = "turn_event" =>
          /\ Len(turns) > 0
          /\ turns[Len(turns)] = [action |-> turn.action, answer |-> turn.answer]
    /\ pc = "finish" => Told(status)
    /\ Told(result.status)

(* A step between two undecided places, or one that decides the turn.       *)
LEMMA Decides ==
    ASSUME CallInv, StoryInv, turns' = turns, result' = result, pc \in Undecided,
           \/ pc' \in Undecided /\ status' = status
           \/ /\ pc' = "record"
              /\ turn'.answer = "EXHAUSTED" <=> status' = "BUDGET_EXHAUSTED"
              /\ status' = "PROVIDER_FAILED" =>
                    turn'.action = "INVALID" /\ turn'.answer = "REJECTED",
           pc' \in {"call", "answer"} => turn'.action = "INVALID"
    PROVE  StoryInv'
<1>1. "finish" \notin Undecided /\ "turn_event" \notin Undecided /\ "record" \notin Undecided
  BY DEF Undecided
<1>2. result'.status = "absent"
  BY DEF CallInv, Undecided, Absent
<1> QED
  BY <1>1, <1>2 DEF StoryInv, Told, Ends

(* When the budget is used up, more time changes nothing.                   *)
LEMMA StaysExhausted ==
    ASSUME Types, UNCHANGED turn, Tick, Exhausted(turn.size)
    PROVE  Exhausted(turn.size)'
<1>1. /\ meter'.turns = meter.turns /\ meter'.bytes = meter.bytes
      /\ meter'.elapsed = meter.elapsed + 1 /\ meter.elapsed \in Nat
  BY Limits DEF Tick, Types, TypeOK
<1> QED
  BY <1>1, Limits DEF Exhausted, NoTime

(* Every step keeps StoryInv.                                               *)
LEMMA StoryStep ==
    ASSUME Types, StartInv, CallInv, StoryInv, Next
    PROVE  StoryInv'
<1> DEFINE Goal == StoryInv'
<1> USE DEF Goto
<1>1. CASE Enter
  <2>1. /\ pc' = "start" /\ status' = "COMPLETED" /\ turns' = turns /\ result' = result
        /\ turns = <<>> /\ result.status = "absent"
    BY <1>1 DEF Enter, store, StartInv, Absent
  <2>2. Len(turns) = 0
    BY <2>1
  <2> QED
    BY <2>1, <2>2 DEF StoryInv, Told, Undecided, Ends
<1>2. CASE WriteStart
  <2>1. /\ pc = "start" /\ pc' = "start_event"
        /\ UNCHANGED <<turn, turns, result, status>>
    BY <1>2 DEF WriteStart
  <2> QED
    BY <2>1, Decides DEF Undecided
<1>3. CASE StartEvent
  <2>1. /\ pc = "start_event" /\ pc' = "request"
        /\ UNCHANGED <<turn, turns, result, status>>
    BY <1>3 DEF StartEvent
  <2> QED
    BY <2>1, Decides DEF Undecided
<1>4. ASSUME NEW n \in RequestSize, Request(n) PROVE Goal
  <2>1. /\ pc = "request" /\ UNCHANGED <<turns, result>>
        /\ \/ pc' = "call" /\ status' = status
           \/ pc' = "finish" /\ status' = "BUDGET_EXHAUSTED" /\ Exhausted(turn.size)'
    <3>1. UNCHANGED meter /\ turn'.size = n
      BY <1>4 DEF Request, NoTurn
    <3>2. Exhausted(n) => Exhausted(turn.size)'
      BY <3>1 DEF Exhausted, NoTime
    <3> QED
      BY <1>4, <3>2 DEF Request, store
  <2>2. turn'.action = "INVALID"
    BY <1>4 DEF Request, NoTurn
  <2>3. CASE pc' = "call" /\ status' = status
    BY <2>1, <2>2, <2>3, Decides DEF Undecided
  <2>4. CASE pc' = "finish" /\ status' = "BUDGET_EXHAUSTED" /\ Exhausted(turn.size)'
    <3>1. result'.status = "absent"
      BY <2>1 DEF CallInv, Absent
    <3> QED
      BY <2>1, <2>4, <3>1 DEF StoryInv, Told, Undecided, Ends
  <2> QED
    BY <2>1, <2>3, <2>4
<1>5. CASE Invoke
  <2>1. /\ pc = "call" /\ UNCHANGED <<turn, turns, result>>
        /\ \/ pc' = "answer" /\ status' = status
           \/ pc' = "finish" /\ status' = "BUDGET_EXHAUSTED" /\ Exhausted(turn.size)'
    <3>1. NoTime /\ UNCHANGED <<meter, turn>> => Exhausted(turn.size)'
      BY DEF Exhausted, NoTime
    <3> QED
      BY <1>5, <3>1 DEF Invoke, store
  <2>2. turn'.action = "INVALID"
    BY <2>1 DEF StoryInv
  <2>3. CASE pc' = "answer" /\ status' = status
    BY <2>1, <2>2, <2>3, Decides DEF Undecided
  <2>4. CASE pc' = "finish" /\ status' = "BUDGET_EXHAUSTED" /\ Exhausted(turn.size)'
    <3>1. result'.status = "absent"
      BY <2>1 DEF CallInv, Absent
    <3> QED
      BY <2>1, <2>4, <3>1 DEF StoryInv, Told, Undecided, Ends
  <2> QED
    BY <2>1, <2>3, <2>4
<1>6. CASE ProviderFails
  <2>1. /\ pc = "answer" /\ pc' = "record" /\ status' = "PROVIDER_FAILED"
        /\ turns' = turns /\ result' = result /\ turn.action = "INVALID"
    BY <1>6 DEF ProviderFails, store, Close, StoryInv
  <2>2. turn'.answer = "REJECTED" /\ turn'.action = turn.action
    BY <1>6 DEF ProviderFails, Close, Types, TurnType
  <2> QED
    BY <2>1, <2>2, Decides DEF Undecided
<1>7. CASE AnswersLate
  <2>1. turns' = turns /\ result' = result /\ pc \in Undecided
    BY <1>7 DEF AnswersLate, store, Undecided, Close, Accept, Reject, Exhaust, Proceed
  <2>2. \/ pc' \in Undecided \ {"call", "answer"} /\ status' = status
        \/ /\ pc' = "record"
           /\ turn'.answer = "EXHAUSTED" => status' = "BUDGET_EXHAUSTED"
           /\ status' = status \/ turn'.answer = "EXHAUSTED"
    BY <1>7 DEF AnswersLate, Undecided, Types, TurnType, Close, Accept, Reject, Exhaust, Proceed
  <2>3. status = "COMPLETED"
    BY <2>1 DEF StoryInv
  <2> QED
    BY <2>1, <2>2, <2>3, Decides
<1>8. CASE AnswersUnreadably
  <2>1. turns' = turns /\ result' = result /\ pc \in Undecided
    BY <1>8 DEF AnswersUnreadably, store, Undecided, Close, Accept, Reject, Exhaust, Proceed
  <2>2. \/ pc' \in Undecided \ {"call", "answer"} /\ status' = status
        \/ /\ pc' = "record"
           /\ turn'.answer = "EXHAUSTED" => status' = "BUDGET_EXHAUSTED"
           /\ status' = status \/ turn'.answer = "EXHAUSTED"
    BY <1>8 DEF AnswersUnreadably, Undecided, Types, TurnType, Close, Accept, Reject, Exhaust, Proceed
  <2>3. status = "COMPLETED"
    BY <2>1 DEF StoryInv
  <2> QED
    BY <2>1, <2>2, <2>3, Decides
<1>9. ASSUME NEW action \in {"TOOL", "PROPOSE", "STOP"}, NEW plan \in Plan \cup {NoPlan},
            Answers(action, plan)
      PROVE  Goal
  <2>1. turns' = turns /\ result' = result /\ pc \in Undecided
    BY <1>9 DEF Answers, store, Undecided, Close, Accept, Reject, Exhaust, Proceed
  <2>2. \/ pc' \in Undecided \ {"call", "answer"} /\ status' = status
        \/ /\ pc' = "record"
           /\ turn'.answer = "EXHAUSTED" => status' = "BUDGET_EXHAUSTED"
           /\ status' = status \/ turn'.answer = "EXHAUSTED"
    BY <1>9 DEF Answers, Undecided, Types, TurnType, Close, Accept, Reject, Exhaust, Proceed
  <2>3. status = "COMPLETED"
    BY <2>1 DEF StoryInv
  <2> QED
    BY <2>1, <2>2, <2>3, Decides
<1>10. CASE DispatchStop
  <2>1. turns' = turns /\ result' = result /\ pc \in Undecided
    BY <1>10 DEF DispatchStop, store, Undecided, Close, Accept, Reject, Exhaust, Proceed
  <2>2. \/ pc' \in Undecided \ {"call", "answer"} /\ status' = status
        \/ /\ pc' = "record"
           /\ turn'.answer = "EXHAUSTED" => status' = "BUDGET_EXHAUSTED"
           /\ status' = status \/ turn'.answer = "EXHAUSTED"
    BY <1>10 DEF DispatchStop, Undecided, Types, TurnType, Close, Accept, Reject, Exhaust, Proceed
  <2>3. status = "COMPLETED"
    BY <2>1 DEF StoryInv
  <2> QED
    BY <2>1, <2>2, <2>3, Decides
<1>11. CASE DispatchTool
  <2>1. turns' = turns /\ result' = result /\ pc \in Undecided
    BY <1>11 DEF DispatchTool, store, Undecided, Close, Accept, Reject, Exhaust, Proceed
  <2>2. \/ pc' \in Undecided \ {"call", "answer"} /\ status' = status
        \/ /\ pc' = "record"
           /\ turn'.answer = "EXHAUSTED" => status' = "BUDGET_EXHAUSTED"
           /\ status' = status \/ turn'.answer = "EXHAUSTED"
    BY <1>11 DEF DispatchTool, Undecided, Types, TurnType, Close, Accept, Reject, Exhaust, Proceed
  <2>3. status = "COMPLETED"
    BY <2>1 DEF StoryInv
  <2> QED
    BY <2>1, <2>2, <2>3, Decides
<1>12. CASE UseTool
  <2>1. turns' = turns /\ result' = result /\ pc \in Undecided
    BY <1>12 DEF UseTool, store, Undecided, Close, Accept, Reject, Exhaust, Proceed
  <2>2. \/ pc' \in Undecided \ {"call", "answer"} /\ status' = status
        \/ /\ pc' = "record"
           /\ turn'.answer = "EXHAUSTED" => status' = "BUDGET_EXHAUSTED"
           /\ status' = status \/ turn'.answer = "EXHAUSTED"
    BY <1>12 DEF UseTool, Undecided, Types, TurnType, Close, Accept, Reject, Exhaust, Proceed
  <2>3. status = "COMPLETED"
    BY <2>1 DEF StoryInv
  <2> QED
    BY <2>1, <2>2, <2>3, Decides
<1>13. CASE DispatchProposal
  <2>1. turns' = turns /\ result' = result /\ pc \in Undecided
    BY <1>13 DEF DispatchProposal, store, Undecided, Close, Accept, Reject, Exhaust, Proceed
  <2>2. \/ pc' \in Undecided \ {"call", "answer"} /\ status' = status
        \/ /\ pc' = "record"
           /\ turn'.answer = "EXHAUSTED" => status' = "BUDGET_EXHAUSTED"
           /\ status' = status \/ turn'.answer = "EXHAUSTED"
    BY <1>13 DEF DispatchProposal, Undecided, Types, TurnType, Close, Accept, Reject, Exhaust, Proceed
  <2>3. status = "COMPLETED"
    BY <2>1 DEF StoryInv
  <2> QED
    BY <2>1, <2>2, <2>3, Decides
<1>14. CASE AddExpectation
  <2>1. turns' = turns /\ result' = result /\ pc \in Undecided
    BY <1>14 DEF AddExpectation, store, Undecided, Close, Accept, Reject, Exhaust, Proceed
  <2>2. \/ pc' \in Undecided \ {"call", "answer"} /\ status' = status
        \/ /\ pc' = "record"
           /\ turn'.answer = "EXHAUSTED" => status' = "BUDGET_EXHAUSTED"
           /\ status' = status \/ turn'.answer = "EXHAUSTED"
    BY <1>14 DEF AddExpectation, Undecided, Types, TurnType, Close, Accept, Reject, Exhaust, Proceed
  <2>3. status = "COMPLETED"
    BY <2>1 DEF StoryInv
  <2> QED
    BY <2>1, <2>2, <2>3, Decides
<1>15. CASE ProposeCandidate
  <2>1. turns' = turns /\ result' = result /\ pc \in Undecided
    BY <1>15 DEF ProposeCandidate, store, Undecided, Close, Accept, Reject, Exhaust, Proceed
  <2>2. \/ pc' \in Undecided \ {"call", "answer"} /\ status' = status
        \/ /\ pc' = "record"
           /\ turn'.answer = "EXHAUSTED" => status' = "BUDGET_EXHAUSTED"
           /\ status' = status \/ turn'.answer = "EXHAUSTED"
    BY <1>15 DEF ProposeCandidate, Undecided, Types, TurnType, Close, Accept, Reject, Exhaust, Proceed
  <2>3. status = "COMPLETED"
    BY <2>1 DEF StoryInv
  <2> QED
    BY <2>1, <2>2, <2>3, Decides
<1>16. CASE WriteProvenance
  <2>1. turns' = turns /\ result' = result /\ pc \in Undecided
    BY <1>16 DEF WriteProvenance, store, Undecided, Close, Accept, Reject, Exhaust, Proceed
  <2>2. \/ pc' \in Undecided \ {"call", "answer"} /\ status' = status
        \/ /\ pc' = "record"
           /\ turn'.answer = "EXHAUSTED" => status' = "BUDGET_EXHAUSTED"
           /\ status' = status \/ turn'.answer = "EXHAUSTED"
    BY <1>16 DEF WriteProvenance, Undecided, Types, TurnType, Close, Accept, Reject, Exhaust, Proceed
  <2>3. status = "COMPLETED"
    BY <2>1 DEF StoryInv
  <2> QED
    BY <2>1, <2>2, <2>3, Decides
<1>17. CASE PlanExperiment
  <2>1. turns' = turns /\ result' = result /\ pc \in Undecided
    BY <1>17 DEF PlanExperiment, store, Undecided, Close, Accept, Reject, Exhaust, Proceed
  <2>2. \/ pc' \in Undecided \ {"call", "answer"} /\ status' = status
        \/ /\ pc' = "record"
           /\ turn'.answer = "EXHAUSTED" => status' = "BUDGET_EXHAUSTED"
           /\ status' = status \/ turn'.answer = "EXHAUSTED"
    BY <1>17 DEF PlanExperiment, Undecided, Types, TurnType, Close, Accept, Reject, Exhaust, Proceed
  <2>3. status = "COMPLETED"
    BY <2>1 DEF StoryInv
  <2> QED
    BY <2>1, <2>2, <2>3, Decides
<1>18. CASE ExecuteExperiment
  <2>1. turns' = turns /\ result' = result /\ pc \in Undecided
    BY <1>18 DEF ExecuteExperiment, store, Undecided, Close, Accept, Reject, Exhaust, Proceed
  <2>2. \/ pc' \in Undecided \ {"call", "answer"} /\ status' = status
        \/ /\ pc' = "record"
           /\ turn'.answer = "EXHAUSTED" => status' = "BUDGET_EXHAUSTED"
           /\ status' = status \/ turn'.answer = "EXHAUSTED"
    BY <1>18 DEF ExecuteExperiment, Undecided, Types, TurnType, Close, Accept, Reject, Exhaust, Proceed
  <2>3. status = "COMPLETED"
    BY <2>1 DEF StoryInv
  <2> QED
    BY <2>1, <2>2, <2>3, Decides
<1>19. CASE Judge
  <2>1. turns' = turns /\ result' = result /\ pc \in Undecided
    BY <1>19 DEF Judge, store, Undecided, Close, Accept, Reject, Exhaust, Proceed
  <2>2. \/ pc' \in Undecided \ {"call", "answer"} /\ status' = status
        \/ /\ pc' = "record"
           /\ turn'.answer = "EXHAUSTED" => status' = "BUDGET_EXHAUSTED"
           /\ status' = status \/ turn'.answer = "EXHAUSTED"
    BY <1>19 DEF Judge, Undecided, Types, TurnType, Close, Accept, Reject, Exhaust, Proceed
  <2>3. status = "COMPLETED"
    BY <2>1 DEF StoryInv
  <2> QED
    BY <2>1, <2>2, <2>3, Decides
<1>20. CASE RecordTurn
  <2>1. /\ pc = "record" /\ pc' = "turn_event"
        /\ turns' = Append(turns, [action |-> turn.action, answer |-> turn.answer])
        /\ UNCHANGED <<turn, status, result>>
    BY <1>20 DEF RecordTurn
  <2>2. /\ Len(turns) \in Nat /\ Len(turns') = Len(turns) + 1
        /\ turns'[Len(turns')] = [action |-> turn.action, answer |-> turn.answer]
        /\ \A i \in 1..Len(turns) : turns'[i] = turns[i]
    BY <2>1 DEF Types
  <2>3. \A i \in 1..Len(turns') : Ends(turns'[i]) => i = Len(turns')
    <3>1. \A i \in 1..Len(turns') : i \in 1..Len(turns) \/ i = Len(turns')
      BY <2>2
    <3> QED
      BY <2>1, <2>2, <3>1 DEF StoryInv
  <2>4. result = Absent
    BY <2>1 DEF CallInv
  <2>5. Told(result.status)'
    BY <2>1, <2>4 DEF Told, Absent
  <2> QED
    BY <2>1, <2>2, <2>3, <2>5 DEF StoryInv, Undecided, Ends
<1>21. CASE TurnEvent
  <2>1. pc = "turn_event" /\ UNCHANGED <<turn, turns, status, result>>
    BY <1>21 DEF TurnEvent
  <2>2. /\ \A i \in 1..Len(turns) : Ends(turns[i]) => i = Len(turns)
        /\ Len(turns) > 0
        /\ turns[Len(turns)] = [action |-> turn.action, answer |-> turn.answer]
        /\ turn.answer = "EXHAUSTED" <=> status = "BUDGET_EXHAUSTED"
        /\ status = "PROVIDER_FAILED" => turn.action = "INVALID" /\ turn.answer = "REJECTED"
    BY <2>1 DEF StoryInv
  <2>0. result'.status = "absent"
    BY <2>1 DEF CallInv, Absent
  <2>5. CASE turn.torn
    <3>1. pc' = "idle"
      BY <1>21, <2>5 DEF TurnEvent
    <3> QED
      BY <2>0, <2>1, <2>2, <3>1 DEF StoryInv, Told, Undecided, Ends
  <2>3. CASE /\ ~turn.torn
             /\ status # "COMPLETED" \/ (turn.action = "STOP" /\ turn.answer = "ACCEPTED")
    <3>1. pc' = "finish"
      BY <1>21, <2>3 DEF TurnEvent
    <3>2. Told(status)'
      BY <2>1, <2>2, <2>3 DEF Told, Stopped, Failed
    <3> QED
      BY <2>0, <2>1, <2>2, <3>1, <3>2 DEF StoryInv, Told, Undecided, Ends
  <2>4. CASE /\ ~turn.torn
             /\ ~(status # "COMPLETED" \/ (turn.action = "STOP" /\ turn.answer = "ACCEPTED"))
    <3>1. pc' = "request"
      BY <1>21, <2>4 DEF TurnEvent
    <3>2. ~Ends(turns[Len(turns)])
      BY <2>2, <2>4 DEF Ends
    <3>3. \A i \in 1..Len(turns) : ~Ends(turns[i])
      BY <2>2, <3>2
    <3> QED
      BY <2>0, <2>1, <2>4, <3>1, <3>3 DEF StoryInv, Told, Undecided, Ends
  <2> QED
    BY <2>3, <2>4, <2>5
<1>22. CASE WriteResult
  <2>1. /\ pc = "finish" /\ pc' = "result_event" /\ turns' = turns
        /\ result'.status = status /\ UNCHANGED <<meter, turn>>
    BY <1>22 DEF WriteResult
  <2>2. Told(result.status)'
    BY <2>1 DEF StoryInv, Told, Exhausted, NoTime
  <2> QED
    BY <2>1, <2>2 DEF StoryInv, Told, Undecided, Ends
<1>23. CASE ResultEvent
  <2>1. pc = "result_event" /\ pc' = "idle" /\ turns' = turns
    BY <1>23 DEF ResultEvent
  <2>2. result'.status = result.status /\ UNCHANGED <<meter, turn>>
    BY <1>23 DEF ResultEvent, Types
  <2>3. Told(result.status)'
    BY <2>1, <2>2 DEF StoryInv, Told, Exhausted, NoTime
  <2> QED
    BY <2>1, <2>3 DEF StoryInv, Told, Undecided, Ends
<1>24. CASE Tick
  <2>1. UNCHANGED <<pc, turn, status, turns, result>>
    BY <1>24 DEF Tick, store
  <2>2. Exhausted(turn.size) => Exhausted(turn.size)'
    BY <1>24, <2>1, StaysExhausted
  <2>3. (Told(status) => Told(status)') /\ (Told(result.status) => Told(result.status)')
    BY <2>1, <2>2 DEF Told
  <2> QED
    BY <2>1, <2>3 DEF StoryInv, Ends
<1>25. CASE Abort
  <2>1. pc' = "idle" /\ UNCHANGED <<turns, result, meter, turn>>
    BY <1>25 DEF Abort, store
  <2>2. Told(result.status)'
    BY <2>1 DEF StoryInv, Told, Exhausted, NoTime
  <2> QED
    BY <2>1, <2>2 DEF StoryInv, Undecided, Ends
<1> QED
  BY <1>1, <1>2, <1>3, <1>4, <1>5, <1>6, <1>7, <1>8, <1>9, <1>10, <1>11,
     <1>12, <1>13, <1>14, <1>15, <1>16, <1>17, <1>18, <1>19, <1>20, <1>21,
     <1>22, <1>23, <1>24, <1>25 DEF Next, Step, Turn

-----------------------------------------------------------------------------
(* The places of a turn that was asked for and not yet decided.             *)
InTurn == {"call", "answer", "dispatch", "tool", "expect", "propose", "provenance", "plan",
           "execute", "judge"}

(* Which turns left something in the run.  A turn writes nothing before its *)
(* proposal is carried out, and a turn that is exhausted never gets there.  *)
LeftInv ==
    /\ start = "absent" => Proposing = {}
    /\ pc # "idle" => \A i \in Proposing : i <= meter.turns
    /\ pc \in {"dispatch", "tool", "expect"} => meter.turns \notin Proposing
    /\ pc \in InTurn => ~turn.late
    /\ pc = "record" /\ (turn.late \/ turn.answer = "EXHAUSTED") =>
          meter.turns \notin Proposing
    /\ \A i \in 1..Len(turns) : turns[i].answer = "EXHAUSTED" => i \notin Proposing

(* The turns in question are numbers.                                       *)
LEMMA ProposingType == ASSUME Types PROVE Proposing \subseteq Nat
<1>1. ASSUME NEW j \in DOMAIN candidates PROVE candidates[j].turn \in Nat
  <2>1. candidates[j] \in Candidate
    BY DEF Types
  <2> QED
    BY <2>1 DEF Candidate
<1>2. Range(expectations) \subseteq Nat
  BY DEF Types, TypeOK, Range
<1> QED
  BY <1>1, <1>2 DEF Proposing

(* Writing to a candidate leaves its turn alone.                            *)
LEMMA SetKeepsTurns ==
    ASSUME Types, NEW field \in {"state", "explained"}, NEW value,
           field = "state" => value \in {"HYPOTHESIZED", "TESTABLE", "SUPPORTED", "FALSIFIED",
                                         "INCONCLUSIVE"},
           field = "explained" => value \in BOOLEAN,
           SetNewest(field, value), expectations' = expectations
    PROVE  Proposing' = Proposing
<1>1. /\ candidates' \in Seq(Candidate) /\ candidates \in Seq(Candidate)
      /\ Len(candidates') = Len(candidates)
      /\ \A i \in 1..Len(candidates) :
            /\ i # Len(candidates) => candidates'[i] = candidates[i]
            /\ i = Len(candidates) =>
                  candidates'[i] = [candidates[i] EXCEPT ![field] = value]
  BY SetLast DEF Types
<1>2. DOMAIN candidates' = 1..Len(candidates) /\ DOMAIN candidates = 1..Len(candidates)
  BY <1>1, LenProperties
<1>3. ASSUME NEW i \in 1..Len(candidates) PROVE candidates'[i].turn = candidates[i].turn
  <2>1. candidates[i] \in Candidate
    BY <1>1
  <2> QED
    BY <1>1, <2>1 DEF Candidate
<1> QED
  BY <1>2, <1>3 DEF Proposing

(* An expectation or a candidate that is added is one of its turn.          *)
LEMMA AddedExpectation ==
    ASSUME Types, expectations' = Append(expectations, meter.turns), candidates' = candidates
    PROVE  Proposing' = Proposing \cup {meter.turns}
<1>1. Range(expectations)' = Range(expectations) \cup {meter.turns}
  <2>1. /\ expectations \in Seq(Nat) /\ Len(expectations) \in Nat
        /\ DOMAIN expectations = 1..Len(expectations)
        /\ DOMAIN expectations' = 1..(Len(expectations) + 1)
        /\ expectations'[Len(expectations) + 1] = meter.turns
        /\ \A i \in 1..Len(expectations) : expectations'[i] = expectations[i]
    BY Numbers DEF Types, TypeOK
  <2>2. \A i \in 1..(Len(expectations) + 1) :
            i \in 1..Len(expectations) \/ i = Len(expectations) + 1
    BY <2>1
  <2>3. 1..Len(expectations) \subseteq 1..(Len(expectations) + 1)
        /\ Len(expectations) + 1 \in 1..(Len(expectations) + 1)
    BY <2>1
  <2> QED
    BY <2>1, <2>2, <2>3 DEF Range
<1> QED
  BY <1>1 DEF Proposing

(* A candidate adds its turn to those that left something.                  *)
LEMMA AddedCandidate ==
    ASSUME Types, candidates' = Append(candidates, Proposed), expectations' = expectations
    PROVE  Proposing' = Proposing \cup {meter.turns}
<1>1. /\ Newest \in Nat /\ DOMAIN candidates = 1..Newest /\ Newest' = Newest + 1
      /\ candidates'[Newest + 1] = Proposed
      /\ \A i \in 1..Newest : candidates'[i] = candidates[i]
  BY AfterPropose, PlannedFinite
<1>2. DOMAIN candidates' = 1..(Newest + 1)
  <2>1. candidates' \in Seq(Candidate)
    BY ProposedCandidate DEF Types
  <2> QED
    BY <1>1, <2>1, LenProperties DEF Newest
<1>3. /\ \A i \in 1..(Newest + 1) : i \in 1..Newest \/ i = Newest + 1
      /\ 1..Newest \subseteq 1..(Newest + 1) /\ Newest + 1 \in 1..(Newest + 1)
  BY <1>1
<1>4. Proposed.turn = meter.turns
  BY DEF Proposed
<1>5. {candidates[j].turn : j \in DOMAIN candidates}' =
          {candidates[j].turn : j \in DOMAIN candidates} \cup {meter.turns}
  BY <1>1, <1>2, <1>3, <1>4
<1> QED
  BY <1>5 DEF Proposing

(* A step that leaves nothing new in the run and starts no turn.            *)
LEMMA LeavesNothing ==
    ASSUME LeftInv, Proposing' = Proposing, turns' = turns, pc # "idle",
           start' = "absent" => start = "absent", meter'.turns = meter.turns,
           pc' \in {"dispatch", "tool", "expect"} => pc = "dispatch",
           pc' \in InTurn \cup {"record"} => ~turn'.late,
           pc' = "record" /\ turn'.answer = "EXHAUSTED" => pc \in {"dispatch", "tool", "expect"}
    PROVE  LeftInv'
BY DEF LeftInv

(* A step that counts the call.                                             *)
LEMMA CountsCall ==
    ASSUME Types, CallInv, LeftInv, UNCHANGED <<start, turns, expectations, candidates>>,
           pc = "answer", pc' \in {"record", "dispatch"}, CountCall,
           pc' = "dispatch" => ~turn'.late
    PROVE  LeftInv'
<1>1. Proposing' = Proposing
  BY DEF Proposing
<1>2. meter.turns \in Nat /\ meter'.turns = meter.turns + 1 /\ Proposing \subseteq Nat
  BY Numbers, ProposingType
<1>3. \A i \in Proposing : i <= meter.turns
  BY DEF LeftInv
<1>4. meter'.turns \notin Proposing /\ \A i \in Proposing : i <= meter'.turns
  BY <1>2, <1>3
<1> QED
  BY <1>1, <1>4 DEF LeftInv, InTurn

(* A step that leaves something of the turn under way in the run.           *)
LEMMA AddsTurn ==
    ASSUME Types, StartInv, CallInv, LeftInv, UNCHANGED <<turns, start>>,
           pc \in {"expect", "propose"}, pc' \in {"propose", "provenance"},
           Proposing' = Proposing \cup {meter.turns}, meter'.turns = meter.turns, ~turn'.late
    PROVE  LeftInv'
<1>1. start # "absent"
  BY DEF StartInv
<1>2. meter.turns = Len(turns) + 1 /\ Len(turns) \in Nat
  BY Numbers DEF CallInv, Answered
<1>3. \A i \in 1..Len(turns) : i # meter.turns
  BY <1>2
<1>4. \A i \in Proposing' : i <= meter'.turns
  BY <1>2 DEF LeftInv
<1> QED
  BY <1>1, <1>3, <1>4 DEF LeftInv

(* Every step keeps LeftInv.                                                *)
LEMMA LeftStep ==
    ASSUME Types, StartInv, CallInv, RoomInv, LeftInv, Next
    PROVE  LeftInv'
<1> DEFINE Goal == LeftInv'
<1> USE DEF Goto
<1>1. CASE Enter
  <2>1. /\ pc' = "start" /\ start = "absent" /\ start' = start /\ turns' = turns
        /\ UNCHANGED <<expectations, candidates>>
    BY <1>1 DEF Enter, store
  <2>2. Proposing' = Proposing /\ Proposing = {}
    BY <2>1 DEF Proposing, LeftInv
  <2> QED
    BY <2>1, <2>2 DEF LeftInv, InTurn
<1>2. CASE WriteStart
  <2>1. /\ UNCHANGED <<turns, expectations, candidates, meter>> /\ pc # "idle"
        /\ start' = "absent" => start = "absent"
        /\ pc' \notin {"dispatch", "tool", "expect", "record"}
        /\ pc' \in InTurn => ~turn'.late
    BY <1>2 DEF WriteStart, store, InTurn
  <2>2. Proposing' = Proposing /\ meter'.turns = meter.turns
    BY <2>1 DEF Proposing
  <2> QED
    BY <2>1, <2>2, LeavesNothing
<1>3. CASE StartEvent
  <2>1. /\ UNCHANGED <<turns, expectations, candidates, meter>> /\ pc # "idle"
        /\ start' = "absent" => start = "absent"
        /\ pc' \notin {"dispatch", "tool", "expect", "record"}
        /\ pc' \in InTurn => ~turn'.late
    BY <1>3 DEF StartEvent, store, InTurn
  <2>2. Proposing' = Proposing /\ meter'.turns = meter.turns
    BY <2>1 DEF Proposing
  <2> QED
    BY <2>1, <2>2, LeavesNothing
<1>4. ASSUME NEW n \in RequestSize, Request(n) PROVE Goal
  <2>1. /\ UNCHANGED <<turns, expectations, candidates, meter>> /\ pc # "idle"
        /\ start' = "absent" => start = "absent"
        /\ pc' \notin {"dispatch", "tool", "expect", "record"}
        /\ pc' \in InTurn => ~turn'.late
    BY <1>4 DEF Request, store, InTurn, NoTurn
  <2>2. Proposing' = Proposing /\ meter'.turns = meter.turns
    BY <2>1 DEF Proposing
  <2> QED
    BY <2>1, <2>2, LeavesNothing
<1>5. CASE Invoke
  <2>1. /\ UNCHANGED <<turns, expectations, candidates, meter>> /\ pc # "idle"
        /\ start' = "absent" => start = "absent"
        /\ pc' \notin {"dispatch", "tool", "expect", "record"}
        /\ pc' \in InTurn => ~turn'.late
    BY <1>5 DEF Invoke, store, InTurn, LeftInv
  <2>2. Proposing' = Proposing /\ meter'.turns = meter.turns
    BY <2>1 DEF Proposing
  <2> QED
    BY <2>1, <2>2, LeavesNothing
<1>6. CASE ProviderFails
  <2>1. /\ UNCHANGED <<start, turns, expectations, candidates>> /\ CountCall
        /\ pc = "answer" /\ pc' = "record"
    BY <1>6 DEF ProviderFails, store, Close, Reject
  <2> QED
    BY <2>1, CountsCall
<1>7. CASE AnswersLate
  <2>1. /\ UNCHANGED <<start, turns, expectations, candidates>> /\ CountCall
        /\ pc = "answer" /\ pc' = "record"
    BY <1>7 DEF AnswersLate, store, Close, Reject
  <2> QED
    BY <2>1, CountsCall
<1>8. CASE AnswersUnreadably
  <2>1. /\ UNCHANGED <<start, turns, expectations, candidates>> /\ CountCall
        /\ pc = "answer" /\ pc' = "record"
    BY <1>8 DEF AnswersUnreadably, store, Close, Reject
  <2> QED
    BY <2>1, CountsCall
<1>9. ASSUME NEW action \in {"TOOL", "PROPOSE", "STOP"}, NEW plan \in Plan \cup {NoPlan},
            Answers(action, plan)
      PROVE  Goal
  <2>1. /\ UNCHANGED <<start, turns, expectations, candidates>> /\ CountCall
        /\ pc = "answer" /\ pc' = "dispatch" /\ turn'.late = turn.late
    BY <1>9 DEF Answers, store, Types, TurnType
  <2> QED
    BY <2>1, CountsCall DEF LeftInv, InTurn
<1>10. CASE DispatchStop
  <2>1. /\ UNCHANGED <<turns, expectations, start>> /\ pc \in InTurn
        /\ pc' \in {"dispatch", "tool", "expect"} => pc = "dispatch"
        /\ pc' \in InTurn \cup {"record"} /\ turn'.late = turn.late
        /\ turn'.answer = "EXHAUSTED" /\ pc' = "record" => pc \in {"dispatch", "tool", "expect"}
    BY <1>10 DEF DispatchStop, store, InTurn, Close, Accept, Reject, Exhaust, Proceed, Types, TurnType
  <2>2. Proposing' = Proposing
    BY <1>10, <2>1 DEF DispatchStop, store, Proposing
  <2>3. meter'.turns = meter.turns
    BY <1>10, Numbers DEF DispatchStop
  <2> QED
    BY <2>1, <2>2, <2>3, LeavesNothing DEF LeftInv, InTurn
<1>11. CASE DispatchTool
  <2>1. /\ UNCHANGED <<turns, expectations, start>> /\ pc \in InTurn
        /\ pc' \in {"dispatch", "tool", "expect"} => pc = "dispatch"
        /\ pc' \in InTurn \cup {"record"} /\ turn'.late = turn.late
        /\ turn'.answer = "EXHAUSTED" /\ pc' = "record" => pc \in {"dispatch", "tool", "expect"}
    BY <1>11 DEF DispatchTool, store, InTurn, Close, Accept, Reject, Exhaust, Proceed, Types, TurnType
  <2>2. Proposing' = Proposing
    BY <1>11, <2>1 DEF DispatchTool, store, Proposing
  <2>3. meter'.turns = meter.turns
    BY <1>11, Numbers DEF DispatchTool
  <2> QED
    BY <2>1, <2>2, <2>3, LeavesNothing DEF LeftInv, InTurn
<1>12. CASE UseTool
  <2>1. /\ UNCHANGED <<turns, expectations, start>> /\ pc \in InTurn
        /\ pc' \in {"dispatch", "tool", "expect"} => pc = "dispatch"
        /\ pc' \in InTurn \cup {"record"} /\ turn'.late = turn.late
        /\ turn'.answer = "EXHAUSTED" /\ pc' = "record" => pc \in {"dispatch", "tool", "expect"}
    BY <1>12 DEF UseTool, store, InTurn, Close, Accept, Reject, Exhaust, Proceed, Types, TurnType
  <2>2. Proposing' = Proposing
    BY <1>12, <2>1 DEF UseTool, store, Proposing
  <2>3. meter'.turns = meter.turns
    BY <1>12, Numbers DEF UseTool
  <2> QED
    BY <2>1, <2>2, <2>3, LeavesNothing DEF LeftInv, InTurn
<1>13. CASE DispatchProposal
  <2>1. /\ UNCHANGED <<turns, expectations, start>> /\ pc \in InTurn
        /\ pc' \in {"dispatch", "tool", "expect"} => pc = "dispatch"
        /\ pc' \in InTurn \cup {"record"} /\ turn'.late = turn.late
        /\ turn'.answer = "EXHAUSTED" /\ pc' = "record" => pc \in {"dispatch", "tool", "expect"}
    BY <1>13 DEF DispatchProposal, store, InTurn, Close, Accept, Reject, Exhaust, Proceed, Types, TurnType
  <2>2. Proposing' = Proposing
    BY <1>13, <2>1 DEF DispatchProposal, store, Proposing
  <2>3. meter'.turns = meter.turns
    BY <1>13, Numbers DEF DispatchProposal
  <2> QED
    BY <2>1, <2>2, <2>3, LeavesNothing DEF LeftInv, InTurn
<1>14. CASE AddExpectation
  <2>1. /\ UNCHANGED <<turns, start, meter, candidates>> /\ pc = "expect"
        /\ turn'.late = turn.late
        /\ \/ pc' = "record" /\ turn'.answer = "REJECTED" /\ expectations' = expectations
           \/ pc' = "propose" /\ expectations' = Append(expectations, meter.turns)
    BY <1>14 DEF AddExpectation, Close, Reject, Proceed, Types, TurnType
  <2>2. CASE pc' = "record" /\ turn'.answer = "REJECTED" /\ expectations' = expectations
    <3>1. Proposing' = Proposing
      BY <2>1, <2>2 DEF Proposing
    <3> QED
      BY <2>1, <2>2, <3>1, LeavesNothing DEF LeftInv, InTurn
  <2>3. CASE pc' = "propose" /\ expectations' = Append(expectations, meter.turns)
    <3>1. Proposing' = Proposing \cup {meter.turns}
      BY <2>1, <2>3, AddedExpectation
    <3> QED
      BY <2>1, <2>3, <3>1, AddsTurn DEF LeftInv, InTurn
  <2> QED
    BY <2>1, <2>2, <2>3
<1>15. CASE ProposeCandidate
  <2>1. ~Full("candidates") /\ pc = "propose"
    <3>1. pc = "propose"
      BY <1>15 DEF ProposeCandidate, Close, Accept, Reject, Exhaust, Proceed
    <3> QED
      BY <3>1, Rooms, Limits DEF RoomInv, Types, TypeOK
  <2>2. /\ UNCHANGED <<turns, start, expectations>> /\ turn'.late = turn.late
        /\ \/ /\ pc' = "record" /\ turn'.answer = "REJECTED" /\ candidates' = candidates
              /\ meter' = meter
           \/ /\ pc' = "provenance" /\ candidates' = Append(candidates, Proposed)
              /\ Count("candidates")
    BY <1>15, <2>1 DEF ProposeCandidate, Close, Reject, Proceed, Types, TurnType
  <2>3. CASE pc' = "record" /\ turn'.answer = "REJECTED" /\ candidates' = candidates
             /\ meter' = meter
    <3>1. Proposing' = Proposing
      BY <2>2, <2>3 DEF Proposing
    <3> QED
      BY <2>1, <2>2, <2>3, <3>1, LeavesNothing DEF LeftInv, InTurn
  <2>4. CASE /\ pc' = "provenance" /\ candidates' = Append(candidates, Proposed)
             /\ Count("candidates")
    <3>1. Proposing' = Proposing \cup {meter.turns}
      BY <2>2, <2>4, AddedCandidate
    <3>2. meter'.turns = meter.turns
      BY <2>4, Numbers
    <3> QED
      BY <2>1, <2>2, <2>4, <3>1, <3>2, AddsTurn DEF LeftInv, InTurn
  <2> QED
    BY <2>2, <2>3, <2>4
<1>16. CASE WriteProvenance
  <2>1. /\ UNCHANGED <<turns, expectations, start>> /\ pc \in InTurn
        /\ pc' \in {"dispatch", "tool", "expect"} => pc = "dispatch"
        /\ pc' \in InTurn \cup {"record"} /\ turn'.late = turn.late
        /\ turn'.answer = "EXHAUSTED" /\ pc' = "record" => pc \in {"dispatch", "tool", "expect"}
    BY <1>16 DEF WriteProvenance, store, InTurn, Close, Accept, Reject, Exhaust, Proceed, Types, TurnType
  <2>2. Proposing' = Proposing
    BY <1>16, <2>1, SetKeepsTurns DEF WriteProvenance
  <2>3. meter'.turns = meter.turns
    BY <1>16 DEF WriteProvenance
  <2> QED
    BY <2>1, <2>2, <2>3, LeavesNothing DEF LeftInv, InTurn
<1>17. CASE PlanExperiment
  <2>1. ~Full("experiments") /\ pc = "plan"
    <3>1. pc = "plan"
      BY <1>17 DEF PlanExperiment, Close, Reject
    <3> QED
      BY <3>1, Rooms, Limits DEF RoomInv, Types, TypeOK
  <2>2. /\ UNCHANGED <<turns, start, expectations>> /\ turn'.late = turn.late
        /\ pc' = "execute" \/ (pc' = "record" /\ turn'.answer # "EXHAUSTED")
        /\ \/ candidates' = candidates /\ meter' = meter
           \/ SetNewest("state", "TESTABLE") /\ Count("experiments")
    BY <1>17, <2>1 DEF PlanExperiment, Close, Accept, Reject, Proceed, Types, TurnType
  <2>3. Proposing' = Proposing
    BY <2>2, SetKeepsTurns DEF Proposing
  <2>4. meter'.turns = meter.turns
    BY <2>2, Numbers
  <2> QED
    BY <2>1, <2>2, <2>3, <2>4, LeavesNothing DEF LeftInv, InTurn
<1>18. CASE ExecuteExperiment
  <2>1. /\ UNCHANGED <<turns, expectations, start>> /\ pc \in InTurn
        /\ pc' \in {"dispatch", "tool", "expect"} => pc = "dispatch"
        /\ pc' \in InTurn \cup {"record"} /\ turn'.late = turn.late
        /\ turn'.answer = "EXHAUSTED" /\ pc' = "record" => pc \in {"dispatch", "tool", "expect"}
    BY <1>18 DEF ExecuteExperiment, store, InTurn, Close, Accept, Reject, Exhaust, Proceed, Types, TurnType
  <2>2. Proposing' = Proposing
    BY <1>18, <2>1 DEF ExecuteExperiment, store, Proposing
  <2>3. meter'.turns = meter.turns
    BY <1>18, Numbers DEF ExecuteExperiment
  <2> QED
    BY <2>1, <2>2, <2>3, LeavesNothing DEF LeftInv, InTurn
<1>19. CASE Judge
  <2>1. /\ UNCHANGED <<turns, expectations, start>> /\ pc \in InTurn
        /\ pc' \in {"dispatch", "tool", "expect"} => pc = "dispatch"
        /\ pc' \in InTurn \cup {"record"} /\ turn'.late = turn.late
        /\ turn'.answer = "EXHAUSTED" /\ pc' = "record" => pc \in {"dispatch", "tool", "expect"}
    BY <1>19 DEF Judge, store, InTurn, Close, Accept, Reject, Exhaust, Proceed, Types, TurnType
  <2>4. PICK s \in {"SUPPORTED", "FALSIFIED", "INCONCLUSIVE"} : SetNewest("state", s)
    BY <1>19 DEF Judge
  <2>2. Proposing' = Proposing
    BY <2>1, <2>4, SetKeepsTurns
  <2>3. meter'.turns = meter.turns
    BY <1>19 DEF Judge
  <2> QED
    BY <2>1, <2>2, <2>3, LeavesNothing DEF LeftInv, InTurn
<1>20. CASE RecordTurn
  <2>1. /\ pc = "record" /\ pc' = "turn_event"
        /\ turns' = Append(turns, [action |-> turn.action, answer |-> turn.answer])
        /\ UNCHANGED <<turn, meter, start, expectations, candidates>>
    BY <1>20 DEF RecordTurn
  <2>2. /\ Len(turns) \in Nat /\ Len(turns') = Len(turns) + 1
        /\ turns'[Len(turns) + 1].answer = turn.answer
        /\ \A i \in 1..Len(turns) : turns'[i] = turns[i]
    BY <2>1 DEF Types
  <2>3. meter.turns = Len(turns) + 1
    BY <2>1, Numbers DEF CallInv, Answered
  <2>4. Proposing' = Proposing
    BY <2>1 DEF Proposing
  <2>5. \A i \in 1..Len(turns') : i \in 1..Len(turns) \/ i = Len(turns) + 1
    BY <2>2
  <2>6. \A i \in 1..Len(turns') : turns'[i].answer = "EXHAUSTED" => i \notin Proposing
    BY <2>1, <2>2, <2>3, <2>5 DEF LeftInv
  <2> QED
    BY <2>1, <2>4, <2>6 DEF LeftInv, InTurn
<1>21. CASE TurnEvent
  <2>1. /\ UNCHANGED <<turns, expectations, candidates, meter>> /\ pc # "idle"
        /\ start' = "absent" => start = "absent"
        /\ pc' \notin {"dispatch", "tool", "expect", "record"}
        /\ pc' \in InTurn => ~turn'.late
    BY <1>21 DEF TurnEvent, store, InTurn
  <2>2. Proposing' = Proposing /\ meter'.turns = meter.turns
    BY <2>1 DEF Proposing
  <2> QED
    BY <2>1, <2>2, LeavesNothing
<1>22. CASE WriteResult
  <2>1. /\ UNCHANGED <<turns, expectations, candidates, meter>> /\ pc # "idle"
        /\ start' = "absent" => start = "absent"
        /\ pc' \notin {"dispatch", "tool", "expect", "record"}
        /\ pc' \in InTurn => ~turn'.late
    BY <1>22 DEF WriteResult, store, InTurn
  <2>2. Proposing' = Proposing /\ meter'.turns = meter.turns
    BY <2>1 DEF Proposing
  <2> QED
    BY <2>1, <2>2, LeavesNothing
<1>23. CASE ResultEvent
  <2>1. /\ UNCHANGED <<turns, expectations, candidates, meter>> /\ pc # "idle"
        /\ start' = "absent" => start = "absent"
        /\ pc' \notin {"dispatch", "tool", "expect", "record"}
        /\ pc' \in InTurn => ~turn'.late
    BY <1>23 DEF ResultEvent, store, InTurn
  <2>2. Proposing' = Proposing /\ meter'.turns = meter.turns
    BY <2>1 DEF Proposing
  <2> QED
    BY <2>1, <2>2, LeavesNothing
<1>24. CASE Tick
  <2>1. UNCHANGED <<pc, turn, turns, start, expectations, candidates>>
    BY <1>24 DEF Tick, store
  <2>2. meter'.turns = meter.turns
    BY <1>24, Limits DEF Tick, Types, TypeOK
  <2>3. Proposing' = Proposing
    BY <2>1 DEF Proposing
  <2> QED
    BY <2>1, <2>2, <2>3 DEF LeftInv
<1>25. CASE Abort
  <2>1. pc' = "idle" /\ UNCHANGED <<turns, start, expectations, candidates>>
    BY <1>25 DEF Abort, store
  <2>2. Proposing' = Proposing
    BY <2>1 DEF Proposing
  <2> QED
    BY <2>1, <2>2 DEF LeftInv, InTurn
<1> QED
  BY <1>1, <1>2, <1>3, <1>4, <1>5, <1>6, <1>7, <1>8, <1>9, <1>10, <1>11,
     <1>12, <1>13, <1>14, <1>15, <1>16, <1>17, <1>18, <1>19, <1>20, <1>21,
     <1>22, <1>23, <1>24, <1>25 DEF Next, Step, Turn

-----------------------------------------------------------------------------
(* The inductive invariant.                                                *)
IInv == Types /\ StartInv /\ CallInv /\ RoomInv /\ CandidateInv /\ ExplainInv
        /\ StoryInv /\ LeftInv

(* The invariant holds at first.                                            *)
LEMMA InitInv == ASSUME Init PROVE IInv
<1>1. Types /\ StartInv /\ CallInv
  BY InitCalls
<1>2. RoomInv
  BY DEF Init, RoomInv
<1>3. pc = "idle" /\ Newest = 0 /\ result = Absent
  BY DEF Init, Newest
<1>4. Planned = {}
  BY <1>1, <1>3, PlannedFinite
<1>5. Cardinality(Planned) = 0
  BY <1>4, FS_EmptySet
<1>6. CandidateInv /\ ExplainInv
  BY <1>3, <1>5, Limits DEF CandidateInv, ExplainInv, Newest
<1>7. Len(turns) = 0
  BY DEF Init
<1>8. StoryInv
  BY <1>3, <1>7 DEF StoryInv, Told, Undecided, Ends, Absent
<1>9. Proposing = {}
  BY DEF Init, Proposing, Range
<1>10. LeftInv
  BY <1>3, <1>7, <1>9 DEF LeftInv, InTurn
<1> QED
  BY <1>1, <1>2, <1>6, <1>8, <1>10 DEF IInv

(* Every step keeps the invariant.                                          *)
LEMMA NextInv == ASSUME IInv, Next PROVE IInv'
BY TypesStep, CallStep, RoomStep, CandidateStep, StoryStep, LeftStep DEF IInv

(* So does a step that changes nothing.                                     *)
LEMMA StutterInv == ASSUME IInv, UNCHANGED vars PROVE IInv'
<1>1. UNCHANGED <<pc, setting, meter, turn, status, start, turns, turnEvents, result,
                  expectations, candidates, calls, aborted>>
  BY DEF vars, process, store
<1>2. Newest' = Newest /\ Planned' = Planned
  BY <1>1 DEF Newest, Planned
<1>3. Types'
  BY <1>1 DEF IInv, Types, TypeOK
<1>4. StartInv' /\ CallInv'
  BY <1>1 DEF IInv, StartInv, CallInv
<1>5. RoomInv'
  BY <1>1 DEF IInv, RoomInv
<1>6. CandidateInv' /\ ExplainInv'
  BY <1>1, <1>2 DEF IInv, CandidateInv, ExplainInv
<1>7. StoryInv'
  BY <1>1 DEF IInv, StoryInv, Told, Ends, Exhausted, NoTime
<1>8. Proposing' = Proposing
  BY <1>1 DEF Proposing
<1>9. LeftInv'
  BY <1>1, <1>8 DEF IInv, LeftInv
<1> QED
  BY <1>3, <1>4, <1>5, <1>6, <1>7, <1>9 DEF IInv

(* The invariant of the specification.                                      *)
LEMMA Invariant == Spec => []IInv
<1>1. Init => IInv
  BY InitInv
<1>2. IInv /\ [Next]_vars => IInv'
  BY NextInv, StutterInv
<1> QED
  BY <1>1, <1>2, PTL DEF Spec

-----------------------------------------------------------------------------
(* The type invariant: with it, the meter never leaves its limits.          *)
THEOREM TypeCorrect == Spec => []TypeOK
<1>1. IInv => TypeOK
  BY DEF IInv, Types
<1> QED
  BY <1>1, Invariant, PTL

(* The calls of the provider ever made and the candidates and plans on disk *)
(* are within the budget, over every death, failure and new attempt.        *)
THEOREM WithinBudget == Spec => []BudgetKept
<1>1. IInv => BudgetKept
  BY DEF IInv, CallInv, CandidateInv, BudgetKept
<1> QED
  BY <1>1, Invariant, PTL

(* No call of the provider goes unrecorded, save the last of an             *)
(* investigation that was cut short; a result has all of them.              *)
THEOREM CallsAreRecorded == Spec => []EveryCallIsRecorded
<1>1. IInv => EveryCallIsRecorded
  BY DEF IInv, CallInv, Settled, EveryCallIsRecorded
<1> QED
  BY <1>1, Invariant, PTL

(* A turn that is recorded as exhausted, or whose answer came when the time *)
(* was used up, left no expectation, no candidate and no plan in the run.   *)
THEOREM NothingLeft == Spec => []ExhaustedLeavesNothing
<1>1. ASSUME IInv PROVE ExhaustedLeavesNothing
  <2>1. DOMAIN turns = 1..Len(turns)
    BY <1>1 DEF IInv, Types
  <2> QED
    BY <1>1, <2>1 DEF IInv, LeftInv, ExhaustedLeavesNothing
<1> QED
  BY <1>1, Invariant, PTL

(* A finished investigation has the provenance of every candidate.          *)
THEOREM AllExplained == Spec => []CandidatesAreExplained
<1>1. IInv => CandidatesAreExplained
  BY PlannedFinite DEF IInv, ExplainInv, CandidatesAreExplained
<1> QED
  BY <1>1, Invariant, PTL

(* The status of a result is the story its turns tell.                      *)
THEOREM ResultsAreTrue == Spec => []ResultIsTrue
<1>1. ASSUME IInv PROVE ResultIsTrue
  <2>1. Len(turns) \in Nat /\ DOMAIN turns = 1..Len(turns)
    BY <1>1 DEF IInv, Types
  <2>2. Len(turns) > 0 => turns # <<>>
    BY <2>1
  <2>3. \A i \in DOMAIN turns : Ends(turns[i]) => i = Len(turns)
    BY <1>1, <2>1 DEF IInv, StoryInv
  <2>4. Told(result.status)
    BY <1>1 DEF IInv, StoryInv
  <2> QED
    BY <2>2, <2>3, <2>4 DEF ResultIsTrue, Told, Stopped, Failed, Last
<1> QED
  BY <1>1, Invariant, PTL
=============================================================================
