CONSTANTS
    MaxTurns = 3
    MaxToolCalls = 1
    MaxCandidates = 2
    MaxExperiments = 1
    MaxWall = 2
    MaxRequest = 2
    MaxTotalRequest = 4
    RequestSize = {1, 3}
    PlanCost = {1, 2}
SPECIFICATION FairSpec
INVARIANTS
    BudgetKept EveryCallIsRecorded ResultIsTrue ExhaustedLeavesNothing
    CandidatesAreExplained
PROPERTY InvestigationEnds
CHECK_DEADLOCK FALSE
