CONSTANTS
    T1 = T1  T2 = T2  T3 = T3
    P1 = P1  P2 = P2
    Mutation = Mutation  Ledger = Ledger
    NoThread = NoThread
    Thread <- MCThread
    Process <- MCProcess
    ProcOf <- MCProcOf
    Path <- MCPath
    Below <- MCBelow
    MaxCalls = 3
SPECIFICATION FairSpec
INVARIANTS HeldIsExact MutualExclusion RLockBalanced
PROPERTY EveryHoldEnds
