CONSTANTS
    Found = 1
    MaxObservations = 1
    MaxCandidates = 1
    Commands = 0
    Review = {"COUNTEREVIDENCE"}
    Withdrawal = {"STALE"}
    Lister = {}
    MaxExpectations = 2
    MaxEvents = 34
    MaxFaults = 2
    K1 = K1  K2 = K2
    Kernel <- MCKernel
SPECIFICATION MCSafeSpec
CHECK_DEADLOCK FALSE
INVARIANT CommitIsAtomic
