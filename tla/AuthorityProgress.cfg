CONSTANTS
    Found = 1
    MaxObservations = 1
    MaxCandidates = 1
    Commands = 0
    Review = {"COUNTEREVIDENCE"}
    Withdrawal = {"STALE"}
    Lister = {"r1", "r2"}
    MaxExpectations = 2
    MaxEvents = 34
    MaxFaults = 2
    K1 = K1  K2 = K2
    Kernel <- MCKernel
SPECIFICATION MCSpec
CHECK_DEADLOCK FALSE
INVARIANTS UnauditableOnlyByFault IndexNeverAhead
PROPERTIES CommitCompletes
