CONSTANTS
    Found = 1
    MaxObservations = 1
    MaxCandidates = 2
    Commands = 0
    Review = {"COUNTEREVIDENCE"}
    Withdrawal = {"STALE"}
    Lister = {}
    MaxExpectations = 2
    MaxEvents = 35
    MaxFaults = 1
    K1 = K1  K2 = K2
    Kernel <- MCKernel
SPECIFICATION MCSafeSpec
CHECK_DEADLOCK FALSE
INVARIANTS VerdictFollowsSignedGraph AuditedEvidencePrecedesVerdict
PROPERTIES AuditIsStable ImplementsAuthorizations
