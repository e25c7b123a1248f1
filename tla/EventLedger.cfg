CONSTANTS
    W1 = W1  W2 = W2
    E1 = E1  E2 = E2  Foreign = Foreign
    R1 = R1  R2 = R2
    NoWriter = NoWriter
    Writer <- MCWriter
    Event <- MCEvent
    Run <- MCRun
    RunOf <- MCRunOf
    MaxEntries = 3
    MaxFaults = 2
SPECIFICATION Spec
INVARIANTS ChainIntact AcknowledgedNotReplaced
PROPERTY ImplementsAppendOnlyLog
