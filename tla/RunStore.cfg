CONSTANTS
    MaxCandidates = 1
    Found = 1
    Commands = 1
    Review = {"COUNTEREVIDENCE"}
    Withdrawal = {"STALE"}
    Lister = {}
    MaxExpectations = 1
    MaxObservations = 2
    MaxEvents = 34
    MaxFaults = 2
SPECIFICATION Spec
CHECK_DEADLOCK FALSE
INVARIANTS EventsAreBacked HistoryIsLegal StateIsEvidenced
PROPERTIES InterruptedExecutionIsFinal LostHistoryStaysLost SpoiltIntakeStaysSpoilt
