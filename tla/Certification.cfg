SPECIFICATION Spec
CONSTANTS
    Positive <- MCPositive
    Control <- MCControl
    Variant <- MCVariant
    Full = "full"
    Threshold = 1
    Walk <- MCWalk
    Busy <- MCBusy
    Unfinished <- MCUnfinished
    Claims <- MCClaims
    Signing <- MCSigning
    Horizon = 1
INVARIANTS
    AnswerCountsCommits
    NoCommitIsHidden
PROPERTIES
    AnswerIsSigned
CHECK_DEADLOCK FALSE
