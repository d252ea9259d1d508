CONSTANTS
    Callers = {c1, c2}
    Elements = {e1, e2}
    Verdicts = {unseen, excluded}
    Unseen = unseen
    Nobody = nobody
    None = none
    MaxCalls = 2
    MaxRuns = 2
    MaxCrashes = 1
SPECIFICATION FairSpec
INVARIANTS
    TypeOK
    ShownIsCurrent
PROPERTIES
    LockedEditsBuildOnSeen
    LockedReviewsSurvive
    CallsEnd
CHECK_DEADLOCK FALSE
