CONSTANTS
    Callers = {c1, c2}
    Elements = {e1, e2}
    Verdicts = {unseen, excluded}
    Unseen = unseen
    Nobody = nobody
    None = none
    MaxCalls = 3
    MaxRuns = 2
    MaxCrashes = 0
SPECIFICATION Spec
SYMMETRY Threads
PROPERTIES
    ReviewsSurvive
CHECK_DEADLOCK FALSE
