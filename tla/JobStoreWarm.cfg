CONSTANTS
    Projects = {p1, p2}
    Fresh = {}
    Requests = {r1, r2}
    Workers = {w1}
    MaxQueued = 0
    KeepRuns = 1
    Faults = {"admit", "start", "publish", "fail"}
    MaxJobs = 3
    MaxFaults = 1
    MaxCrashes = 1
SPECIFICATION FairSpec
INVARIANTS
    TypeOK
    OneRunPerProject
    BoundedAdmission
PROPERTIES
    JobsEnd
CHECK_DEADLOCK FALSE
