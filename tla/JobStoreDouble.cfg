CONSTANTS
    Projects = {p1, p2}
    Fresh = {p1, p2}
    Requests = {r1, r2}
    Workers = {w1}
    MaxQueued = 0
    KeepRuns = 1
    Faults = {}
    MaxJobs = 2
    MaxFaults = 1
    MaxCrashes = 0
SPECIFICATION Spec
INVARIANTS
    OneRunPerProject
CHECK_DEADLOCK FALSE
