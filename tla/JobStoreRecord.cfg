CONSTANTS
    Projects = {p1, p2}
    Fresh = {}
    Requests = {r1, r2}
    Workers = {w1, w2}
    MaxQueued = 0
    KeepRuns = 1
    Faults = {}
    MaxJobs = 3
    MaxFaults = 1
    MaxCrashes = 0
SPECIFICATION Spec
INVARIANTS
    RecordNamesJobInFlight
CHECK_DEADLOCK FALSE
