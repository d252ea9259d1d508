CONSTANTS
    Projects = {p1}
    Fresh = {p1}
    Requests = {r1, r2}
    Workers = {w1, w2}
    MaxQueued = 0
    KeepRuns = 3
    Faults = {"admit", "start", "publish", "finish", "fail", "interrupt"}
    MaxJobs = 3
    MaxFaults = 1
    MaxCrashes = 1
SPECIFICATION Spec
SYMMETRY Threads
INVARIANTS
    
    NoGhostJob
CHECK_DEADLOCK FALSE
