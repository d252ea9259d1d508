CONSTANTS
    Projects = {p1, p2}
    Fresh = {}
    Requests = {r1, r2}
    Workers = {w1, w2}
    MaxQueued = 0
    KeepRuns = 1
    Faults = {"publish"}
    MaxJobs = 3
    MaxFaults = 1
    MaxCrashes = 1
SPECIFICATION Spec
SYMMETRY Threads
INVARIANTS
    ActiveRunStays
    ProcessedIsPublished
PROPERTIES
    ImplementsProjectRuns
CHECK_DEADLOCK FALSE
