CONSTANTS
    Requests = {r1, r2}
    NoRequest = NoRequest
    NoRun = NoRun
    MaxRuns = 3
SPECIFICATION Spec
CHECK_DEADLOCK FALSE
PROPERTY UnknownRunsAreNotDiscarded
