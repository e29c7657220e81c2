CONSTANTS
    Requests = {r1, r2}
    NoRequest = NoRequest
    NoRun = NoRun
    MaxRuns = 4
SPECIFICATION Spec
CHECK_DEADLOCK FALSE
INVARIANT TypeOK
PROPERTY ContinuesTheConversation
PROPERTY UnknownRunsStop
PROPERTY CompletedRequestsAreSaved
