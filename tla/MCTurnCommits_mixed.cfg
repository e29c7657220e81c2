CONSTANTS
    Sessions = {s1, s2}
    Requests = {r1, r2}
    Paths = {p1}
    Kinds = {"source", "journal", "fs"}
    Exposed = {p1}
    Workers = {}
    Outside = Outside
    None = None
SPECIFICATION Spec
INVARIANT TypeOK
INVARIANT CommitRecordsTheTurn
INVARIANT GitRunsAlone
INVARIANT OneClaimantPerSession
INVARIANT RegistrationsAreTickets
INVARIANT ToolsServeTheirRequest
PROPERTY CommitsLeaveOthersSourceEdits
SYMMETRY Symmetry
CHECK_DEADLOCK FALSE
