CONSTANTS
    Calls = {c1, c2}
    Ids = {i1, i2}
    Kinds = {"read", "mutate", "ask", "usage"}
    Modes = {TRUE, FALSE}
    None = None
    ActionLimit = 1
SPECIFICATION Spec
INVARIANT TypeOK
INVARIANT ReportedRunIsQuiet
INVARIANT IdsAreServedOnce
INVARIANT CallsTurnedAwayAreReported
INVARIANT TranscriptIsPaired
PROPERTY CompletionsStayDurable
PROPERTY NoWakeUpIsLost
PROPERTY ImplementsPromise
SYMMETRY Symmetry
CHECK_DEADLOCK FALSE
