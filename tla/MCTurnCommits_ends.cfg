CONSTANTS
    Sessions = {s1, s2}
    Requests = {r1, r2}
    Paths = {p1}
    Kinds = {"journal"}
    Exposed = {}
    Workers = {s2}
    Outside = Outside
    None = None
SPECIFICATION FairSpec
PROPERTY TurnsEnd
CHECK_DEADLOCK FALSE
