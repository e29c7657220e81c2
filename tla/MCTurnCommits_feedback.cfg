CONSTANTS
    Sessions = {s1}
    Requests = {r1, r2}
    Paths = {p1}
    Kinds = {"journal"}
    Exposed = {}
    Workers = {}
    Outside = Outside
    None = None
SPECIFICATION Spec
INVARIANT IdleSessionsHoldNoTicket
CHECK_DEADLOCK FALSE
