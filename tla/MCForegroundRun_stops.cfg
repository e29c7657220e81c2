CONSTANTS
    Calls = {c1, c2}
    Ids = {i1}
    Kinds = {"read", "ask"}
    Modes = {TRUE, FALSE}
    None = None
    ActionLimit = 2
SPECIFICATION FairSpec
PROPERTY ClosedGateDrains
PROPERTY CancelledRunEnds
CHECK_DEADLOCK FALSE
