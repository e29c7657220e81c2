CONSTANTS
    Sessions = {s1, s2}
    Paths = {p}
    LineCount = 2
    Versions = {a, b}
    Missing = Missing
    NoCall = NoCall
    MaxEvents = 5
SYMMETRY Symmetry
SPECIFICATION Spec
CHECK_DEADLOCK FALSE
INVARIANT AcceptedWritesOverwrite
